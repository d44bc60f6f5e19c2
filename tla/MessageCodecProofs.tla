------------------------- MODULE MessageCodecProofs -------------------------
(***************************************************************************)
(* Proofs about MessageCodec, for any bodies and any memory: what a reader *)
(* makes of a document does not depend on the order of its fields, except  *)
(* that a kind must come before the data it is to be used on.  The loop of *)
(* ReadMessage is followed with an invariant of its rounds.                *)
(***************************************************************************)
EXTENDS MessageCodec, IpcMessageProofs

Keys == {"kind", "timestamp", "data"}

(* What the sender of a message appends for each key.                       *)
Data(c, m) ==
  IF c = "C" THEN WritePayload(m)
  ELSE << IF m.kind = kPingKind THEN Field("digest", "binary", m.body)
                                ELSE Field("topic", "utf8", m.body) >>

Appended(c, m, f) ==
  \/ f = Field("kind", "int32", m.kind)
  \/ f = IF c = "C" THEN Field("timestamp", "int64", m.timestamp)
                    ELSE Field("timestamp", "datetime", 1)
  \/ f = Field("data", "document", Data(c, m))

(* The senders: the command line writes events and pings only.              *)
Writes(c, m) ==
  /\ c \in {"C", "Go"}
  /\ m \in Messages
  /\ c = "Go" => m.kind \in {kEventKind, kPingKind}

(* A document with the sender's three fields, each once, in any order.      *)
Shuffled(c, m, doc) ==
  /\ DOMAIN doc = 1..3
  /\ \A i \in 1..3 : Appended(c, m, doc[i])
  /\ \A i, j \in 1..3 : doc[i].key = doc[j].key => i = j

CodecIInv ==
  /\ Writes(codec, msg)
  /\ wire = << >> \/ Shuffled(codec, msg, wire)
  /\ wire = << >> => got = NotYet
  /\ RoundTrip
  /\ NeverAnotherBody
  /\ TimestampRead

TimestampSeen(c, m) == IF c = "C" THEN m.timestamp ELSE 0

(* The loop invariant of ReadMessage, when the fields with the keys in seen *)
(* have been read: an early return leaves the body alone, otherwise a kind  *)
(* that was seen is the sender's; a body is the sender's or nobody's.       *)
Rounds(c, m, p, seen) ==
  /\ DOMAIN p = {"kind", "timestamp", "body", "returned"}
  /\ p = [kind |-> p.kind, timestamp |-> p.timestamp, body |-> p.body,
          returned |-> p.returned]
  /\ p.returned \in BOOLEAN
  /\ p.timestamp \in {Garbage, TimestampSeen(c, m)}
  /\ p.body \in {Garbage, m.body}
  /\ p.returned \/ "data" \notin seen => p.body = Garbage
  /\ ~p.returned /\ "kind" \in seen => p.kind = m.kind

(* And if the data of a ping or an event is never read before its kind.     *)
Understood(m, p, seen) ==
  /\ "data" \in seen => "kind" \in seen /\ p.body = m.body
  /\ "kind" \in seen => p.kind = m.kind
  /\ ~p.returned

(* ReadPing and ReadEvent leave the memory alone on a payload without their *)
(* key.                                                                     *)
LEMMA ReadBodyOfOther ==
  ASSUME NEW data, NEW key, NEW type, NEW body,
         \A i \in DOMAIN data : data[i].key /= key
  PROVE  ReadBody(data, key, type, body) = body
  BY DEF ReadBody

(* What the two readers make of the payload of any message: each finds only *)
(* the one that has its key, and no other message's body under that key.    *)
LEMMA PayloadRead ==
  ASSUME NEW c, NEW m, Writes(c, m), NEW body
  PROVE  /\ ReadBody(Data(c, m), "digest", "binary", body)
              = IF m.kind \in {kPingKind, kPongKind} THEN m.body ELSE body
         /\ ReadBody(Data(c, m), "topic", "utf8", body)
              = IF m.kind = kEventKind THEN m.body ELSE body
<1>. USE KindsDiffer
<1>1. CASE m.kind \in {kPingKind, kPongKind}
  <2>1. Data(c, m) = << Field("digest", "binary", m.body) >>
    BY <1>1 DEF Writes, Data, WritePayload
  <2>2. ReadBody(Data(c, m), "digest", "binary", body) = m.body
    BY <2>1, ReadBodyOfOne
  <2>3. \A i \in DOMAIN Data(c, m) : Data(c, m)[i].key /= "topic"
    BY <2>1 DEF Field
  <2>4. ReadBody(Data(c, m), "topic", "utf8", body) = body
    BY <2>3, ReadBodyOfOther
  <2>. QED
    BY <1>1, <2>2, <2>4
<1>2. CASE m.kind = kEventKind
  <2>1. Data(c, m) = << Field("topic", "utf8", m.body) >>
    BY <1>2 DEF Writes, Data, WritePayload
  <2>2. ReadBody(Data(c, m), "topic", "utf8", body) = m.body
    BY <2>1, ReadBodyOfOne
  <2>3. \A i \in DOMAIN Data(c, m) : Data(c, m)[i].key /= "digest"
    BY <2>1 DEF Field
  <2>4. ReadBody(Data(c, m), "digest", "binary", body) = body
    BY <2>3, ReadBodyOfOther
  <2>. QED
    BY <1>2, <2>2, <2>4
<1>3. CASE m.kind = kErrorKind
  <2>1. Data(c, m) = << Field("code", "int32", 0), Field("message", "binary", m.body) >>
    BY <1>3 DEF Writes, Data, WritePayload
  <2>2. \A i \in DOMAIN Data(c, m) : Data(c, m)[i].key \notin {"topic", "digest"}
    BY <2>1 DEF Field
  <2>3. /\ ReadBody(Data(c, m), "digest", "binary", body) = body
        /\ ReadBody(Data(c, m), "topic", "utf8", body) = body
    BY <2>2, ReadBodyOfOther
  <2>. QED
    BY <1>3, <2>3
<1>. QED
  BY <1>1, <1>2, <1>3 DEF Writes, Messages, MessageKinds

(* One round keeps the loop invariant, whichever field it reads.            *)
LEMMA OneRound ==
  ASSUME NEW c, NEW m, Writes(c, m), NEW p, NEW seen, Rounds(c, m, p, seen),
         NEW f, Appended(c, m, f), f.key \notin seen
  PROVE  Rounds(c, m, ReadField(p, f), seen \cup {f.key})
<1>. USE KindsDiffer
<1>1. CASE p.returned
  BY <1>1 DEF Rounds, ReadField
<1>2. CASE ~p.returned /\ f = Field("kind", "int32", m.kind)
  <2>1. f.key = "kind" /\ f.type = "int32" /\ f.value = m.kind
    BY <1>2 DEF Field
  <2>2. ReadField(p, f) = [p EXCEPT !.kind = m.kind]
    BY <1>2, <2>1 DEF ReadField, IntOf
  <2>. QED
    BY <1>2, <2>1, <2>2 DEF Rounds
<1>3. CASE /\ ~p.returned
           /\ f = IF c = "C" THEN Field("timestamp", "int64", m.timestamp)
                             ELSE Field("timestamp", "datetime", 1)
  <2>1. f.key = "timestamp" /\ IntOf(f, "int64") = TimestampSeen(c, m)
    BY <1>3 DEF Field, IntOf, TimestampSeen, Writes
  <2>2. ReadField(p, f) = [p EXCEPT !.timestamp = TimestampSeen(c, m)]
    BY <1>3, <2>1 DEF ReadField
  <2>. QED
    BY <1>3, <2>1, <2>2 DEF Rounds
<1>4. CASE ~p.returned /\ f = Field("data", "document", Data(c, m))
  <2>1. f.key = "data" /\ f.value = Data(c, m)
    BY <1>4 DEF Field
  <2>2. ReadField(p, f) = ReadData(p, Data(c, m))
    BY <1>4, <2>1 DEF ReadField
  <2>3. CASE p.kind = kPingKind
    <3>1. ReadData(p, Data(c, m))
            = [p EXCEPT !.body = ReadBody(Data(c, m), "digest", "binary", p.body)]
      BY <2>3 DEF ReadData, Rounds
    <3>2. ReadBody(Data(c, m), "digest", "binary", p.body) \in {Garbage, m.body}
      BY PayloadRead DEF Rounds
    <3>. QED
      BY <1>4, <2>1, <2>2, <3>1, <3>2 DEF Rounds
  <2>4. CASE p.kind = kEventKind
    <3>1. ReadData(p, Data(c, m))
            = [p EXCEPT !.body = ReadBody(Data(c, m), "topic", "utf8", p.body)]
      BY <2>4 DEF ReadData, Rounds
    <3>2. ReadBody(Data(c, m), "topic", "utf8", p.body) \in {Garbage, m.body}
      BY PayloadRead DEF Rounds
    <3>. QED
      BY <1>4, <2>1, <2>2, <3>1, <3>2 DEF Rounds
  <2>5. CASE p.kind \in {kPongKind, kErrorKind}
    <3>1. ReadData(p, Data(c, m)) = p
      BY <2>5 DEF ReadData
    <3>. QED
      BY <1>4, <2>1, <2>2, <3>1 DEF Rounds
  <2>6. CASE p.kind \notin MessageKinds
    <3>1. ReadData(p, Data(c, m)) = [p EXCEPT !.returned = TRUE]
      BY <2>6 DEF ReadData, MessageKinds
    <3>. QED
      BY <1>4, <2>1, <2>2, <3>1 DEF Rounds
  <2>. QED
    BY <2>3, <2>4, <2>5, <2>6 DEF MessageKinds
<1>. QED
  BY <1>1, <1>2, <1>3, <1>4 DEF Appended, Rounds

(* A round that reads the kind, or reads the data when the kind was seen,   *)
(* understands a ping or an event.                                          *)
LEMMA OneRoundUnderstood ==
  ASSUME NEW c, NEW m, Writes(c, m), m.kind \in {kPingKind, kEventKind},
         NEW p, NEW seen, Rounds(c, m, p, seen), Understood(m, p, seen),
         NEW f, Appended(c, m, f), f.key \notin seen,
         f.key = "data" => "kind" \in seen
  PROVE  Understood(m, ReadField(p, f), seen \cup {f.key})
<1>. USE KindsDiffer
<1>1. CASE f = Field("kind", "int32", m.kind)
  <2>1. f.key = "kind" /\ f.type = "int32" /\ f.value = m.kind
    BY <1>1 DEF Field
  <2>2. ReadField(p, f) = [p EXCEPT !.kind = m.kind]
    BY <2>1 DEF ReadField, IntOf, Understood
  <2>. QED
    BY <2>1, <2>2 DEF Rounds, Understood
<1>2. CASE f = IF c = "C" THEN Field("timestamp", "int64", m.timestamp)
                          ELSE Field("timestamp", "datetime", 1)
  <2>1. f.key = "timestamp"
    BY <1>2 DEF Field
  <2>2. ReadField(p, f) = [p EXCEPT !.timestamp = IntOf(f, "int64")]
    BY <2>1 DEF ReadField, Understood
  <2>. QED
    BY <2>1, <2>2 DEF Rounds, Understood
<1>3. CASE f = Field("data", "document", Data(c, m))
  <2>1. f.key = "data" /\ f.value = Data(c, m)
    BY <1>3 DEF Field
  <2>2. "kind" \in seen /\ p.kind = m.kind
    BY <2>1 DEF Understood
  <2>3. ReadField(p, f) = ReadData(p, Data(c, m))
    BY <2>1 DEF ReadField, Understood
  <2>4. ReadData(p, Data(c, m)) = [p EXCEPT !.body = m.body]
    BY <2>2, PayloadRead DEF ReadData
  <2>. QED
    BY <2>1, <2>2, <2>3, <2>4 DEF Rounds, Understood
<1>. QED
  BY <1>1, <1>2, <1>3 DEF Appended

(* The three fields of a document have the three keys.                      *)
LEMMA KeysOnce ==
  ASSUME NEW c, NEW m, NEW doc, Shuffled(c, m, doc)
  PROVE  /\ \A i \in 1..3 : doc[i].key \in Keys
         /\ doc[1].key /= doc[2].key /\ doc[1].key /= doc[3].key /\ doc[2].key /= doc[3].key
         /\ {doc[1].key} \cup {doc[2].key} \cup {doc[3].key} = Keys
<1>1. \A f : Appended(c, m, f) => f.key \in Keys
  BY DEF Appended, Field, Keys
<1>2. /\ doc[1].key \in Keys /\ doc[2].key \in Keys /\ doc[3].key \in Keys
      /\ doc[1].key /= doc[2].key /\ doc[1].key /= doc[3].key /\ doc[2].key /= doc[3].key
  BY <1>1 DEF Shuffled
<1>3. {doc[1].key} \cup {doc[2].key} \cup {doc[3].key} = Keys
  BY <1>2 DEF Keys
<1>4. \A i \in 1..3 : doc[i].key \in Keys
  BY <1>2
<1>. QED
  BY <1>2, <1>3, <1>4

(* ReadMessage on the sender's fields in any order, into any memory: a body *)
(* it read is the sender's and then the kind is too, and a timestamp is     *)
(* what the sender's type lets through; a ping or an event whose kind comes *)
(* before its data is read in full.                                         *)
THEOREM ReadAnyOrder ==
  ASSUME NEW c, NEW m, Writes(c, m), NEW doc, Shuffled(c, m, doc), NEW mem \in Memory
  PROVE  LET r == ReadMessage(doc, mem) IN
         /\ r.body \in {Garbage, m.body}
         /\ r.body /= Garbage => r.kind = m.kind
         /\ r.timestamp \in {Garbage, TimestampSeen(c, m)}
         /\ /\ m.kind \in {kPingKind, kEventKind}
            /\ \A i, j \in 1..3 : doc[i].key = "kind" /\ doc[j].key = "data" => i < j
            => r.kind = m.kind /\ r.body = m.body
<1>. DEFINE p0 == [kind |-> mem.kind, timestamp |-> mem.timestamp, body |-> mem.body,
                   returned |-> FALSE]
            p1 == ReadField(p0, doc[1])
            p2 == ReadField(p1, doc[2])
            p3 == ReadField(p2, doc[3])
            s1 == {} \cup {doc[1].key}
            s2 == s1 \cup {doc[2].key}
            s3 == s2 \cup {doc[3].key}
            kindFirst == /\ m.kind \in {kPingKind, kEventKind}
                         /\ \A i, j \in 1..3 :
                              doc[i].key = "kind" /\ doc[j].key = "data" => i < j
<1>1. Appended(c, m, doc[1]) /\ Appended(c, m, doc[2]) /\ Appended(c, m, doc[3])
  BY DEF Shuffled
<1>2. doc[1].key \notin {} /\ doc[2].key \notin s1 /\ doc[3].key \notin s2 /\ s3 = Keys
  BY KeysOnce
<1>3. Rounds(c, m, p0, {})
  BY DEF Rounds, Memory
<1>4. Rounds(c, m, p1, s1)
  BY <1>1, <1>2, <1>3, OneRound
<1>5. Rounds(c, m, p2, s2)
  <2>. HIDE DEF p1, s1
  <2>. QED
    BY <1>1, <1>2, <1>4, OneRound
<1>6. Rounds(c, m, p3, s3)
  <2>. HIDE DEF p2, s2
  <2>. QED
    BY <1>1, <1>2, <1>5, OneRound
<1>7. ASSUME kindFirst PROVE Understood(m, p3, s3)
  <2>1. Understood(m, p0, {})
    BY DEF Understood
  <2>2. /\ doc[1].key /= "data"
        /\ doc[2].key = "data" => "kind" \in s1
        /\ doc[3].key = "data" => "kind" \in s2
    BY <1>2, <1>7 DEF Keys
  <2>3. Understood(m, p1, s1)
    BY <1>1, <1>2, <1>3, <1>7, <2>1, <2>2, OneRoundUnderstood
  <2>4. Understood(m, p2, s2)
    <3>. HIDE DEF p1, s1
    <3>. QED
      BY <1>1, <1>2, <1>4, <1>7, <2>2, <2>3, OneRoundUnderstood
  <2>. HIDE DEF p2, s2
  <2>. QED
    BY <1>1, <1>2, <1>5, <1>7, <2>2, <2>4, OneRoundUnderstood
<1>8. ReadMessage(doc, mem) = [kind |-> p3.kind, timestamp |-> p3.timestamp, body |-> p3.body]
  BY DEF ReadMessage
<1>9. "kind" \in s3 /\ "data" \in s3
  BY <1>2 DEF Keys
<1>. HIDE DEF p3, s3
<1>10. /\ p3.body \in {Garbage, m.body}
       /\ p3.body /= Garbage => p3.kind = m.kind
       /\ p3.timestamp \in {Garbage, TimestampSeen(c, m)}
  BY <1>6, <1>9 DEF Rounds
<1>11. kindFirst => p3.kind = m.kind /\ p3.body = m.body
  BY <1>7, <1>9 DEF Understood
<1>. QED
  BY <1>8, <1>10, <1>11

-----------------------------------------------------------------------------
(* Both encoders append the three fields, each once.                        *)
LEMMA EncodedOnce ==
  ASSUME NEW c, NEW m, Writes(c, m), NEW doc,
         doc = IF c = "C" THEN WriteMessage(m) ELSE CliDocument(m.kind, m.body)
  PROVE  Shuffled(c, m, doc)
<1>1. DOMAIN doc = 1..3
  BY DEF Writes, WriteMessage, CliDocument
<1>2. /\ doc[1] = Field("kind", "int32", m.kind)
      /\ doc[2] = IF c = "C" THEN Field("timestamp", "int64", m.timestamp)
                             ELSE Field("timestamp", "datetime", 1)
      /\ doc[3] = Field("data", "document", Data(c, m))
  BY DEF Writes, WriteMessage, CliDocument, Data
<1>3. doc[1].key = "kind" /\ doc[2].key = "timestamp" /\ doc[3].key = "data"
  BY <1>2 DEF Field
<1>4. \A i \in 1..3 : i = 1 \/ i = 2 \/ i = 3
  OBVIOUS
<1>5. \A i \in 1..3 : Appended(c, m, doc[i])
  BY <1>2, <1>4 DEF Appended
<1>6. \A i, j \in 1..3 : doc[i].key = doc[j].key => i = j
  BY <1>3, <1>4
<1>. QED
  BY <1>1, <1>5, <1>6 DEF Shuffled

(* Exchanging two neighbours keeps each field once.                         *)
LEMMA SwappedOnce ==
  ASSUME NEW c, NEW m, NEW doc, Shuffled(c, m, doc), NEW i \in 1..2, NEW new,
         new = [doc EXCEPT ![i] = doc[i + 1], ![i + 1] = doc[i]]
  PROVE  Shuffled(c, m, new)
<1>1. /\ DOMAIN new = 1..3
      /\ new[i] = doc[i + 1] /\ new[i + 1] = doc[i]
      /\ \A j \in 1..3 : j /= i /\ j /= i + 1 => new[j] = doc[j]
  BY DEF Shuffled
<1>2. \A j \in 1..3 : Appended(c, m, new[j])
  BY <1>1 DEF Shuffled
<1>3. \A j, k \in 1..3 : new[j].key = new[k].key => j = k
  BY <1>1 DEF Shuffled
<1>. QED
  BY <1>1, <1>2, <1>3 DEF Shuffled

(* Position finds the one field with a key; bson.Unmarshal does too.        *)
LEMMA FoundByKey ==
  ASSUME NEW c, NEW m, NEW doc, Shuffled(c, m, doc), NEW i \in 1..3
  PROVE  /\ (CHOOSE j \in 1..3 : doc[j].key = doc[i].key) = i
         /\ CliField(doc, doc[i].key) = doc[i].value
<1>1. \A j \in 1..3 : doc[j].key = doc[i].key => j = i
  BY DEF Shuffled
<1>2. (CHOOSE j \in 1..3 : doc[j].key = doc[i].key) = i
  BY <1>1
<1>. QED
  BY <1>2 DEF CliField, Shuffled

(* What decodePong and the two other lookups find in any order of a         *)
(* document: the sender's kind and timestamp, and a pong's digest.          *)
LEMMA LookedUp ==
  ASSUME NEW c, NEW m, Writes(c, m), NEW doc, Shuffled(c, m, doc)
  PROVE  /\ CliReadKind(doc) = m.kind
         /\ c = "C" => CliField(doc, "timestamp") = m.timestamp
         /\ m.kind = kPongKind => CliReadDigest(doc) = m.body
<1>1. PICK i \in 1..3, j \in 1..3, k \in 1..3 :
         doc[i].key = "kind" /\ doc[j].key = "timestamp" /\ doc[k].key = "data"
  BY KeysOnce DEF Keys
<1>2. /\ doc[i] = Field("kind", "int32", m.kind)
      /\ c = "C" => doc[j] = Field("timestamp", "int64", m.timestamp)
      /\ doc[k] = Field("data", "document", Data(c, m))
  <2>1. Appended(c, m, doc[i]) /\ Appended(c, m, doc[j]) /\ Appended(c, m, doc[k])
    BY DEF Shuffled
  <2>. QED
    BY <1>1, <2>1 DEF Appended, Field
<1>3. /\ CliField(doc, "kind") = doc[i].value
      /\ CliField(doc, "timestamp") = doc[j].value
      /\ CliField(doc, "data") = doc[k].value
  <2>1. /\ CliField(doc, doc[i].key) = doc[i].value
        /\ CliField(doc, doc[j].key) = doc[j].value
        /\ CliField(doc, doc[k].key) = doc[k].value
    BY FoundByKey
  <2>. QED
    BY <1>1, <2>1
<1>4. CliField(doc, "kind") = m.kind /\ CliField(doc, "data") = Data(c, m)
  BY <1>2, <1>3 DEF Field
<1>5. c = "C" => CliField(doc, "timestamp") = m.timestamp
  BY <1>2, <1>3 DEF Field
<1>6. ASSUME m.kind = kPongKind PROVE CliReadDigest(doc) = m.body
  <2>1. Data(c, m) = << Field("digest", "binary", m.body) >>
    BY <1>6, KindsDiffer DEF Writes, Data, WritePayload
  <2>2. DOMAIN Data(c, m) = {1} /\ Data(c, m)[1].key = "digest" /\ Data(c, m)[1].value = m.body
    BY <2>1 DEF Field
  <2>3. CliField(Data(c, m), "digest") = m.body
    BY <2>2 DEF CliField
  <2>. QED
    BY <1>4, <2>3 DEF CliReadDigest
<1>. QED
  BY <1>4, <1>5, <1>6 DEF CliReadKind

(* Nothing has been read at first, and Encode and Reorder read nothing.     *)
LEMMA NothingRead ==
  ASSUME got = NotYet
  PROVE  RoundTrip /\ NeverAnotherBody /\ TimestampRead
<1>1. got.body = Garbage /\ Garbage \notin Bodies
  BY BodiesAssumption DEF NotYet
<1>2. RoundTrip /\ NeverAnotherBody
  BY <1>1 DEF RoundTrip, NeverAnotherBody
<1>3. TimestampRead
  BY DEF TimestampRead
<1>. QED
  BY <1>2, <1>3

LEMMA CodecInit == Init => CodecIInv
<1>. SUFFICES ASSUME Init PROVE CodecIInv
  OBVIOUS
<1>1. Writes(codec, msg) /\ wire = << >> /\ got = NotYet
  BY DEF Init, Writes
<1>. QED
  BY <1>1, NothingRead DEF CodecIInv

LEMMA CodecStep == CodecIInv /\ [Next]_vars => CodecIInv'
<1>. SUFFICES ASSUME CodecIInv, [Next]_vars PROVE CodecIInv'
  OBVIOUS
<1>0. /\ Writes(codec, msg)
      /\ wire = << >> \/ Shuffled(codec, msg, wire)
      /\ wire = << >> => got = NotYet
  BY DEF CodecIInv
<1>a. (got = NotYet)' => (RoundTrip /\ NeverAnotherBody /\ TimestampRead)'
  BY NothingRead, PTL
<1>b. (NotYet = NotYet')
  BY DEF NotYet
<1>1. CASE Encode
  <2>1. got' = NotYet /\ codec' = codec /\ msg' = msg
    BY <1>0, <1>1 DEF Encode
  <2>2. Shuffled(codec, msg, wire')
    BY <1>0, <1>1, EncodedOnce DEF Encode
  <2>3. Writes(codec', msg') /\ Shuffled(codec', msg', wire')
    BY <1>0, <2>1, <2>2
  <2>. QED
    BY <1>a, <1>b, <2>1, <2>3 DEF CodecIInv
<1>2. CASE Reorder
  <2>1. got' = NotYet /\ codec' = codec /\ msg' = msg
    BY <1>2 DEF Reorder
  <2>2. Shuffled(codec, msg, wire')
    BY <1>0, <1>2, SwappedOnce DEF Reorder
  <2>3. Writes(codec', msg') /\ Shuffled(codec', msg', wire')
    BY <1>0, <2>1, <2>2
  <2>. QED
    BY <1>a, <1>b, <2>1, <2>3 DEF CodecIInv
<1>3. CASE Decode
  <2>1. /\ codec' = codec /\ msg' = msg /\ wire' = wire
        /\ wire /= << >> /\ Shuffled(codec, msg, wire)
    BY <1>0, <1>3 DEF Decode
  <2>2. PICK mem \in Memory : got' = ReadMessage(wire, mem)
    BY <1>3 DEF Decode
  <2>3. /\ got'.body \in {Garbage, msg.body}
        /\ got'.body /= Garbage => got'.kind = msg.kind
        /\ got'.timestamp \in {Garbage, TimestampSeen(codec, msg)}
        /\ /\ msg.kind \in {kPingKind, kEventKind}
           /\ \A i, j \in 1..3 : wire[i].key = "kind" /\ wire[j].key = "data" => i < j
           => got'.kind = msg.kind /\ got'.body = msg.body
    BY <1>0, <2>1, <2>2, ReadAnyOrder
  <2>4. TimestampRead'
    BY <2>1, <2>3 DEF TimestampRead, TimestampSeen
  <2>5. NeverAnotherBody'
    BY <2>1, <2>3, BodiesAssumption DEF NeverAnotherBody
  <2>6. RoundTrip'
    <3>1. ASSUME Position("kind") < Position("data"), NEW i \in 1..3, NEW j \in 1..3,
                 wire[i].key = "kind", wire[j].key = "data"
          PROVE  i < j
      <4>1. Position(wire[i].key) = i /\ Position(wire[j].key) = j
        BY <2>1, FoundByKey DEF Position
      <4>. QED
        BY <3>1, <4>1
    <3>2. Position("kind")' = Position("kind") /\ Position("data")' = Position("data")
      BY <2>1 DEF Position
    <3>. QED
      BY <2>1, <2>3, <3>1, <3>2 DEF RoundTrip
  <2>. QED
    BY <1>0, <2>1, <2>4, <2>5, <2>6 DEF CodecIInv
<1>4. CASE DecodePong
  <2>1. /\ codec' = codec /\ msg' = msg /\ wire' = wire
        /\ wire /= << >> /\ Shuffled(codec, msg, wire)
    BY <1>0, <1>4 DEF DecodePong
  <2>2. CliReadKind(wire) = kPongKind /\ msg.kind = kPongKind
    BY <1>0, <1>4, <2>1, LookedUp DEF DecodePong
  <2>3. codec = "C"
    BY <1>0, <2>2, KindsDiffer DEF Writes
  <2>4. /\ got'.kind = msg.kind /\ got'.timestamp = msg.timestamp /\ got'.body = msg.body
    BY <1>0, <1>4, <2>1, <2>2, <2>3, LookedUp DEF DecodePong
  <2>5. RoundTrip' /\ NeverAnotherBody' /\ TimestampRead'
    BY <2>1, <2>3, <2>4 DEF RoundTrip, NeverAnotherBody, TimestampRead
  <2>. QED
    BY <1>0, <2>1, <2>5 DEF CodecIInv
<1>5. CASE UNCHANGED vars
  BY <1>5 DEF vars, CodecIInv, RoundTrip, NeverAnotherBody, TimestampRead, Position, NotYet
<1>. QED
  BY <1>1, <1>2, <1>3, <1>4, <1>5 DEF Next

LEMMA CodecInvariant == Spec => []CodecIInv
  BY CodecInit, CodecStep, PTL DEF Spec

(* RoundTrip for any bodies: a ping or an event whose kind comes before its *)
(* data arrives with its kind and its body, whatever is between them and    *)
(* whatever malloc returned.                                                *)
THEOREM RoundTrips == Spec => []RoundTrip
<1>1. CodecIInv => RoundTrip
  BY DEF CodecIInv
<1>. QED
  BY <1>1, CodecInvariant, PTL

(* NeverAnotherBody for any bodies: no order of the fields and no memory    *)
(* makes a reader take a message for one of another kind and keep its body. *)
THEOREM BodiesAreNotConfused == Spec => []NeverAnotherBody
<1>1. CodecIInv => NeverAnotherBody
  BY DEF CodecIInv
<1>. QED
  BY <1>1, CodecInvariant, PTL

(* TimestampRead for any bodies: a reader that reached the timestamp has    *)
(* C's, or 0 for the command line's datetime.                               *)
THEOREM TimestampsAreRead == Spec => []TimestampRead
<1>1. CodecIInv => TimestampRead
  BY DEF CodecIInv
<1>. QED
  BY <1>1, CodecInvariant, PTL
=============================================================================
