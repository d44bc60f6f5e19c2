-------------------------- MODULE IpcMessageProofs --------------------------
(***************************************************************************)
(* What ReadMessage makes of the documents of the system, whatever bodies  *)
(* there are and whatever the memory held before.                          *)
(***************************************************************************)
EXTENDS IpcMessage, TLAPS

(* ReadPing and ReadEvent read a payload of one field with their key.       *)
LEMMA ReadBodyOfOne ==
  ASSUME NEW key, NEW type, NEW value, NEW body
  PROVE  ReadBody(<< Field(key, type, value) >>, key, type, body) = value
<1>. DEFINE data == << Field(key, type, value) >>
            hits == {i \in DOMAIN data : data[i].key = key}
<1>1. hits = {1} /\ data[1].type = type /\ data[1].value = value
  BY DEF Field
<1>2. (CHOOSE i \in hits : \A j \in hits : j <= i) = 1
  BY <1>1
<1>. QED
  BY <1>1, <1>2 DEF ReadBody

(* The kinds differ from each other and from "no kind".                     *)
LEMMA KindsDiffer ==
  /\ kPingKind = 3 /\ kEventKind = 1 /\ kPongKind = 4 /\ kErrorKind = 2
  BY DEF kPingKind, kEventKind, kPongKind, kErrorKind

(* The three rounds of ReadMessage's loop over a document that has its      *)
(* fields in the order both codecs use.                                     *)
LEMMA ThreeRounds ==
  ASSUME NEW k \in MessageKinds, NEW tt, NEW tv, NEW data, NEW mem \in Memory,
         NEW doc, doc = << Field("kind", "int32", k), Field("timestamp", tt, tv),
                           Field("data", "document", data) >>
  PROVE  LET m == ReadMessage(doc, mem) IN
         /\ m.kind = k
         /\ k = kPingKind => m.body = ReadBody(data, "digest", "binary", mem.body)
         /\ k = kEventKind => m.body = ReadBody(data, "topic", "utf8", mem.body)
<1>. DEFINE t  == IntOf(doc[2], "int64")
            p0 == [kind |-> mem.kind, timestamp |-> mem.timestamp, body |-> mem.body,
                   returned |-> FALSE]
            p1 == [kind |-> k, timestamp |-> mem.timestamp, body |-> mem.body,
                   returned |-> FALSE]
            p2 == [kind |-> k, timestamp |-> t, body |-> mem.body, returned |-> FALSE]
<1>1. ReadField(p0, doc[1]) = p1
  BY DEF ReadField, Field, IntOf
<1>2. ReadField(p1, doc[2]) = p2
  BY DEF ReadField, Field
<1>3. ReadField(p2, doc[3]) = ReadData(p2, data)
  BY DEF ReadField, Field
<1>4. /\ ReadData(p2, data).kind = k
      /\ k = kPingKind =>
           ReadData(p2, data).body = ReadBody(data, "digest", "binary", mem.body)
      /\ k = kEventKind =>
           ReadData(p2, data).body = ReadBody(data, "topic", "utf8", mem.body)
  BY KindsDiffer DEF ReadData, MessageKinds
<1>. QED
  BY <1>1, <1>2, <1>3, <1>4 DEF ReadMessage

(* Both codecs write the kind, a timestamp and the data, in this order; the *)
(* data of a ping is its digest, that of an event its topic.                *)
LEMMA DocumentShape ==
  ASSUME NEW doc \in Documents
  PROVE  \E k \in MessageKinds, body \in Bodies : \E tt, tv, data :
           /\ doc = << Field("kind", "int32", k), Field("timestamp", tt, tv),
                       Field("data", "document", data) >>
           /\ DocumentKind(doc) = k /\ DocumentBody(doc) = body
           /\ k = kPingKind => data = << Field("digest", "binary", body) >>
           /\ k = kEventKind => data = << Field("topic", "utf8", body) >>
<1>. USE KindsDiffer
<1>1. ASSUME NEW m \in Messages, doc = WriteMessage(m)
      PROVE  /\ m.kind \in MessageKinds /\ m.body \in Bodies
             /\ DocumentKind(doc) = m.kind /\ DocumentBody(doc) = m.body
             /\ m.kind = kPingKind => WritePayload(m) = << Field("digest", "binary", m.body) >>
             /\ m.kind = kEventKind => WritePayload(m) = << Field("topic", "utf8", m.body) >>
  BY <1>1 DEF WriteMessage, WritePayload, Messages, MessageKinds, DocumentKind,
              DocumentBody, Field
<1>2. ASSUME NEW k \in {kEventKind, kPingKind}, NEW body \in Bodies, doc = CliDocument(k, body)
      PROVE  DocumentKind(doc) = k /\ DocumentBody(doc) = body
  BY <1>2 DEF CliDocument, DocumentKind, DocumentBody, Field
<1>3. CASE \E m \in Messages : doc = WriteMessage(m)
  BY <1>1, <1>3 DEF WriteMessage
<1>4. CASE \E k \in {kEventKind, kPingKind}, body \in Bodies : doc = CliDocument(k, body)
  BY <1>2, <1>4 DEF CliDocument, MessageKinds
<1>. QED
  BY <1>3, <1>4 DEF Documents

(* ReadMessage finds the kind of any document either codec writes, and the  *)
(* body of a ping or an event.                                              *)
THEOREM DecodeDocument ==
  ASSUME NEW doc \in Documents, NEW mem \in Memory
  PROVE  LET m == ReadMessage(doc, mem) IN
         /\ m.kind = DocumentKind(doc)
         /\ DocumentKind(doc) \in MessageKinds
         /\ DocumentBody(doc) \in Bodies
         /\ DocumentKind(doc) \in {kPingKind, kEventKind} => m.body = DocumentBody(doc)
<1>1. PICK k \in MessageKinds, body \in Bodies : \E tt, tv, data :
           /\ doc = << Field("kind", "int32", k), Field("timestamp", tt, tv),
                       Field("data", "document", data) >>
           /\ DocumentKind(doc) = k /\ DocumentBody(doc) = body
           /\ k = kPingKind => data = << Field("digest", "binary", body) >>
           /\ k = kEventKind => data = << Field("topic", "utf8", body) >>
  BY DocumentShape
<1>2. PICK tt, tv, data :
           /\ doc = << Field("kind", "int32", k), Field("timestamp", tt, tv),
                       Field("data", "document", data) >>
           /\ DocumentKind(doc) = k /\ DocumentBody(doc) = body
           /\ k = kPingKind => data = << Field("digest", "binary", body) >>
           /\ k = kEventKind => data = << Field("topic", "utf8", body) >>
  BY <1>1
<1>3. LET m == ReadMessage(doc, mem) IN
      /\ m.kind = k
      /\ k = kPingKind => m.body = ReadBody(data, "digest", "binary", mem.body)
      /\ k = kEventKind => m.body = ReadBody(data, "topic", "utf8", mem.body)
  BY <1>2, ThreeRounds
<1>. QED
  BY <1>2, <1>3, ReadBodyOfOne
=============================================================================
