----------------------------- MODULE IpcMessage -----------------------------
(***************************************************************************)
(* The messages of lib/ipc and their two codecs: the C one (event.c), used *)
(* by the hive and by lib/ipc's own client, and the Go one of the vespa    *)
(* command line (mongo-driver structs).                                    *)
(*                                                                         *)
(* A BSON document is the sequence of its fields in the order they were    *)
(* appended; a field has a key, a BSON type and a value.  Texts and byte   *)
(* arrays are members of Bodies.  Every document of the system has three   *)
(* fields, so the field loop of ReadMessage is unrolled three times.       *)
(***************************************************************************)
EXTENDS Naturals, Sequences

CONSTANTS
  Bodies,       \* digests and topics that messages carry
  EmptyBody,    \* what a zero-length read yields
  Garbage,      \* what a field holds that nothing has written
  MemoryKinds   \* values an uninitialised kind field may hold

ASSUME BodiesAssumption ==
  /\ EmptyBody \notin Bodies
  /\ Garbage \notin Bodies
  /\ MemoryKinds \subseteq Nat

kInvalidMessage == 0
kEventKind      == 1
kErrorKind      == 2
kPingKind       == 3
kPongKind       == 4
MessageKinds    == {kEventKind, kErrorKind, kPingKind, kPongKind}

Timestamps == {1337, 12937}   \* the ones the initialisers use
Messages   == [kind : MessageKinds, timestamp : Timestamps, body : Bodies]

(* A Message fresh from malloc: no field has a determined value.           *)
Memory == [kind : MemoryKinds, timestamp : {Garbage}, body : {Garbage}]

InitEventMessage(topic) == [kind |-> kEventKind, timestamp |-> 1337, body |-> topic]
InitPongMessage(digest) == [kind |-> kPongKind, timestamp |-> 12937, body |-> digest]

-----------------------------------------------------------------------------
Field(key, type, value) == [key |-> key, type |-> type, value |-> value]

(* WriteEvent, WritePing, WritePong and WriteError.                        *)
WritePayload(m) ==
  CASE m.kind = kEventKind -> << Field("topic", "utf8", m.body) >>
    [] m.kind \in {kPingKind, kPongKind} -> << Field("digest", "binary", m.body) >>
    [] m.kind = kErrorKind -> << Field("code", "int32", 0),
                                 Field("message", "binary", m.body) >>

(* Mutant: the timestamp is appended with the wrong width.                  *)
WriteMessageNarrow(m) ==
  << Field("kind", "int32", m.kind),
     Field("timestamp", "int32", m.timestamp),
     Field("data", "document", WritePayload(m)) >>

WriteMessage(m) ==
  << Field("kind", "int32", m.kind),
     Field("timestamp", "int64", m.timestamp),
     Field("data", "document", WritePayload(m)) >>

(* bson_iter_int32 and bson_iter_int64 yield 0 for a field of another type. *)
IntOf(f, type) == IF f.type = type THEN f.value ELSE 0

(* The field loop of ReadPing and ReadEvent: the last field with the key    *)
(* wins, one of the wrong type reads as empty, and a missing one leaves the *)
(* memory as it was.                                                        *)
ReadBody(data, key, type, body) ==
  LET hits == {i \in DOMAIN data : data[i].key = key}
      last == data[CHOOSE i \in hits : \A j \in hits : j <= i]
  IN  IF hits = {} THEN body
      ELSE IF last.type = type THEN last.value ELSE EmptyBody

(* Mutants: the two payload readers are swapped; decoding the data ends the *)
(* loop, so that a kind that comes after it is not read.                    *)
ReadDataSwapped(p, data) ==
  CASE p.kind = kPingKind  -> [p EXCEPT !.body = ReadBody(data, "topic", "utf8", @)]
    [] p.kind = kEventKind -> [p EXCEPT !.body = ReadBody(data, "digest", "binary", @)]
    [] OTHER -> p

ReadDataLast(p, data) ==
  CASE p.kind = kPingKind  -> [p EXCEPT !.body = ReadBody(data, "digest", "binary", @),
                                        !.returned = TRUE]
    [] p.kind = kEventKind -> [p EXCEPT !.body = ReadBody(data, "topic", "utf8", @),
                                        !.returned = TRUE]
    [] OTHER -> [p EXCEPT !.returned = TRUE]

(* The "data" field is decoded by the kind read so far: ReadPong and        *)
(* ReadError read nothing, and an invalid kind returns from ReadMessage.    *)
ReadData(p, data) ==
  CASE p.kind = kPingKind  -> [p EXCEPT !.body = ReadBody(data, "digest", "binary", @)]
    [] p.kind = kEventKind -> [p EXCEPT !.body = ReadBody(data, "topic", "utf8", @)]
    [] p.kind \in {kPongKind, kErrorKind} -> p
    [] OTHER -> [p EXCEPT !.returned = TRUE]

(* One round of ReadMessage's loop.                                         *)
ReadField(p, f) ==
  CASE p.returned -> p
    [] ~p.returned /\ f.key = "kind"      -> [p EXCEPT !.kind = IntOf(f, "int32")]
    [] ~p.returned /\ f.key = "timestamp" -> [p EXCEPT !.timestamp = IntOf(f, "int64")]
    [] ~p.returned /\ f.key = "data"      -> ReadData(p, f.value)
    [] OTHER -> p

(* ReadMessage(B, p), where p points to memory holding mem.                 *)
ReadMessage(doc, mem) ==
  LET p0 == [kind |-> mem.kind, timestamp |-> mem.timestamp, body |-> mem.body,
             returned |-> FALSE]
      p  == ReadField(ReadField(ReadField(p0, doc[1]), doc[2]), doc[3])
  IN  [kind |-> p.kind, timestamp |-> p.timestamp, body |-> p.body]

-----------------------------------------------------------------------------
(* What the command line marshals: sendPing and sendEvent.  A Go time.Time  *)
(* becomes a BSON datetime, not an int64; its value is left out.            *)
CliDocument(kind, body) ==
  << Field("kind", "int32", kind),
     Field("timestamp", "datetime", 1),
     Field("data", "document",
           << IF kind = kPingKind THEN Field("digest", "binary", body)
                                  ELSE Field("topic", "utf8", body) >>) >>

(* bson.Unmarshal finds a field by its name, wherever it is; only the kind  *)
(* and the data matter to decodePong.                                       *)
CliField(doc, key) == doc[CHOOSE i \in DOMAIN doc : doc[i].key = key].value

CliReadKind(doc)   == CliField(doc, "kind")
CliReadDigest(doc) == CliField(CliField(doc, "data"), "digest")

Documents ==
  {WriteMessage(m) : m \in Messages}
    \cup {CliDocument(k, b) : k \in {kEventKind, kPingKind}, b \in Bodies}

(* What a document says, read off it without a codec.                       *)
DocumentKind(doc) == doc[1].value
DocumentBody(doc) ==
  doc[3].value[IF DocumentKind(doc) = kErrorKind THEN 2 ELSE 1].value
=============================================================================
