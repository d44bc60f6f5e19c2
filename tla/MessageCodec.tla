---------------------------- MODULE MessageCodec ----------------------------
(***************************************************************************)
(* One message on its way through the codecs of IpcMessage: written by C   *)
(* or by the command line, possibly with its fields in another order (BSON *)
(* documents are not bound to the order either codec uses, and ReadMessage *)
(* is a loop over whatever comes), read by ReadMessage into uninitialised  *)
(* memory or, if it is a pong, by the command line's decodePong.           *)
(***************************************************************************)
EXTENDS IpcMessage

VARIABLES
  codec,  \* who encodes: "C" or "Go"
  msg,    \* the message as its sender holds it
  wire,   \* the document between them, << >> before it is written
  got     \* what the reader holds, NotYet before it has read

vars == <<codec, msg, wire, got>>

NotYet == [kind |-> kInvalidMessage, timestamp |-> 0, body |-> Garbage]

Init ==
  /\ codec \in {"C", "Go"}
  /\ msg \in Messages
  /\ codec = "Go" => msg.kind \in {kEventKind, kPingKind}
  /\ wire = << >>
  /\ got = NotYet

Encode ==
  /\ wire = << >>
  /\ wire' = IF codec = "C" THEN WriteMessage(msg)
                            ELSE CliDocument(msg.kind, msg.body)
  /\ UNCHANGED <<codec, msg, got>>

(* Another writer of BSON puts two neighbouring fields the other way round. *)
Reorder ==
  /\ wire /= << >>
  /\ got = NotYet
  /\ \E i \in 1..2 : wire' = [wire EXCEPT ![i] = wire[i + 1], ![i + 1] = wire[i]]
  /\ UNCHANGED <<codec, msg, got>>

Decode ==
  /\ wire /= << >>
  /\ got = NotYet
  /\ \E mem \in Memory : got' = ReadMessage(wire, mem)
  /\ UNCHANGED <<codec, msg, wire>>

DecodePong ==
  /\ wire /= << >>
  /\ got = NotYet
  /\ CliReadKind(wire) = kPongKind
  /\ got' = [kind |-> CliReadKind(wire), timestamp |-> CliField(wire, "timestamp"),
             body |-> CliReadDigest(wire)]
  /\ UNCHANGED <<codec, msg, wire>>

Next == Encode \/ Reorder \/ Decode \/ DecodePong

Spec == Init /\ [][Next]_vars

-----------------------------------------------------------------------------
Position(key) == CHOOSE i \in 1..3 : wire[i].key = key

(* A ping or an event whose kind comes before its data is read back with    *)
(* the kind and the body it was sent with, wherever its timestamp is and    *)
(* whatever the memory ReadMessage fills held before.                       *)
RoundTrip ==
  got /= NotYet /\ msg.kind \in {kPingKind, kEventKind} /\ Position("kind") < Position("data")
    => got.kind = msg.kind /\ got.body = msg.body

(* ReadMessage never hands out a body under the wrong kind: a body it       *)
(* allocated is the sender's, and if it returned early or skipped the data  *)
(* the body is still the memory's.                                          *)
NeverAnotherBody == got.body \in Bodies => got.body = msg.body /\ got.kind = msg.kind

(* A timestamp survives from C to either reader, unless ReadMessage returned *)
(* before reaching it; the command line writes a BSON datetime, which the   *)
(* hive's bson_iter_int64 reads as 0 and nothing reports.                   *)
TimestampRead ==
  got /= NotYet /\ got.timestamp /= Garbage
    => got.timestamp = IF codec = "C" THEN msg.timestamp ELSE 0
=============================================================================
