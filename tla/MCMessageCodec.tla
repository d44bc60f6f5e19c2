--------------------------- MODULE MCMessageCodec ---------------------------
(* Constants for TLC: two bodies, and memory that may look like any kind.   *)
EXTENDS MessageCodec

CONSTANTS a, b, empty, garbage

MCBodies      == {a, b}
MCMemoryKinds == 0..5
=============================================================================
