---------------------------- MODULE MCSupervision ----------------------------
(* Supervision for TLC: two hives of the supervisor, one started by hand,   *)
(* and a file removed by hand once.                                         *)
EXTENDS Supervision

CONSTANTS h1, h2, h3

MCHives  == {h1, h2, h3}
MCByHand == {h3}
=============================================================================
