----------------------------- MODULE MCHiveBoot -----------------------------
(* HiveBoot for TLC: three processes, and a file removed by hand once.      *)
EXTENDS HiveBoot

CONSTANTS h1, h2, h3

MCHives == {h1, h2, h3}
=============================================================================
