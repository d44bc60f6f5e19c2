--------------------------- MODULE MCProcessPool ---------------------------
(* ProcessPool for TLC: as many pids as slots, so that pids are reused.      *)
EXTENDS ProcessPool

CONSTANTS j1, j2

MCJobs    == {j1, j2}
ThreePids == 1..3
=============================================================================
