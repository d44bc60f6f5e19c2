--------------------------- MODULE MCOrchestrator ---------------------------
(* Orchestrator for TLC: two slots, two pids, two events.                   *)
EXTENDS Orchestrator

CONSTANT j1

MCJobs  == {j1}
TwoPids == 1..2
=============================================================================
