------------------------------ MODULE HiveBoot ------------------------------
(***************************************************************************)
(* Starting, crashing and restarting the hive: IpcServerInit, IpcServerRun *)
(* and IpcServerFree as cmd/hive/main.c calls them, in several processes   *)
(* that share one path in the file system.  bind creates the socket file,  *)
(* and nothing in src/ removes it: it outlives the process that made it.   *)
(***************************************************************************)
EXTENDS Naturals, FiniteSets

CONSTANTS
  Hives,       \* the hive processes that are ever started
  NoFile,      \* the path is free
  MaxRemovals  \* bound: how often someone removes the file by hand

ASSUME HiveBootAssumption == NoFile \notin Hives /\ MaxRemovals \in Nat

VARIABLES
  file,       \* the process whose bind made the socket file, or NoFile
  removals,   \* how often the file has been removed by hand
  pc,         \* "new", "bind", "listen", "run", "free" or "ended"
  bound,      \* the processes whose bind succeeded
  listening,  \* the processes whose uv_listen succeeded
  said,       \* the processes that logged "server listening at"
  code        \* how each process ended

vars == <<file, removals, pc, bound, listening, said, code>>

TypeOK ==
  /\ file \in Hives \cup {NoFile}
  /\ removals \in Nat
  /\ pc \in [Hives -> {"new", "bind", "listen", "run", "free", "ended"}]
  /\ bound \subseteq Hives /\ listening \subseteq Hives /\ said \subseteq Hives
  /\ code \in [Hives -> {"none", "success", "failure", "signal"}]

Init ==
  /\ file = NoFile
  /\ removals = 0
  /\ pc = [h \in Hives |-> "new"]
  /\ bound = {} /\ listening = {} /\ said = {}
  /\ code = [h \in Hives |-> "none"]

Goto(h, from, to) == pc[h] = from /\ pc' = [pc EXCEPT ![h] = to]

(* Someone starts a hive.                                                   *)
Start(h) ==
  /\ Goto(h, "new", "bind")
  /\ UNCHANGED <<file, removals, bound, listening, said, code>>

(* Mutant: the path is unlinked before it is bound.                         *)
BindAfterUnlink(h) ==
  /\ Goto(h, "bind", "listen")
  /\ file' = h /\ bound' = bound \cup {h}
  /\ UNCHANGED <<removals, listening, said, code>>

(* uv_pipe_bind: EADDRINUSE if the path exists, whoever made it.            *)
Bind(h) ==
  /\ Goto(h, "bind", "listen")
  /\ IF file = NoFile THEN file' = h /\ bound' = bound \cup {h}
                      ELSE UNCHANGED <<file, bound>>
  /\ UNCHANGED <<removals, listening, said, code>>

(* Mutant: listening is retried for ever.                                  *)
ListenWhenBound(h) ==
  /\ h \in bound
  /\ Goto(h, "listen", "run")
  /\ listening' = listening \cup {h}
  /\ said' = said \cup {h}
  /\ UNCHANGED <<file, removals, bound, code>>

(* uv_listen fails without a bound socket; CHECK_UV only logs, and so the   *)
(* line that says the server listens is reached in any case.                *)
Listen(h) ==
  /\ Goto(h, "listen", "run")
  /\ listening' = IF h \in bound THEN listening \cup {h} ELSE listening
  /\ said' = said \cup {h}
  /\ UNCHANGED <<file, removals, bound, code>>

(* Mutant: the loop is run once only.                                       *)
RunOnce(h) ==
  /\ Goto(h, "run", "free")
  /\ UNCHANGED <<file, removals, bound, listening, said, code>>

(* uv_run returns at once if nothing is active, and for ever otherwise.     *)
RunReturns(h) ==
  /\ h \notin listening
  /\ Goto(h, "run", "free")
  /\ UNCHANGED <<file, removals, bound, listening, said, code>>

(* IpcServerFree deletes a loop whose pipe was never closed: libuv built    *)
(* with assertions aborts there, otherwise main returns EXIT_SUCCESS.       *)
Free(h) ==
  /\ Goto(h, "free", "ended")
  /\ \E end \in {"success", "signal"} : code' = [code EXCEPT ![h] = end]
  /\ UNCHANGED <<file, removals, bound, listening, said>>

(* OnRead's exit(1), SIGPIPE or kill: the kernel closes the socket, and     *)
(* only libuv's uv_close would have removed its file.                       *)
End(h, how) ==
  /\ pc' = [pc EXCEPT ![h] = "ended"]
  /\ code' = [code EXCEPT ![h] = how]
  /\ listening' = listening \ {h}
  /\ UNCHANGED <<file, removals, bound, said>>

ExitServing(h) == pc[h] = "run" /\ h \in listening /\ End(h, "failure")
Kill(h)        == pc[h] \notin {"new", "ended"} /\ End(h, "signal")

RemoveFile ==
  /\ file /= NoFile
  /\ removals < MaxRemovals
  /\ file' = NoFile
  /\ removals' = removals + 1
  /\ UNCHANGED <<pc, bound, listening, said, code>>

HiveStep(h) == Bind(h) \/ Listen(h) \/ RunReturns(h) \/ Free(h)

Next ==
  \/ RemoveFile
  \/ \E h \in Hives : Start(h) \/ HiveStep(h) \/ ExitServing(h) \/ Kill(h)

Spec == Init /\ [][Next]_vars /\ \A h \in Hives : WF_vars(HiveStep(h))

-----------------------------------------------------------------------------
Serving(h) == pc[h] = "run" /\ h \in listening

(* What a command line that dials the path reaches.                         *)
Reachable(h) == file = h /\ h \in listening

(* As long as nobody removes the file by hand, the serving hive is the one  *)
(* that made it, so every client reaches it, and no later hive ever serves, *)
(* not even when the first is dead: whoever restarts a hive restores the    *)
(* service only if the file has been removed in between.                    *)
OneHivePerPath ==
  /\ removals = 0 => \A h \in Hives : Serving(h) => Reachable(h)
  /\ Cardinality(bound) <= 1 + removals

(* EXIT_SUCCESS is the exit of a hive that never served; one that served    *)
(* never ends with it.                                                      *)
SuccessMeansNeverServed ==
  \A h \in Hives : code[h] = "success" => h \notin bound

(* A hive that has been started and is not killed comes to serve or ends.   *)
StartedServesOrEnds ==
  \A h \in Hives : pc[h] = "bind" ~> Serving(h) \/ pc[h] = "ended"

(* What server.c:131 logs: "server listening at" the path.                  *)
SaidMeansListening ==
  \A h \in Hives : h \in said /\ pc[h] = "run" => h \in listening
=============================================================================
