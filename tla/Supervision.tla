---------------------------- MODULE Supervision ----------------------------
(***************************************************************************)
(* The supervisor of src/lib/supervisor over the hives of HiveBoot.  A     *)
(* host makes one supervisor, spawns hives with it, kills them, runs its   *)
(* loop and frees it; hives are started by hand as well.  There is one     *)
(* process handle, super->hive, which every spawn initialises anew.  It    *)
(* keeps its pid when the process has been reaped, and nothing looks at    *)
(* the state of the process.                                               *)
(***************************************************************************)
EXTENDS HiveBoot

CONSTANTS
  NoHive,  \* the handle has never held a pid
  ByHand   \* the hives that are started by hand

ASSUME SupervisionAssumption == NoHive \notin Hives /\ ByHand \subseteq Hives

VARIABLES
  host,    \* "new", "idle", in uv_run "default" or "nowait", "hung", "ended"
  result,  \* how the host's use of the supervisor ended
  handle,  \* "none", "active", "closing", "closed", or "broken" if spawned over
  target,  \* the hive whose pid the handle holds, or NoHive
  owner,   \* whose a hive's pid is: "none", "ours", "free" or "stranger"
  failed,  \* some uv_spawn has failed
  slain    \* a process that is no hive of ours has been killed

supervisor == <<host, result, handle, target, owner, failed, slain>>
svars      == <<vars, supervisor>>

SupervisionTypeOK ==
  /\ TypeOK
  /\ host \in {"new", "idle", "default", "nowait", "hung", "ended"}
  /\ result \in {"none", "null", "segv", "freed", "busy", "signal"}
  /\ handle \in {"none", "active", "closing", "closed", "broken"}
  /\ target \in Hives \cup {NoHive}
  /\ owner \in [Hives -> {"none", "ours", "free", "stranger"}]
  /\ failed \in BOOLEAN /\ slain \in BOOLEAN

SupervisionInit ==
  /\ Init
  /\ host = "new" /\ result = "none"
  /\ handle = "none" /\ target = NoHive
  /\ owner = [h \in Hives |-> "none"]
  /\ failed = FALSE /\ slain = FALSE

HostGoto(from, to) == host = from /\ host' = to
HostEnds(how)      == host' = "ended" /\ result' = how

(* NULL without a loop or a hive_bin; a malloc that fails is written to.    *)
NewSupervisor ==
  /\ host = "new"
  /\ \/ HostGoto("new", "idle") /\ UNCHANGED result
     \/ \E how \in {"null", "segv"} : HostEnds(how)
  /\ UNCHANGED <<vars, handle, target, owner, failed, slain>>

(* uv_spawn initialises a handle whatever it was.  Over one that is active, *)
(* it links libuv's list of processes to itself: the handle is broken.      *)
Respawned(to) == IF handle \in {"active", "broken"} THEN "broken" ELSE to

SupervisorSpawnHive(h) ==
  /\ host = "idle"
  /\ h \notin ByHand /\ Start(h)
  /\ handle' = Respawned("active")
  /\ target' = h
  /\ owner' = [owner EXCEPT ![h] = "ours"]
  /\ UNCHANGED <<host, result, failed, slain>>

(* Mutant: the pid of a failed spawn is 0.                                  *)
SpawnFailsClearsPid ==
  /\ host = "idle"
  /\ handle' = Respawned(handle)
  /\ failed' = TRUE
  /\ target' = 0
  /\ UNCHANGED <<vars, host, result, owner, slain>>

SpawnFails ==
  /\ host = "idle"
  /\ handle' = Respawned(handle)
  /\ failed' = TRUE
  /\ UNCHANGED <<vars, host, result, target, owner, slain>>

(* SupervisorKillHive: uv_process_kill passes on what the pid field holds,  *)
(* which is anything before the first spawn, and may even be 0, the group   *)
(* of the supervisor itself; then one iteration of the loop.                *)
Owner(h) == IF h = NoHive THEN "unset" ELSE owner[h]

KillTarget ==
  /\ Owner(target) = "ours" /\ Kill(target)
  /\ host' = "nowait"
  /\ UNCHANGED <<result, handle, target, owner, failed, slain>>

KillStranger ==
  /\ \/ Owner(target) = "unset" /\ UNCHANGED owner
     \/ Owner(target) = "stranger" /\ owner' = [owner EXCEPT ![target] = "free"]
  /\ slain' = TRUE
  /\ host' = "nowait"
  /\ UNCHANGED <<vars, result, handle, target, failed>>

KillNobody ==
  /\ \/ Owner(target) \in {"unset", "free"}
     \/ Owner(target) = "ours" /\ pc[target] = "ended"
  /\ host' = "nowait"
  /\ UNCHANGED <<vars, result, handle, target, owner, failed, slain>>

KillItself ==
  /\ Owner(target) = "unset"
  /\ HostEnds("signal")
  /\ UNCHANGED <<vars, handle, target, owner, failed, slain>>

SupervisorKillHive ==
  host = "idle" /\ (KillTarget \/ KillStranger \/ KillNobody \/ KillItself)

(* SupervisorRun in one of its modes ("once" returns as "nowait" may).      *)
SupervisorRun ==
  /\ \E mode \in {"default", "nowait"} : HostGoto("idle", mode)
  /\ UNCHANGED <<vars, result, handle, target, owner, failed, slain>>

InLoop == host \in {"default", "nowait"}

(* Mutants: the handle is not closed; it is closed after a signal only.     *)
OnChildExitUnclosed ==
  /\ InLoop
  /\ handle = "active"
  /\ owner[target] = "ours" /\ pc[target] = "ended"
  /\ owner' = [owner EXCEPT ![target] = "free"]
  /\ UNCHANGED <<vars, host, result, handle, target, failed, slain>>

OnChildExitOfSignal ==
  /\ InLoop
  /\ handle = "active"
  /\ owner[target] = "ours" /\ pc[target] = "ended"
  /\ owner' = [owner EXCEPT ![target] = "free"]
  /\ handle' = IF code[target] = "signal" THEN "closing" ELSE "active"
  /\ UNCHANGED <<vars, host, result, target, failed, slain>>

(* libuv reaps the child, which frees its pid, and calls OnChildExit.       *)
OnChildExit ==
  /\ InLoop
  /\ handle = "active"
  /\ owner[target] = "ours" /\ pc[target] = "ended"
  /\ owner' = [owner EXCEPT ![target] = "free"]
  /\ handle' = "closing"
  /\ UNCHANGED <<vars, host, result, target, failed, slain>>

(* The close of OnChildExit ends in the iteration that began it.            *)
Closed ==
  /\ InLoop
  /\ handle = "closing" /\ handle' = "closed"
  /\ UNCHANGED <<vars, host, result, target, owner, failed, slain>>

(* A child that ends sends libuv round the list that ends nowhere.          *)
Hang ==
  /\ InLoop
  /\ handle = "broken"
  /\ \E h \in Hives : owner[h] = "ours" /\ pc[h] = "ended"
  /\ host' = "hung"
  /\ UNCHANGED <<vars, result, handle, target, owner, failed, slain>>

(* Mutant: the default mode is UV_RUN_NOWAIT.                               *)
ReturnAtOnce ==
  /\ InLoop
  /\ handle /= "closing"
  /\ host' = "idle"
  /\ UNCHANGED <<vars, result, handle, target, owner, failed, slain>>

(* uv_run returns in its default mode when no handle is active or closing.  *)
Return ==
  /\ InLoop
  /\ handle /= "closing"
  /\ host = "default" => handle \notin {"active", "broken"}
  /\ host' = "idle"
  /\ UNCHANGED <<vars, result, handle, target, owner, failed, slain>>

(* uv_loop_delete finds a handle that is not closed, or that a failed spawn *)
(* has left in the loop, and does not like it.  Children live on.           *)
SupervisorFree ==
  /\ host = "idle"
  /\ HostEnds(IF handle \in {"none", "closed"} /\ ~failed THEN "freed" ELSE "busy")
  /\ UNCHANGED <<vars, handle, target, owner, failed, slain>>

-----------------------------------------------------------------------------
(* Hives run on by themselves, are started by hand, and the pid that the    *)
(* handle holds may go to another process.                                  *)
HivesStep ==
  /\ \/ RemoveFile
     \/ \E h \in ByHand : Start(h)
     \/ \E h \in Hives : HiveStep(h) \/ ExitServing(h) \/ Kill(h)
  /\ UNCHANGED supervisor

PidReused(h, from, to) ==
  /\ h = target /\ host \notin {"hung", "ended"}
  /\ owner[h] = from /\ owner' = [owner EXCEPT ![h] = to]
  /\ UNCHANGED <<vars, host, result, handle, target, failed, slain>>

LoopStep == OnChildExit \/ Closed \/ Hang \/ Return

SupervisionNext ==
  \/ NewSupervisor
  \/ (\E h \in Hives : SupervisorSpawnHive(h)) \/ SpawnFails
  \/ SupervisorKillHive \/ SupervisorRun \/ LoopStep \/ SupervisorFree
  \/ HivesStep
  \/ \E h \in Hives : PidReused(h, "free", "stranger") \/ PidReused(h, "stranger", "free")

SupervisionSpec ==
  /\ SupervisionInit
  /\ [][SupervisionNext]_svars
  /\ WF_svars(LoopStep)
  /\ \A h \in Hives : WF_svars(HiveStep(h) /\ UNCHANGED supervisor)

-----------------------------------------------------------------------------
(* "TODO: check state" of SupervisorKillHive: it can kill a process that is *)
(* no hive of ours before the first spawn and after a close, and as long as *)
(* the handle is in use it cannot, however children end, are reaped and     *)
(* their pids go to others.                                                 *)
StrangerDiesOnlyByStaleHandle ==
  [][slain' /= slain => handle \in {"none", "closed"}]_svars

(* When SupervisorRunDefault returns, every hive that the supervisor ever   *)
(* started has ended and has been reaped.                                   *)
RunReturnsWithoutChildren ==
  [][host = "default" /\ host' = "idle" => \A h \in Hives : owner[h] /= "ours"]_svars

(* SupervisorRunDefault waits for its hive to serve or to end, and returns  *)
(* after the end; a hive that finds the path taken ends at once.            *)
RunEndsWithItsHive ==
  LET Waits    == host = "default" /\ handle = "active"
      ItServes == \E h \in Hives : h = target /\ Serving(h)
      ItEnded  == \E h \in Hives : h = target /\ pc[h] = "ended"
  IN  /\ Waits ~> host /= "default" \/ ItServes
      /\ Waits /\ ItEnded ~> host /= "default"
=============================================================================
