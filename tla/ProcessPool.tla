---------------------------- MODULE ProcessPool ----------------------------
(***************************************************************************)
(* The pool of child processes of the orchestrator: cmd/hive/src/process.c *)
(* over libuv's process handles and the operating system's process table.  *)
(* A slot is free when its handle's pid is 0; num_processes counts the     *)
(* children that OnProcessExit has not been told of.  A slot goes on       *)
(* holding its pid between OnProcessExit and OnProcessClosed, when the     *)
(* system may already have given that pid to a process of somebody else.   *)
(***************************************************************************)
EXTENDS Integers, FiniteSets

CONSTANTS
  MaxProcesses,  \* VESPA_MAX_PROCESSES
  Jobs,          \* argument vectors that callers ask to run
  NoJob,         \* the slot has no argv
  Pids,          \* the process ids of the system, 0 not among them
  MaxFailures    \* bound: how often uv_spawn fails

ASSUME ProcessPoolAssumption ==
  /\ MaxProcesses \in Nat \ {0}
  /\ NoJob \notin Jobs
  /\ Pids \subseteq Nat \ {0}
  /\ MaxFailures \in Nat

Slots == 0..(MaxProcesses - 1)

VARIABLES
  num,       \* pool.num_processes
  pid,       \* processes[s].handle.pid
  argv,      \* processes[s].argv
  handle,    \* "idle", "active" once spawned, "closing" after its exit
  table,     \* the system's processes: "free", "child", "zombie", "stranger"
  failures,  \* how often uv_spawn has failed
  lost,      \* argument vectors overwritten before they were freed
  slain      \* a process that was never our child has been killed

vars == <<num, pid, argv, handle, table, failures, lost, slain>>

TypeOK ==
  /\ num \in Int
  /\ pid \in [Slots -> Pids \cup {0}]
  /\ argv \in [Slots -> Jobs \cup {NoJob}]
  /\ handle \in [Slots -> {"idle", "active", "closing"}]
  /\ table \in [Pids -> {"free", "child", "zombie", "stranger"}]
  /\ failures \in Nat
  /\ lost \in Nat
  /\ slain \in BOOLEAN

Init ==
  /\ num = 0
  /\ pid = [s \in Slots |-> 0]
  /\ argv = [s \in Slots |-> NoJob]
  /\ handle = [s \in Slots |-> "idle"]
  /\ table = [p \in Pids |-> "free"]
  /\ failures = 0
  /\ lost = 0
  /\ slain = FALSE

-----------------------------------------------------------------------------
(* OrchestratorSpawn.                                                       *)

(* Mutant: the pool is used as a stack.                                     *)
TopOfStack(s) == s = num

FirstFree(s) == pid[s] = 0 /\ \A t \in 0..(s - 1) : pid[t] /= 0

(* The slot's argv is set without a look at the one a failed spawn left.    *)
SetArgv(s, job) ==
  /\ argv' = [argv EXCEPT ![s] = job]
  /\ lost' = IF argv[s] = NoJob THEN lost ELSE lost + 1

SpawnOk(s, job, p) ==
  /\ num < MaxProcesses
  /\ FirstFree(s)
  /\ table[p] = "free"
  /\ SetArgv(s, job)
  /\ table' = [table EXCEPT ![p] = "child"]
  /\ pid' = [pid EXCEPT ![s] = p]
  /\ handle' = [handle EXCEPT ![s] = "active"]
  /\ num' = num + 1
  /\ UNCHANGED <<failures, slain>>

(* uv_spawn's error is returned: argv stays, the pid is still 0.            *)
SpawnFails(s, job) ==
  /\ num < MaxProcesses
  /\ failures < MaxFailures
  /\ FirstFree(s)
  /\ SetArgv(s, job)
  /\ failures' = failures + 1
  /\ UNCHANGED <<num, pid, handle, table, slain>>

(* "process pool is full" and "no free slot": -1, and nothing has changed.  *)
SpawnRefused ==
  /\ num >= MaxProcesses \/ \A s \in Slots : pid[s] /= 0
  /\ UNCHANGED vars

-----------------------------------------------------------------------------
(* Mutants: the count is not lowered; argv is freed too early.              *)
OnProcessExitUncounted(s) ==
  /\ handle[s] = "active" /\ table[pid[s]] = "zombie"
  /\ table' = [table EXCEPT ![pid[s]] = "free"]
  /\ handle' = [handle EXCEPT ![s] = "closing"]
  /\ UNCHANGED <<num, pid, argv, failures, lost, slain>>

OnProcessExitFreesArgv(s) ==
  /\ handle[s] = "active" /\ table[pid[s]] = "zombie"
  /\ table' = [table EXCEPT ![pid[s]] = "free"]
  /\ handle' = [handle EXCEPT ![s] = "closing"]
  /\ argv' = [argv EXCEPT ![s] = NoJob]
  /\ num' = num - 1
  /\ UNCHANGED <<pid, failures, lost, slain>>

(* libuv reaps a child, which frees its pid, and calls OnProcessExit.       *)
OnProcessExit(s) ==
  /\ handle[s] = "active"
  /\ table[pid[s]] = "zombie"
  /\ table' = [table EXCEPT ![pid[s]] = "free"]
  /\ handle' = [handle EXCEPT ![s] = "closing"]
  /\ num' = num - 1
  /\ UNCHANGED <<pid, argv, failures, lost, slain>>

(* Mutants: the pid is left in the slot; it is reset to the wrong value.    *)
OnProcessClosedKeepsPid(s) ==
  /\ handle[s] = "closing"
  /\ handle' = [handle EXCEPT ![s] = "idle"]
  /\ argv' = [argv EXCEPT ![s] = NoJob]
  /\ UNCHANGED <<num, pid, table, failures, lost, slain>>

OnProcessClosedInvalidPid(s) ==
  /\ handle[s] = "closing"
  /\ handle' = [handle EXCEPT ![s] = "idle"]
  /\ pid' = [pid EXCEPT ![s] = -1]
  /\ argv' = [argv EXCEPT ![s] = NoJob]
  /\ UNCHANGED <<num, table, failures, lost, slain>>

(* OnProcessClosed and ProcessFree: argv is freed, all the rest is zeroed.  *)
OnProcessClosed(s) ==
  /\ handle[s] = "closing"
  /\ handle' = [handle EXCEPT ![s] = "idle"]
  /\ pid' = [pid EXCEPT ![s] = 0]
  /\ argv' = [argv EXCEPT ![s] = NoJob]
  /\ UNCHANGED <<num, table, failures, lost, slain>>

(* OrchestratorKillAllProcesses sends SIGKILL to the pid of every slot that *)
(* has one, whether its process has been reaped or not.                     *)
Signalled == {pid[s] : s \in Slots} \ {0}

OrchestratorKillAllProcesses ==
  /\ table' = [p \in Pids |->
       IF p \in Signalled /\ table[p] = "child" THEN "zombie"
       ELSE IF p \in Signalled /\ table[p] = "stranger" THEN "free" ELSE table[p]]
  /\ slain' = (slain \/ \E p \in Signalled : table[p] = "stranger")
  /\ UNCHANGED <<num, pid, argv, handle, failures, lost>>

-----------------------------------------------------------------------------
(* The system: children end, other processes come and go.                   *)
Become(p, from, to) ==
  /\ table[p] = from
  /\ table' = [table EXCEPT ![p] = to]
  /\ UNCHANGED <<num, pid, argv, handle, failures, lost, slain>>

ChildEnds(p)      == Become(p, "child", "zombie")
StrangerStarts(p) == Become(p, "free", "stranger")
StrangerEnds(p)   == Become(p, "stranger", "free")

OrchestratorSpawn ==
  \/ \E s \in Slots, job \in Jobs :
       SpawnFails(s, job) \/ \E p \in Pids : SpawnOk(s, job, p)
  \/ SpawnRefused

Next ==
  \/ OrchestratorSpawn
  \/ \E s \in Slots : OnProcessExit(s) \/ OnProcessClosed(s)
  \/ OrchestratorKillAllProcesses
  \/ \E p \in Pids : ChildEnds(p) \/ StrangerStarts(p) \/ StrangerEnds(p)

(* The loop reports every exit and closes every handle it was asked to.     *)
Spec ==
  /\ Init
  /\ [][Next]_vars
  /\ \A s \in Slots : WF_vars(OnProcessExit(s)) /\ WF_vars(OnProcessClosed(s))

-----------------------------------------------------------------------------
Active == {s \in Slots : handle[s] = "active"}

(* num_processes, kept by ++ and -- in callbacks far apart, is the number   *)
(* of active handles, so it never leaves 0..VESPA_MAX_PROCESSES and the     *)
(* pool is called full only when every slot really runs a child.            *)
CountIsRight == num = Cardinality(Active) /\ num \in 0..MaxProcesses

(* Every child, living or not yet reaped, belongs to exactly one active     *)
(* slot, and every active slot to such a child: no slot is given away, and  *)
(* no child forgotten, while the child is there.                            *)
EveryChildHasItsSlot ==
  /\ \A p \in Pids : table[p] \in {"child", "zombie"} => \E s \in Active : pid[s] = p
  /\ \A s \in Active : table[pid[s]] \in {"child", "zombie"}
  /\ \A s, t \in Active : pid[s] = pid[t] => s = t

(* A slot loses its argv only in OnProcessClosed, and only slots whose      *)
(* spawn failed have theirs overwritten.                                    *)
ArgvKept ==
  /\ [][\A s \in Slots : handle[s] /= "idle" =>
          argv'[s] = argv[s] \/ (handle[s] = "closing" /\ pid'[s] = 0)]_vars
  /\ [](lost <= failures)

(* KillAll can reach a process that is not a child only through a slot that *)
(* keeps the pid of a reaped child because its handle is still closing.     *)
StrangerDiesOnlyByStalePid ==
  [][slain' /= slain => \E s \in Slots :
       handle[s] = "closing" /\ table[pid[s]] = "stranger"]_vars

(* "no free slot" although the pool is not full does not last, and a slot   *)
(* whose child has ended, by SIGKILL of OrchestratorKillAllProcesses or by  *)
(* itself, becomes free again.                                              *)
SlotsComeBack ==
  /\ num < MaxProcesses ~> \E s \in Slots : pid[s] = 0
  /\ \A s \in Slots : handle[s] = "active" /\ table[pid[s]] = "zombie" ~> pid[s] = 0
=============================================================================
