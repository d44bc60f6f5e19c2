------------------------- MODULE OrchestratorProofs -------------------------
(***************************************************************************)
(* Proofs about ProcessPool and about Orchestrator for every number of     *)
(* slots, pids, jobs and events: the counter num_processes is right and no *)
(* child loses its slot; what is proved of the pool on its own holds in    *)
(* the orchestrator that uses it; and who is left behind when the process  *)
(* ends.                                                                   *)
(***************************************************************************)
EXTENDS Orchestrator, FiniteSetTheorems, TLAPS

(* A handle holds a pid exactly from its spawn to its OnProcessClosed.      *)
PidWhileInUse == \A s \in Slots : handle[s] = "idle" <=> pid[s] = 0

Counted == num = Cardinality(Active)

(* The inductive invariant.  PidWhileInUse is what lets OrchestratorSpawn   *)
(* conclude from a zero pid that the slot is not active.                    *)
IInv == TypeOK /\ PidWhileInUse /\ EveryChildHasItsSlot /\ Counted

-----------------------------------------------------------------------------
LEMMA SlotsFinite == IsFiniteSet(Slots) /\ Cardinality(Slots) = MaxProcesses
  BY FS_Interval, ProcessPoolAssumption DEF Slots

LEMMA ActiveFinite ==
  IsFiniteSet(Active) /\ Cardinality(Active) \in 0..MaxProcesses
<1>1. Active \subseteq Slots
  BY DEF Active
<1>2. IsFiniteSet(Active) /\ Cardinality(Active) <= MaxProcesses
  BY <1>1, FS_Subset, SlotsFinite
<1>. QED
  BY <1>2, FS_CardinalityType, ProcessPoolAssumption

LEMMA InitHolds == Init => IInv
<1>. SUFFICES ASSUME Init PROVE IInv
  OBVIOUS
<1>1. Active = {}
  BY DEF Init, Active
<1>2. TypeOK
  <2>1. num \in Int /\ failures \in Nat /\ lost \in Nat
    BY DEF Init
  <2>2. slain \in BOOLEAN
    BY DEF Init
  <2>3. /\ pid \in [Slots -> Pids \cup {0}]
        /\ argv \in [Slots -> Jobs \cup {NoJob}]
        /\ handle \in [Slots -> {"idle", "active", "closing"}]
        /\ table \in [Pids -> {"free", "child", "zombie", "stranger"}]
    BY DEF Init
  <2>. QED
    BY <2>1, <2>2, <2>3 DEF TypeOK
<1>3. PidWhileInUse /\ EveryChildHasItsSlot
  BY <1>1 DEF Init, PidWhileInUse, EveryChildHasItsSlot
<1>4. Counted
  BY <1>1, FS_EmptySet DEF Init, Counted
<1>. QED
  BY <1>2, <1>3, <1>4 DEF IInv

-----------------------------------------------------------------------------
(* One lemma for each step that changes who is active.                      *)
LEMMA SpawnOkKeeps ==
  ASSUME IInv, NEW s \in Slots, NEW job \in Jobs, NEW p \in Pids, SpawnOk(s, job, p)
  PROVE  IInv'
<1>. USE DEF IInv, SpawnOk, SetArgv, FirstFree
<1>1. p # 0 /\ handle[s] = "idle" /\ pid[s] = 0
  BY ProcessPoolAssumption DEF PidWhileInUse
<1>2. TypeOK'
  BY ProcessPoolAssumption DEF TypeOK
<1>3. PidWhileInUse'
  BY <1>1 DEF PidWhileInUse, TypeOK
<1>4. Active' = Active \cup {s} /\ s \notin Active
  BY <1>1 DEF Active, TypeOK
<1>5. \A t \in Active : pid[t] # p /\ pid'[t] = pid[t] /\ table'[pid[t]] = table[pid[t]]
  BY <1>4 DEF EveryChildHasItsSlot, Active, TypeOK
<1>6. pid'[s] = p /\ table'[p] = "child"
  BY DEF TypeOK
<1>7. EveryChildHasItsSlot'
  <2>1. ASSUME NEW q \in Pids, table'[q] \in {"child", "zombie"}
        PROVE  \E t \in Active' : pid'[t] = q
    <3>1. CASE q = p
      BY <3>1, <1>4, <1>6
    <3>2. CASE q # p
      <4>1. table[q] \in {"child", "zombie"}
        BY <3>2, <2>1 DEF TypeOK
      <4>2. PICK t \in Active : pid[t] = q
        BY <4>1 DEF EveryChildHasItsSlot
      <4>. QED
        BY <4>2, <1>4, <1>5
    <3>. QED
      BY <3>1, <3>2
  <2>2. ASSUME NEW t \in Active'
        PROVE  table'[pid'[t]] \in {"child", "zombie"}
    BY <1>4, <1>5, <1>6 DEF EveryChildHasItsSlot
  <2>3. ASSUME NEW t \in Active', NEW u \in Active', pid'[t] = pid'[u]
        PROVE  t = u
    BY <2>3, <1>4, <1>5, <1>6 DEF EveryChildHasItsSlot
  <2>. QED
    BY <2>1, <2>2, <2>3 DEF EveryChildHasItsSlot
<1>8. Counted'
  BY <1>4, ActiveFinite, FS_AddElement DEF Counted
<1>. QED
  BY <1>2, <1>3, <1>7, <1>8

LEMMA ExitKeeps ==
  ASSUME IInv, NEW s \in Slots, OnProcessExit(s)
  PROVE  IInv'
<1>. USE DEF IInv, OnProcessExit
<1>1. pid[s] \in Pids
  BY DEF PidWhileInUse, TypeOK
<1>2. TypeOK'
  <2>1. table' \in [Pids -> {"free", "child", "zombie", "stranger"}]
    BY <1>1 DEF TypeOK
  <2>2. handle' \in [Slots -> {"idle", "active", "closing"}] /\ num' \in Int
    BY DEF TypeOK
  <2>. QED
    BY <2>1, <2>2 DEF TypeOK
<1>3. PidWhileInUse'
  BY DEF PidWhileInUse, TypeOK
<1>4. s \in Active /\ Active' = Active \ {s}
  BY DEF Active, TypeOK
<1>5. \A t \in Active \ {s} : pid[t] # pid[s] /\ table'[pid[t]] = table[pid[t]]
  BY <1>4, <1>1 DEF EveryChildHasItsSlot, TypeOK
<1>6. EveryChildHasItsSlot'
  <2>1. ASSUME NEW q \in Pids, table'[q] \in {"child", "zombie"}
        PROVE  \E t \in Active' : pid'[t] = q
    <3>1. q # pid[s] /\ table[q] \in {"child", "zombie"}
      BY <2>1, <1>1 DEF TypeOK
    <3>2. PICK t \in Active : pid[t] = q
      BY <3>1 DEF EveryChildHasItsSlot
    <3>. QED
      BY <3>1, <3>2, <1>4
  <2>2. \A t \in Active' : table'[pid'[t]] \in {"child", "zombie"}
    BY <1>4, <1>5 DEF EveryChildHasItsSlot
  <2>3. \A t, u \in Active' : pid'[t] = pid'[u] => t = u
    BY <1>4 DEF EveryChildHasItsSlot
  <2>. QED
    BY <2>1, <2>2, <2>3 DEF EveryChildHasItsSlot
<1>7. Counted'
  BY <1>4, ActiveFinite, FS_RemoveElement DEF Counted
<1>. QED
  BY <1>2, <1>3, <1>6, <1>7

(* The others leave the active handles and their pids alone.                *)
LEMMA SameActive ==
  ASSUME IInv, TypeOK', PidWhileInUse', num' = num, Active' = Active,
         \A s \in Active : pid'[s] = pid[s],
         \A p \in Pids : table'[p] \in {"child", "zombie"} <=> table[p] \in {"child", "zombie"}
  PROVE  IInv'
<1>1. \A s \in Active : pid[s] \in Pids
  BY DEF IInv, PidWhileInUse, TypeOK, Active
<1>2. EveryChildHasItsSlot'
  BY <1>1 DEF IInv, EveryChildHasItsSlot
<1>3. Counted'
  BY DEF IInv, Counted
<1>. QED
  BY <1>2, <1>3 DEF IInv

LEMMA SpawnFailsKeeps ==
  ASSUME IInv, NEW s \in Slots, NEW job \in Jobs, SpawnFails(s, job)
  PROVE  IInv'
<1>. USE DEF IInv, SpawnFails, SetArgv
<1>1. TypeOK'
  BY DEF TypeOK
<1>2. PidWhileInUse' /\ Active' = Active
  BY DEF PidWhileInUse, Active
<1>. QED
  BY <1>1, <1>2, SameActive

LEMMA ClosedKeeps ==
  ASSUME IInv, NEW s \in Slots, OnProcessClosed(s)
  PROVE  IInv'
<1>. USE DEF IInv, OnProcessClosed
<1>1. TypeOK'
  BY DEF TypeOK
<1>2. PidWhileInUse'
  BY DEF PidWhileInUse, TypeOK
<1>3. Active' = Active /\ s \notin Active
  BY DEF Active, TypeOK
<1>4. \A t \in Active : pid'[t] = pid[t]
  BY <1>3 DEF TypeOK, Active
<1>. QED
  BY <1>1, <1>2, <1>3, <1>4, SameActive

LEMMA KillAllKeeps ==
  ASSUME IInv, OrchestratorKillAllProcesses
  PROVE  IInv'
<1>. USE DEF IInv, OrchestratorKillAllProcesses
<1>1. TypeOK'
  BY DEF TypeOK
<1>2. PidWhileInUse' /\ Active' = Active
  BY DEF PidWhileInUse, Active
<1>3. \A p \in Pids : table'[p] \in {"child", "zombie"} <=> table[p] \in {"child", "zombie"}
  BY DEF TypeOK
<1>. QED
  BY <1>1, <1>2, <1>3, SameActive

LEMMA SystemKeeps ==
  ASSUME IInv, NEW p \in Pids, ChildEnds(p) \/ StrangerStarts(p) \/ StrangerEnds(p)
  PROVE  IInv'
<1>. USE DEF IInv, ChildEnds, StrangerStarts, StrangerEnds, Become
<1>1. TypeOK'
  BY DEF TypeOK
<1>2. PidWhileInUse' /\ Active' = Active
  BY DEF PidWhileInUse, Active
<1>3. \A q \in Pids : table'[q] \in {"child", "zombie"} <=> table[q] \in {"child", "zombie"}
  BY DEF TypeOK
<1>. QED
  BY <1>1, <1>2, <1>3, SameActive

LEMMA NextKeeps == IInv /\ [Next]_vars => IInv'
<1>. SUFFICES ASSUME IInv, [Next]_vars PROVE IInv'
  OBVIOUS
<1>1. ASSUME UNCHANGED vars PROVE IInv'
  BY <1>1 DEF vars, IInv, TypeOK, PidWhileInUse, EveryChildHasItsSlot, Counted, Active
<1>2. ASSUME OrchestratorSpawn PROVE IInv'
  BY <1>1, <1>2, SpawnOkKeeps, SpawnFailsKeeps DEF OrchestratorSpawn, SpawnRefused
<1>3. ASSUME NEW s \in Slots, OnProcessExit(s) \/ OnProcessClosed(s) PROVE IInv'
  BY <1>3, ExitKeeps, ClosedKeeps
<1>4. ASSUME OrchestratorKillAllProcesses PROVE IInv'
  BY <1>4, KillAllKeeps
<1>5. ASSUME NEW p \in Pids, ChildEnds(p) \/ StrangerStarts(p) \/ StrangerEnds(p) PROVE IInv'
  BY <1>5, SystemKeeps
<1>. QED
  BY <1>1, <1>2, <1>3, <1>4, <1>5 DEF Next

LEMMA InvariantHolds == Spec => []IInv
  BY InitHolds, NextKeeps, PTL DEF Spec

-----------------------------------------------------------------------------
(* Every variable of the pool keeps its type.                               *)
THEOREM TypeCorrect == Spec => []TypeOK
<1>1. IInv => TypeOK
  BY DEF IInv
<1>. QED
  BY <1>1, InvariantHolds, PTL

(* num_processes is the number of running children, whatever the order of   *)
(* exits, closes, failed spawns and kills: it is never negative and never   *)
(* above VESPA_MAX_PROCESSES.                                               *)
THEOREM CountCorrect == Spec => []CountIsRight
<1>1. IInv => CountIsRight
  BY ActiveFinite DEF IInv, Counted, CountIsRight
<1>. QED
  BY <1>1, InvariantHolds, PTL

(* OrchestratorSpawn never gives away the slot of a child that is there, and *)
(* no child is ever without a slot.                                         *)
THEOREM ChildrenKept == Spec => []EveryChildHasItsSlot
<1>1. IInv => EveryChildHasItsSlot
  BY DEF IInv
<1>. QED
  BY <1>1, InvariantHolds, PTL

(* Only KillAll kills, and among the pids it signals only that of a closing *)
(* slot can be a stranger's.                                                *)
LEMMA KilledByStalePid ==
  IInv /\ [Next]_vars =>
    [slain' # slain => \E s \in Slots :
       handle[s] = "closing" /\ table[pid[s]] = "stranger"]_vars
<1>1. ASSUME IInv, [Next]_vars, slain' # slain
      PROVE  \E s \in Slots : handle[s] = "closing" /\ table[pid[s]] = "stranger"
  <2>1. OrchestratorKillAllProcesses
    BY <1>1 DEF Next, vars, OrchestratorSpawn, SpawnOk, SpawnFails, SpawnRefused,
         OnProcessExit, OnProcessClosed, ChildEnds, StrangerStarts, StrangerEnds, Become
  <2>2. PICK p \in Signalled : table[p] = "stranger"
    BY <1>1, <2>1 DEF OrchestratorKillAllProcesses, IInv, TypeOK
  <2>3. PICK s \in Slots : pid[s] = p /\ pid[s] # 0
    BY <2>2 DEF Signalled
  <2>4. handle[s] # "active"
    BY <1>1, <2>2, <2>3 DEF IInv, EveryChildHasItsSlot, Active
  <2>5. handle[s] # "idle"
    BY <1>1, <2>3 DEF IInv, PidWhileInUse
  <2>. QED
    BY <1>1, <2>2, <2>3, <2>4, <2>5 DEF IInv, TypeOK
<1>. QED
  BY <1>1

(* A process that is not a child is killed only through a slot whose handle *)
(* is still closing: an active slot always holds the pid of a child.        *)
THEOREM StrangersSafe == Spec => StrangerDiesOnlyByStalePid
  BY KilledByStalePid, InvariantHolds, PTL DEF Spec, StrangerDiesOnlyByStalePid

-----------------------------------------------------------------------------
(* The argument vectors of failed spawns that still lie in their slots.     *)
Abandoned == {s \in Slots : handle[s] = "idle" /\ argv[s] # NoJob}

LostInv == failures \in Nat /\ lost \in Nat /\ lost + Cardinality(Abandoned) <= failures

LEMMA AbandonedFinite == IsFiniteSet(Abandoned) /\ Cardinality(Abandoned) \in Nat
<1>1. Abandoned \subseteq Slots
  BY DEF Abandoned
<1>. QED
  BY <1>1, FS_Subset, SlotsFinite, FS_CardinalityType

(* A failed spawn leaves one more, or overwrites the one that lay there; a  *)
(* successful one takes it over, or overwrites it.                          *)
LEMMA LostSpawn ==
  ASSUME IInv, LostInv, NEW s \in Slots, NEW job \in Jobs,
         SpawnFails(s, job) \/ \E p \in Pids : SpawnOk(s, job, p)
  PROVE  LostInv'
<1>. DEFINE fails == failures' = failures + 1 /\ handle' = handle
            succeeds == failures' = failures /\ handle' = [handle EXCEPT ![s] = "active"]
<1>1. /\ fails \/ succeeds
      /\ argv' = [argv EXCEPT ![s] = job]
      /\ lost' = IF argv[s] = NoJob THEN lost ELSE lost + 1
      /\ pid[s] = 0
  BY DEF SpawnFails, SpawnOk, SetArgv, FirstFree
<1>2. handle[s] = "idle" /\ job # NoJob
  BY <1>1, ProcessPoolAssumption DEF IInv, PidWhileInUse
<1>. HIDE DEF fails, succeeds
<1>7. argv'[s] = job /\ \A t \in Slots \ {s} : argv'[t] = argv[t]
  BY <1>1 DEF IInv, TypeOK
<1>3. fails => Abandoned' = Abandoned \cup {s}
  <2>1. fails => handle' = handle
    BY DEF fails
  <2>. QED
    BY <1>2, <1>7, <2>1 DEF Abandoned
<1>4. succeeds => Abandoned' = Abandoned \ {s}
  <2>1. succeeds => handle'[s] = "active" /\ \A t \in Slots \ {s} : handle'[t] = handle[t]
    BY DEF succeeds, IInv, TypeOK
  <2>. QED
    BY <1>7, <2>1 DEF Abandoned
<1>5. s \in Abandoned <=> argv[s] # NoJob
  BY <1>2 DEF Abandoned
<1>6. CASE argv[s] = NoJob
  <2>1. lost' = lost /\ s \notin Abandoned
    BY <1>1, <1>5, <1>6
  <2>2. Cardinality(Abandoned \cup {s}) = Cardinality(Abandoned) + 1
    BY <2>1, AbandonedFinite, FS_AddElement
  <2>3. Abandoned \ {s} = Abandoned
    BY <2>1
  <2>. QED
    BY <1>1, <1>3, <1>4, <2>1, <2>2, <2>3, AbandonedFinite DEF LostInv, fails, succeeds
<1>8. CASE argv[s] # NoJob
  <2>1. lost' = lost + 1 /\ s \in Abandoned
    BY <1>1, <1>5, <1>8
  <2>2. Cardinality(Abandoned \ {s}) = Cardinality(Abandoned) - 1
    BY <2>1, AbandonedFinite, FS_RemoveElement
  <2>3. Abandoned \cup {s} = Abandoned
    BY <2>1
  <2>. QED
    BY <1>1, <1>3, <1>4, <2>1, <2>2, <2>3, AbandonedFinite DEF LostInv, fails, succeeds
<1>. QED
  BY <1>6, <1>8

LEMMA LostKept == IInv /\ LostInv /\ [Next]_vars => LostInv'
<1>. SUFFICES ASSUME IInv, LostInv, [Next]_vars PROVE LostInv'
  OBVIOUS
<1>1. ASSUME UNCHANGED <<handle, argv, failures, lost>> PROVE LostInv'
  BY <1>1 DEF LostInv, Abandoned
<1>2. ASSUME NEW s \in Slots, OnProcessExit(s) \/ OnProcessClosed(s) PROVE LostInv'
  <2>1. Abandoned' = Abandoned /\ UNCHANGED <<failures, lost>>
    BY <1>2 DEF OnProcessExit, OnProcessClosed, Abandoned, IInv, TypeOK
  <2>. QED
    BY <2>1 DEF LostInv
<1>. QED
  BY <1>1, <1>2, LostSpawn DEF Next, vars, OrchestratorSpawn, SpawnRefused, Become,
     OrchestratorKillAllProcesses, ChildEnds, StrangerStarts, StrangerEnds

LEMMA LostInit == Init => LostInv
<1>1. Init => Abandoned = {}
  BY DEF Init, Abandoned
<1>. QED
  BY <1>1, FS_EmptySet DEF Init, LostInv

(* Only OnProcessClosed takes the vector of a slot in use.                  *)
LEMMA ArgvStep ==
  IInv /\ [Next]_vars =>
    [\A s \in Slots : handle[s] /= "idle" =>
       argv'[s] = argv[s] \/ (handle[s] = "closing" /\ pid'[s] = 0)]_vars
<1>1. ASSUME IInv, Next, NEW s \in Slots, handle[s] # "idle"
      PROVE  argv'[s] = argv[s] \/ (handle[s] = "closing" /\ pid'[s] = 0)
  <2>1. ASSUME NEW t \in Slots, NEW job \in Jobs,
               SpawnFails(t, job) \/ \E p \in Pids : SpawnOk(t, job, p)
        PROVE  argv'[s] = argv[s]
    <3>1. handle[t] = "idle" /\ argv' = [argv EXCEPT ![t] = job]
      BY <1>1, <2>1 DEF SpawnFails, SpawnOk, SetArgv, FirstFree, IInv, PidWhileInUse
    <3>. QED
      BY <1>1, <3>1 DEF IInv, TypeOK
  <2>2. ASSUME NEW t \in Slots, OnProcessClosed(t)
        PROVE  argv'[s] = argv[s] \/ (handle[s] = "closing" /\ pid'[s] = 0)
    BY <1>1, <2>2 DEF OnProcessClosed, IInv, TypeOK
  <2>. QED
    BY <1>1, <2>1, <2>2 DEF Next, OrchestratorSpawn, SpawnRefused, vars, OnProcessExit,
       OrchestratorKillAllProcesses, ChildEnds, StrangerStarts, StrangerEnds, Become
<1>. QED
  BY <1>1

(* OnProcessClosed alone takes the argv of a running or closing slot, and   *)
(* no more argument vectors are overwritten than spawns have failed.        *)
THEOREM ArgumentsKept == Spec => ArgvKept
<1>1. LostInv => lost <= failures
  BY AbandonedFinite DEF LostInv
<1>. QED
  BY <1>1, LostInit, ArgvStep, LostKept, InvariantHolds, PTL DEF Spec, ArgvKept

-----------------------------------------------------------------------------
(* Every step of the orchestrator is one of the pool or leaves it alone.    *)
LEMMA StepsOfThePool == [OrchestratorNext]_ovars => [Next]_vars
<1>. SUFFICES ASSUME [OrchestratorNext]_ovars PROVE [Next]_vars
  OBVIOUS
<1>1. CASE UNCHANGED ovars
  BY <1>1 DEF ovars
<1>2. CASE MainStep
  BY <1>2 DEF MainStep, RegistryRoundtrip, CreateSurface, Commit, RoundtripDone,
       CreateVulkan, RunReturns, LayerConfigure, LayerClosed
<1>3. CASE OrchestratorFree
  BY <1>3 DEF OrchestratorFree
<1>4. CASE Calls
  BY <1>4 DEF Calls, Next
<1>5. ASSUME NEW s \in Slots, Reap(s) PROVE Next
  BY <1>5 DEF Reap, Next
<1>6. CASE Elsewhere
  BY <1>6 DEF Elsewhere, Next
<1>7. ASSUME NEW e, CompositorSends(e) PROVE UNCHANGED vars
  BY <1>7 DEF CompositorSends
<1>8. CASE CompositorEnds
  BY <1>8 DEF CompositorEnds
<1>. QED
  BY <1>1, <1>2, <1>3, <1>4, <1>5, <1>6, <1>7, <1>8 DEF OrchestratorNext

LEMMA PoolInvariantHolds == OrchestratorSpec => []IInv
<1>1. OrchestratorStart => IInv
  BY InitHolds DEF OrchestratorStart
<1>2. IInv /\ [OrchestratorNext]_ovars => IInv'
  BY NextKeeps, StepsOfThePool
<1>. QED
  BY <1>1, <1>2, PTL DEF OrchestratorSpec

(* The orchestrator keeps the pool's promises: its counter is right and no  *)
(* child loses its slot, whatever the compositor does meanwhile.            *)
THEOREM PoolKept == OrchestratorSpec => [](CountIsRight /\ EveryChildHasItsSlot)
<1>1. IInv => CountIsRight /\ EveryChildHasItsSlot
  BY ActiveFinite DEF IInv, Counted, CountIsRight
<1>. QED
  BY <1>1, PoolInvariantHolds, PTL

(* So the pool's signals and argument vectors are safe under the            *)
(* orchestrator too, however its loop, its frees and its exits fall.        *)
THEOREM PoolStepsKept == OrchestratorSpec => StrangerDiesOnlyByStalePid /\ ArgvKept
<1>1. OrchestratorStart => Init
  BY DEF OrchestratorStart
<1>2. LostInv => lost <= failures
  BY AbandonedFinite DEF LostInv
<1>. QED
  BY <1>1, <1>2, LostInit, ArgvStep, KilledByStalePid, LostKept, StepsOfThePool,
     PoolInvariantHolds, PTL DEF OrchestratorSpec, ArgvKept, StrangerDiesOnlyByStalePid

-----------------------------------------------------------------------------
MainTypeOK ==
  /\ pc \in {"new", "bound", "ready", "roundtrip", "vulkan", "loop", "dispatch", "ended"}
  /\ ending \in {"none", "segv", "exit0", "exit1", "freed", "busy"}
  /\ offer \in [Globals -> {"none", "old", "good"}]
  /\ display \in {"none", "up", "dead"}
  /\ wire \in Seq({"configure", "closed"})
  /\ events \in 0..MaxEvents

(* No child is known outside OrchestratorRun and its preparation, and the   *)
(* process ends once.                                                       *)
OInv ==
  /\ MainTypeOK
  /\ pc \in {"new", "bound", "dispatch"} => ~Working
  /\ ending /= "none" => pc = "ended"

LEMMA OInvStarts == OrchestratorStart => OInv
  BY OrchestratorAssumption
  DEF OrchestratorStart, Init, OInv, MainTypeOK, Working, Globals

LEMMA OInvKept == OInv /\ [OrchestratorNext]_ovars => OInv'
<1>. SUFFICES ASSUME OInv, [OrchestratorNext]_ovars PROVE OInv'
  OBVIOUS
<1>. USE DEF OInv, MainTypeOK
<1>1. CASE UNCHANGED ovars
  BY <1>1 DEF ovars, main, way, vars, Working
<1>2. ASSUME UNCHANGED vars PROVE Working' <=> Working
  BY <1>2 DEF vars, Working
<1>3. CASE RegistryRoundtrip
  BY <1>3, <1>2 DEF RegistryRoundtrip, Goto, End
<1>4. CASE CreateSurface
  BY <1>4, <1>2 DEF CreateSurface, Goto, End
<1>5. CASE Commit \/ RoundtripDone
  BY <1>5, <1>2 DEF Commit, RoundtripDone, Goto, way
<1>6. CASE CreateVulkan
  BY <1>6, <1>2 DEF CreateVulkan, Goto, End, way
<1>7. CASE RunReturns
  BY <1>7, <1>2 DEF RunReturns, Goto, way
<1>8. CASE LayerConfigure
  BY <1>8, <1>2 DEF LayerConfigure, Serves, main
<1>9. CASE LayerClosed
  BY <1>9, <1>2 DEF LayerClosed, End, way
<1>10. CASE OrchestratorFree
  BY <1>10, <1>2 DEF OrchestratorFree, End, way
<1>11. CASE Calls
  BY <1>11 DEF Calls, main, way
<1>12. ASSUME NEW s \in Slots, Reap(s) PROVE OInv'
  BY <1>12 DEF Reap, main, way
<1>13. CASE Elsewhere
  <2>1. UNCHANGED handle
    BY <1>13 DEF Elsewhere, ChildEnds, StrangerStarts, StrangerEnds, Become
  <2>. QED
    BY <1>13, <2>1 DEF Elsewhere, main, way, Working
<1>14. ASSUME NEW e \in {"configure", "closed"}, CompositorSends(e) PROVE OInv'
  <2>1. wire' \in Seq({"configure", "closed"})
    BY <1>14 DEF CompositorSends
  <2>2. events' \in 0..MaxEvents
    BY <1>14, OrchestratorAssumption DEF CompositorSends
  <2>. QED
    BY <1>14, <1>2, <2>1, <2>2 DEF CompositorSends, main
<1>15. CASE CompositorEnds
  BY <1>15, <1>2 DEF CompositorEnds, main
<1>. QED
  BY <1>1, <1>3, <1>4, <1>5, <1>6, <1>7, <1>8, <1>9, <1>10, <1>11, <1>12, <1>13,
     <1>14, <1>15 DEF OrchestratorNext, MainStep

LEMMA OInvHolds == OrchestratorSpec => []OInv
  BY OInvStarts, OInvKept, PTL DEF OrchestratorSpec

(* Every variable of the orchestrator keeps its type.                       *)
THEOREM OrchestratorTypeCorrect == OrchestratorSpec => []OrchestratorTypeOK
<1>1. IInv /\ OInv => OrchestratorTypeOK
  BY DEF IInv, OInv, MainTypeOK, OrchestratorTypeOK
<1>. QED
  BY <1>1, PoolInvariantHolds, OInvHolds, PTL

-----------------------------------------------------------------------------
(* The steps in which the process ends: it ends once, and a step that ends  *)
(* it is one of five.                                                       *)
LEMMA Endings ==
  ASSUME OInv, [OrchestratorNext]_ovars, ending' /= ending
  PROVE  \/ pc \in {"new", "bound"} /\ ending' = "segv"
         \/ pc = "vulkan" /\ ending' = "exit1"
         \/ pc \in {"roundtrip", "dispatch"} /\ ending' = "exit0"
         \/ OrchestratorFree
<1>1. CASE RegistryRoundtrip \/ CreateSurface
  BY <1>1 DEF RegistryRoundtrip, CreateSurface, Goto, End
<1>2. CASE Commit \/ RoundtripDone \/ RunReturns
  BY <1>2 DEF Commit, RoundtripDone, RunReturns, Goto
<1>3. CASE CreateVulkan
  BY <1>3 DEF CreateVulkan, Goto, End
<1>4. CASE LayerConfigure
  BY <1>4 DEF LayerConfigure, main
<1>5. CASE LayerClosed
  BY <1>5 DEF LayerClosed, Serves, End
<1>6. ending' = ending
      \/ MainStep \/ OrchestratorFree
  BY DEF OrchestratorNext, Calls, Reap, Elsewhere, CompositorSends, CompositorEnds,
         ovars, main
<1>. QED
  BY <1>1, <1>2, <1>3, <1>4, <1>5, <1>6 DEF MainStep

(* A child outlives the orchestrator only if it was spawned before          *)
(* OrchestratorRun: no exit, crash or free leaves one behind later.         *)
THEOREM OrphansExplained == OrchestratorSpec => OrphansOnlyOfEarlySpawns
<1>1. ASSUME OInv, [OrchestratorNext]_ovars, ending' /= ending, Working
      PROVE  pc \in {"ready", "roundtrip", "vulkan"}
  <2>1. CASE OrchestratorFree
    BY <1>1, <2>1 DEF OrchestratorFree, OInv
  <2>. QED
    BY <1>1, <2>1, Endings DEF OInv
<1>2. OInv /\ [OrchestratorNext]_ovars =>
        [ending' /= ending /\ Working => pc \in {"ready", "roundtrip", "vulkan"}]_ovars
  BY <1>1
<1>. QED
  BY <1>2, OInvHolds, PTL DEF OrchestratorSpec, OrphansOnlyOfEarlySpawns

(* Nothing at all happens after the end.                                    *)
LEMMA EndIsFinal ==
  ASSUME OInv, [OrchestratorNext]_ovars, pc = "ended"
  PROVE  UNCHANGED ovars
<1>1. ~MainStep
  BY DEF MainStep, RegistryRoundtrip, CreateSurface, Commit, RoundtripDone,
         CreateVulkan, RunReturns, LayerConfigure, LayerClosed, Serves, Goto
<1>2. ~OrchestratorFree /\ ~Calls /\ ~Elsewhere /\ ~CompositorEnds
  BY DEF OrchestratorFree, Calls, Elsewhere, CompositorEnds
<1>3. (\A s \in Slots : ~Reap(s)) /\ \A e \in {"configure", "closed"} : ~CompositorSends(e)
  BY DEF Reap, CompositorSends
<1>. QED
  BY <1>1, <1>2, <1>3 DEF OrchestratorNext

(* After OrchestratorRun, uv_loop_delete meets a handle that is not closed  *)
(* only if some uv_spawn failed.                                            *)
THEOREM LoopCanBeDeleted == OrchestratorSpec => LoopDeletable
<1>1. ASSUME OInv, [OrchestratorNext]_ovars, ending' = "busy", ~UNCHANGED ovars
      PROVE  failures > 0 \/ pc = "ready"
  <2>1. ending' /= ending
    BY <1>1, EndIsFinal DEF OInv
  <2>2. OrchestratorFree
    BY <1>1, <2>1, Endings
  <2>. QED
    BY <1>1, <2>2 DEF OrchestratorFree, End, OInv
<1>2. OInv /\ [OrchestratorNext]_ovars =>
        [ending' = "busy" => failures > 0 \/ pc = "ready"]_ovars
  BY <1>1
<1>. QED
  BY <1>2, OInvHolds, PTL DEF OrchestratorSpec, LoopDeletable
=============================================================================
