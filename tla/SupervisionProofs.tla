------------------------- MODULE SupervisionProofs -------------------------
(***************************************************************************)
(* Proofs about Supervision and the hives of HiveBoot under it, for every  *)
(* number of hives and of removals of the file: which hive clients reach,  *)
(* what an exit code says, whom SupervisorKillHive kills and when          *)
(* SupervisorRunDefault returns.                                           *)
(***************************************************************************)
EXTENDS Supervision, FiniteSetTheorems, TLAPS

-----------------------------------------------------------------------------
(* The hives.  What is bound is bounded by how often the file went away,    *)
(* and one file leads to what was bound last.                               *)
FileInv ==
  /\ IsFiniteSet(bound)
  /\ Cardinality(bound) <= removals + (IF file = NoFile THEN 0 ELSE 1)
  /\ removals = 0 => \A h \in bound : file = h

(* Where a hive that has bound the path may be, and one that has ended.     *)
ServerInv ==
  /\ listening \subseteq bound
  /\ \A h \in Hives :
       /\ code[h] /= "none" => pc[h] = "ended"
       /\ pc[h] = "run" /\ h \in bound => h \in listening
       /\ pc[h] = "free" => h \notin bound
       /\ code[h] = "success" => h \notin bound

HInv == TypeOK /\ FileInv /\ ServerInv

LEMMA HInvStarts == Init => HInv
<1>. SUFFICES ASSUME Init PROVE HInv
  OBVIOUS
<1>1. TypeOK /\ ServerInv
  BY DEF Init, TypeOK, ServerInv
<1>2. FileInv
  BY FS_EmptySet DEF Init, FileInv
<1>. QED
  BY <1>1, <1>2 DEF HInv

LEMMA BindKeeps ==
  ASSUME HInv, NEW h \in Hives, Bind(h)
  PROVE  HInv'
<1>. USE DEF Bind, Goto
<1>1. TypeOK'
  BY DEF HInv, TypeOK
<1>2. ServerInv'
  BY DEF HInv, TypeOK, ServerInv
<1>3. CASE file = NoFile
  <2>1. file' = h /\ bound' = bound \cup {h} /\ removals' = removals
    BY <1>3
  <2>2. file' /= NoFile
    BY <2>1, HiveBootAssumption
  <2>3. IsFiniteSet(bound') /\ Cardinality(bound') <= Cardinality(bound) + 1
    <3>1. IsFiniteSet(bound) /\ Cardinality(bound) \in Nat
      BY FS_CardinalityType DEF HInv, FileInv
    <3>2. /\ IsFiniteSet(bound \cup {h})
          /\ \/ Cardinality(bound \cup {h}) = Cardinality(bound)
             \/ Cardinality(bound \cup {h}) = Cardinality(bound) + 1
      BY <3>1, FS_AddElement
    <3>. QED
      BY <2>1, <3>1, <3>2
  <2>4. Cardinality(bound) \in Nat /\ Cardinality(bound') \in Nat /\ removals \in Nat
    BY <2>3, FS_CardinalityType DEF HInv, FileInv, TypeOK
  <2>5. Cardinality(bound) <= removals
    BY <1>3, <2>4 DEF HInv, FileInv
  <2>6. removals = 0 => bound = {}
    BY <2>4, <2>5, FS_EmptySet DEF HInv, FileInv
  <2>. QED
    BY <1>1, <1>2, <2>1, <2>2, <2>3, <2>4, <2>5, <2>6 DEF HInv, FileInv
<1>4. CASE file /= NoFile
  BY <1>1, <1>2, <1>4 DEF HInv, FileInv
<1>. QED
  BY <1>3, <1>4

LEMMA RemoveKeeps == HInv /\ RemoveFile => HInv'
<1>. SUFFICES ASSUME HInv, RemoveFile PROVE HInv'
  OBVIOUS
<1>. USE DEF RemoveFile
<1>1. TypeOK' /\ ServerInv'
  BY DEF HInv, TypeOK, ServerInv
<1>2. removals \in Nat /\ Cardinality(bound) \in Nat
  BY FS_CardinalityType DEF HInv, FileInv, TypeOK
<1>3. FileInv'
  BY <1>2 DEF HInv, FileInv
<1>. QED
  BY <1>1, <1>3 DEF HInv

(* The others leave the file and what is bound alone.                       *)
LEMMA FileKept ==
  ASSUME HInv, UNCHANGED <<file, removals, bound>>, TypeOK', ServerInv'
  PROVE  HInv'
  BY DEF HInv, FileInv

LEMMA HInvKept == HInv /\ [Next]_vars => HInv'
<1>. SUFFICES ASSUME HInv, [Next]_vars PROVE HInv'
  OBVIOUS
<1>. USE DEF Goto
<1>1. CASE UNCHANGED vars
  BY <1>1 DEF vars, HInv, TypeOK, FileInv, ServerInv
<1>2. ASSUME NEW h \in Hives, Start(h) PROVE HInv'
  <2>1. TypeOK' /\ ServerInv'
    BY <1>2 DEF Start, HInv, TypeOK, ServerInv
  <2>. QED
    BY <1>2, <2>1, FileKept DEF Start
<1>3. ASSUME NEW h \in Hives, Listen(h) PROVE HInv'
  <2>1. TypeOK' /\ ServerInv'
    BY <1>3 DEF Listen, HInv, TypeOK, ServerInv
  <2>. QED
    BY <1>3, <2>1, FileKept DEF Listen
<1>4. ASSUME NEW h \in Hives, RunReturns(h) PROVE HInv'
  <2>1. TypeOK' /\ ServerInv'
    BY <1>4 DEF RunReturns, HInv, TypeOK, ServerInv
  <2>. QED
    BY <1>4, <2>1, FileKept DEF RunReturns
<1>5. ASSUME NEW h \in Hives, Free(h) PROVE HInv'
  <2>1. TypeOK' /\ ServerInv'
    BY <1>5 DEF Free, HInv, TypeOK, ServerInv
  <2>. QED
    BY <1>5, <2>1, FileKept DEF Free
<1>6. ASSUME NEW h \in Hives, ExitServing(h) \/ Kill(h) PROVE HInv'
  <2>1. TypeOK' /\ ServerInv'
    BY <1>6 DEF ExitServing, Kill, End, HInv, TypeOK, ServerInv
  <2>. QED
    BY <1>6, <2>1, FileKept DEF ExitServing, Kill, End
<1>. QED
  BY <1>1, <1>2, <1>3, <1>4, <1>5, <1>6, BindKeeps, RemoveKeeps DEF Next, HiveStep

LEMMA HInvImplies == HInv => OneHivePerPath /\ SuccessMeansNeverServed
<1>. SUFFICES ASSUME HInv PROVE OneHivePerPath /\ SuccessMeansNeverServed
  OBVIOUS
<1>1. Cardinality(bound) <= 1 + removals
  BY FS_CardinalityType DEF HInv, FileInv, TypeOK
<1>2. removals = 0 => \A h \in Hives : Serving(h) => Reachable(h)
  BY DEF HInv, FileInv, ServerInv, Serving, Reachable
<1>. QED
  BY <1>1, <1>2 DEF HInv, ServerInv, OneHivePerPath, SuccessMeansNeverServed

-----------------------------------------------------------------------------
(* Every step of the supervisor is one of a hive or leaves the hives alone: *)
(* to them it is one more user.                                             *)
LEMMA StepsOfTheHives ==
  target \in Hives \cup {NoHive} /\ [SupervisionNext]_svars => [Next]_vars
<1>. SUFFICES ASSUME target \in Hives \cup {NoHive}, [SupervisionNext]_svars
              PROVE  [Next]_vars
  OBVIOUS
<1>1. CASE UNCHANGED svars
  BY <1>1 DEF svars
<1>2. CASE NewSupervisor \/ SpawnFails \/ SupervisorRun \/ SupervisorFree
  BY <1>2 DEF NewSupervisor, SpawnFails, SupervisorRun, SupervisorFree
<1>3. ASSUME NEW h \in Hives, SupervisorSpawnHive(h) PROVE Next
  BY <1>3 DEF SupervisorSpawnHive, Next
<1>4. CASE SupervisorKillHive
  <2>1. CASE KillTarget
    <3>1. target \in Hives /\ Kill(target)
      BY <2>1 DEF KillTarget, Owner
    <3>. QED
      BY <3>1 DEF Next
  <2>2. CASE KillStranger \/ KillNobody \/ KillItself
    BY <2>2 DEF KillStranger, KillNobody, KillItself
  <2>. QED
    BY <1>4, <2>1, <2>2 DEF SupervisorKillHive
<1>5. CASE LoopStep
  BY <1>5 DEF LoopStep, OnChildExit, Closed, Hang, Return
<1>6. CASE HivesStep
  BY <1>6, SupervisionAssumption DEF HivesStep, Next
<1>7. ASSUME NEW h \in Hives, NEW f, NEW t, PidReused(h, f, t) PROVE UNCHANGED vars
  BY <1>7 DEF PidReused
<1>. QED
  BY <1>1, <1>2, <1>3, <1>4, <1>5, <1>6, <1>7 DEF SupervisionNext

-----------------------------------------------------------------------------
(* The handle.  While it is in use its pid is that of a child, which nobody *)
(* has reaped; any other child has been spawned over.                       *)
SInv ==
  /\ SupervisionTypeOK
  /\ handle \in {"active", "broken"} => target \in Hives /\ owner[target] = "ours"
  /\ handle = "closing" => InLoop
  /\ \A h \in Hives : owner[h] = "ours" =>
       handle = "broken" \/ (handle = "active" /\ h = target)

LEMMA SInvStarts == SupervisionInit => SInv
<1>. SUFFICES ASSUME SupervisionInit PROVE SInv
  OBVIOUS
<1>1. TypeOK
  BY HInvStarts DEF SupervisionInit, HInv
<1>. QED
  BY <1>1 DEF SupervisionInit, SInv, SupervisionTypeOK

LEMMA TypeKept == HInv /\ SInv /\ [SupervisionNext]_svars => TypeOK'
  BY StepsOfTheHives, HInvKept DEF HInv, SInv, SupervisionTypeOK

LEMMA SInvKept == SInv /\ TypeOK' /\ [SupervisionNext]_svars => SInv'
<1>. SUFFICES ASSUME SInv, TypeOK', [SupervisionNext]_svars PROVE SInv'
  OBVIOUS
<1>. USE DEF SInv, SupervisionTypeOK
<1>1. CASE UNCHANGED svars
  BY <1>1 DEF svars, supervisor, InLoop
<1>2. CASE NewSupervisor
  BY <1>2 DEF NewSupervisor, HostGoto, HostEnds, InLoop
<1>3. ASSUME NEW h \in Hives, SupervisorSpawnHive(h) PROVE SInv'
  <2>1. /\ host = "idle" /\ UNCHANGED <<host, result, failed, slain>>
        /\ handle' = (IF handle \in {"active", "broken"} THEN "broken" ELSE "active")
        /\ target' = h /\ owner' = [owner EXCEPT ![h] = "ours"]
    BY <1>3 DEF SupervisorSpawnHive, Respawned
  <2>. QED
    BY <2>1 DEF InLoop
<1>4. CASE SpawnFails
  BY <1>4 DEF SpawnFails, Respawned, InLoop
<1>5. CASE SupervisorKillHive
  <2>1. CASE KillStranger
    BY <1>5, <2>1 DEF SupervisorKillHive, KillStranger, Owner, InLoop
  <2>2. CASE KillTarget \/ KillNobody \/ KillItself
    BY <1>5, <2>2 DEF SupervisorKillHive, KillTarget, KillNobody, KillItself,
         HostEnds, Owner, InLoop
  <2>. QED
    BY <1>5, <2>1, <2>2 DEF SupervisorKillHive
<1>6. CASE SupervisorRun
  BY <1>6 DEF SupervisorRun, HostGoto, InLoop
<1>7. CASE OnChildExit
  BY <1>7 DEF OnChildExit, InLoop
<1>8. CASE Closed
  BY <1>8 DEF Closed, InLoop
<1>9. CASE Hang
  BY <1>9 DEF Hang, InLoop
<1>10. CASE Return
  BY <1>10 DEF Return, InLoop
<1>11. CASE SupervisorFree
  BY <1>11 DEF SupervisorFree, HostEnds, InLoop
<1>12. CASE HivesStep
  BY <1>12 DEF HivesStep, supervisor, InLoop
<1>13. ASSUME NEW h \in Hives,
              PidReused(h, "free", "stranger") \/ PidReused(h, "stranger", "free")
       PROVE  SInv'
  BY <1>13 DEF PidReused, InLoop
<1>. QED
  BY <1>1, <1>2, <1>3, <1>4, <1>5, <1>6, <1>7, <1>8, <1>9, <1>10, <1>11, <1>12,
     <1>13 DEF SupervisionNext, LoopStep

LEMMA InvariantHolds == SupervisionSpec => [](HInv /\ SInv)
<1>1. SupervisionInit => HInv /\ SInv
  BY HInvStarts, SInvStarts DEF SupervisionInit
<1>2. HInv /\ SInv /\ [SupervisionNext]_svars => (HInv /\ SInv)'
  BY StepsOfTheHives, HInvKept, TypeKept, SInvKept DEF SInv, SupervisionTypeOK
<1>. QED
  BY <1>1, <1>2, PTL DEF SupervisionSpec

-----------------------------------------------------------------------------
(* Every variable of the hives and of their supervisor keeps its type.      *)
THEOREM SupervisionTypeCorrect == SupervisionSpec => []SupervisionTypeOK
<1>1. SInv => SupervisionTypeOK
  BY DEF SInv
<1>. QED
  BY <1>1, InvariantHolds, PTL

(* As long as nobody removes the socket file, clients reach the hive that   *)
(* serves, and a restart never brings another one to serve, whoever starts, *)
(* kills and restarts how many hives.                                       *)
THEOREM OneHiveReached == SupervisionSpec => []OneHivePerPath
  BY HInvImplies, InvariantHolds, PTL

(* A hive that ends with EXIT_SUCCESS has never served.                     *)
THEOREM SuccessExplained == SupervisionSpec => []SuccessMeansNeverServed
  BY HInvImplies, InvariantHolds, PTL

(* SupervisorKillHive reaches a process that is no hive of ours only before *)
(* the first spawn or after the handle was closed.                          *)
THEOREM StrangersExplained == SupervisionSpec => StrangerDiesOnlyByStaleHandle
<1>1. ASSUME SInv, [SupervisionNext]_svars, slain' /= slain
      PROVE  handle \in {"none", "closed"}
  <2>1. SupervisorKillHive /\ KillStranger
    BY <1>1 DEF SupervisionNext, svars, supervisor, NewSupervisor, SupervisorSpawnHive,
         SpawnFails, SupervisorKillHive, KillTarget, KillNobody, KillItself,
         SupervisorRun, LoopStep, OnChildExit, Closed, Hang, Return, SupervisorFree,
         HivesStep, PidReused
  <2>2. host = "idle" /\ Owner(target) /= "ours"
    BY <2>1 DEF SupervisorKillHive, KillStranger
  <2>3. handle \notin {"active", "broken"}
    BY <1>1, <2>2, SupervisionAssumption DEF SInv, Owner
  <2>4. handle /= "closing"
    BY <1>1, <2>2 DEF SInv, InLoop
  <2>. QED
    BY <1>1, <2>3, <2>4 DEF SInv, SupervisionTypeOK
<1>2. SInv /\ [SupervisionNext]_svars =>
        [slain' /= slain => handle \in {"none", "closed"}]_svars
  BY <1>1
<1>. QED
  BY <1>2, InvariantHolds, PTL DEF SupervisionSpec, StrangerDiesOnlyByStaleHandle

(* SupervisorRunDefault returns only when all the hives of the supervisor   *)
(* have ended and have been reaped, however they were spawned and killed.   *)
THEOREM ReturnExplained == SupervisionSpec => RunReturnsWithoutChildren
<1>1. ASSUME SInv, [SupervisionNext]_svars, host = "default", host' = "idle"
      PROVE  \A h \in Hives : owner[h] /= "ours"
  <2>1. Return
    BY <1>1 DEF SupervisionNext, svars, supervisor, NewSupervisor, SupervisorSpawnHive,
         SpawnFails, SupervisorKillHive, SupervisorRun, HostGoto, HostEnds, LoopStep,
         OnChildExit, Closed, Hang, SupervisorFree, HivesStep, PidReused
  <2>. QED
    BY <1>1, <2>1 DEF Return, SInv
<1>2. SInv /\ [SupervisionNext]_svars =>
        [host = "default" /\ host' = "idle" => \A h \in Hives : owner[h] /= "ours"]_svars
  BY <1>1
<1>. QED
  BY <1>2, InvariantHolds, PTL DEF SupervisionSpec, RunReturnsWithoutChildren
=============================================================================
