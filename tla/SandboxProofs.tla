--------------------------- MODULE SandboxProofs ----------------------------
(***************************************************************************)
(* Proofs about Sandbox, for any number of workers: types, the count of    *)
(* the users of the runtime, and that only a sandbox that was not finished *)
(* can crash the process.                                                  *)
(***************************************************************************)
EXTENDS Sandbox, FiniteSetTheorems, TLAPS

LEMMA StepNumbers ==
  /\ Len(Steps) = 9 /\ Done = 10
  /\ Step("malloc") = 1 /\ Step("runtime") = 2 /\ Step("file") = 3 /\ Step("load") = 4
  /\ Step("instantiate") = 5 /\ Step("env") = 6 /\ Step("init") = 7
  /\ Step("view") = 8 /\ Step("update") = 9
<1>1. Len(Steps) = 9 /\ Done = 10 /\ DOMAIN Steps = 1..9
  BY DEF Steps, Done
<1>2. /\ Steps[1] = "malloc" /\ Steps[2] = "runtime" /\ Steps[3] = "file" /\ Steps[4] = "load"
      /\ Steps[5] = "instantiate" /\ Steps[6] = "env" /\ Steps[7] = "init"
      /\ Steps[8] = "view" /\ Steps[9] = "update"
  BY DEF Steps
<1>3. \A i \in 1..9 : i \in {1, 2, 3, 4, 5, 6, 7, 8, 9}
  OBVIOUS
<1>4. ASSUME NEW i \in 1..9
      PROVE  Step(Steps[i]) = i
  <2>1. \A j \in 1..9 : Steps[j] = Steps[i] => j = i
    BY <1>2, <1>3
  <2>. QED
    BY <1>1, <2>1 DEF Step
<1>. QED
  BY <1>1, <1>2, <1>4

LEMMA FieldNames ==
  /\ {"load", "env", "init"} \subseteq Fields
  /\ \A f \in Fields : Step(f) \in 4..9
<1>1. /\ Steps[4] = "load" /\ Steps[6] = "env" /\ Steps[7] = "init"
      /\ Steps[5] = "instantiate" /\ Steps[8] = "view" /\ Steps[9] = "update"
  BY DEF Steps
<1>2. Fields = {Steps[i] : i \in 4..9}
  BY StepNumbers DEF Fields
<1>3. \A i \in 4..9 : i \in {4, 5, 6, 7, 8, 9}
  OBVIOUS
<1>. QED
  BY <1>1, <1>2, <1>3, StepNumbers

(* What a step's number says of the bytes and the pointers.                 *)
LEMMA OutcomeOf ==
  ASSUME NEW at \in 1..Done, NEW fs \in FieldsAfter(at), NEW b \in BytesAfter(at)
  PROVE  /\ fs \in [Fields -> {"null", "set", "wild"}]
         /\ b \in {"none", "held", "freed", "lost"}
         /\ at = Done => b = "held" /\ \A f \in Fields : fs[f] = "set"
<1>1. CASE at = Step("runtime")
  BY <1>1, StepNumbers DEF FieldsAfter, BytesAfter, LoadWasmFile
<1>2. CASE at # Step("runtime")
  <2>1. fs = [f \in Fields |-> IF at > Step(f) THEN "set" ELSE "null"]
    BY <1>2 DEF FieldsAfter
  <2>2. at = Done => \A f \in Fields : fs[f] = "set"
    BY <2>1, StepNumbers, FieldNames
  <2>3. b \in {"none", "held", "freed", "lost"} /\ (at = Done => b = "held")
    BY StepNumbers DEF BytesAfter, LoadWasmFile
  <2>. QED
    BY <2>1, <2>2, <2>3
<1>. QED
  BY <1>1, <1>2

-----------------------------------------------------------------------------
LEMMA TypeInit == Init => TypeOK
  BY StepNumbers DEF Init, TypeOK

LEMMA TypeStep == TypeOK /\ [Next]_vars => TypeOK'
<1>. SUFFICES ASSUME TypeOK, [Next]_vars PROVE TypeOK'
  OBVIOUS
<1>1. ASSUME NEW w \in Workers, NEW at \in 1..Done, NewWorker(w, at)
      PROVE  TypeOK'
  <2>1. PICK fs \in FieldsAfter(at), b \in BytesAfter(at) :
          field' = [field EXCEPT ![w] = fs] /\ bytes' = [bytes EXCEPT ![w] = b]
    BY <1>1 DEF NewWorker
  <2>2. field' \in [Workers -> [Fields -> {"null", "set", "wild"}]]
        /\ bytes' \in [Workers -> {"none", "held", "freed", "lost"}]
    BY <2>1, OutcomeOf DEF TypeOK
  <2>3. outcome' \in [Workers -> 0..Done] /\ worker' \in [Workers -> {"none", "made", "error", "freed"}]
    BY <1>1, StepNumbers DEF NewWorker, TypeOK
  <2>4. refs' \in Nat
    BY <1>1 DEF NewWorker, TypeOK, InitWorkerWASMRuntime
  <2>. QED
    BY <1>1, <2>2, <2>3, <2>4 DEF NewWorker, TypeOK
<1>2. ASSUME NEW w \in Workers, NewWorkerFails(w)
      PROVE  TypeOK'
  BY <1>2 DEF NewWorkerFails, TypeOK
<1>3. ASSUME NEW w \in Workers, CallCrashes(w)
      PROVE  TypeOK'
  BY <1>3 DEF CallCrashes, TypeOK
<1>4. ASSUME NEW w \in Workers, NEW function \in Exports, SandboxCall(w, function)
      PROVE  TypeOK'
  <2>1. "init" \in Exports
    BY DEF Exports
  <2>. QED
    BY <1>4, <2>1 DEF SandboxCall, TypeOK
<1>5. ASSUME NEW w \in Workers, WorkerFree(w)
      PROVE  TypeOK'
  <2>1. refs' \in Nat /\ up' \in BOOLEAN
    <3>1. refs \in Nat /\ up \in BOOLEAN
      BY DEF TypeOK
    <3>2. \/ UNCHANGED <<refs, up>>
          \/ up' = FALSE /\ UNCHANGED refs
          \/ RuntimeDestroy
      BY <1>5 DEF WorkerFree
    <3>3. RuntimeDestroy => refs' \in Nat /\ up' \in BOOLEAN
      BY <3>1 DEF RuntimeDestroy
    <3>. QED
      BY <3>1, <3>2, <3>3
  <2>2. worker' \in [Workers -> {"none", "made", "error", "freed"}]
    BY <1>5 DEF WorkerFree, TypeOK
  <2>. QED
    BY <1>5, <2>1, <2>2 DEF WorkerFree, TypeOK
<1>6. CASE UNCHANGED vars
  BY <1>6 DEF vars, TypeOK
<1>. QED
  BY <1>1, <1>2, <1>3, <1>4, <1>5, <1>6 DEF Next

(* Every variable of the sandboxes keeps its type: no use of the runtime is *)
(* given up that was not taken.                                             *)
THEOREM TypeCorrect == Spec => []TypeOK
  BY TypeInit, TypeStep, PTL DEF Spec

-----------------------------------------------------------------------------
(* Sets of workers, counted.                                                *)
Users   == {w \in Workers : worker[w] = "made" /\ outcome[w] > Step("runtime")}
Thieves == {w \in Workers : worker[w] = "freed" /\ outcome[w] = Step("runtime")}

LEMMA AddOne ==
  ASSUME NEW S \in SUBSET Workers, NEW w \in Workers, w \notin S
  PROVE  /\ Cardinality(S) \in Nat /\ Cardinality(S \cup {w}) = Cardinality(S) + 1
<1>1. IsFiniteSet(S)
  BY SandboxAssumption, FS_Subset
<1>. QED
  BY <1>1, FS_AddElement, FS_CardinalityType

LEMMA RemoveOne ==
  ASSUME NEW S \in SUBSET Workers, NEW w \in S
  PROVE  /\ Cardinality(S) \in Nat \ {0} /\ Cardinality(S \ {w}) = Cardinality(S) - 1
<1>1. IsFiniteSet(S) /\ IsFiniteSet(S \ {w})
  BY SandboxAssumption, FS_Subset
<1>2. Cardinality(S) \in Nat /\ Cardinality(S \ {w}) \in Nat
  BY <1>1, FS_CardinalityType
<1>3. Cardinality(S \ {w}) = Cardinality(S) - 1
  BY <1>1, FS_RemoveElement
<1>. QED
  BY <1>2, <1>3

LEMMA CountTyped ==
  Cardinality(Users) \in Nat /\ Cardinality(Thieves) \in Nat
<1>1. IsFiniteSet(Users) /\ IsFiniteSet(Thieves)
  BY SandboxAssumption, FS_Subset DEF Users, Thieves
<1>. QED
  BY <1>1, FS_CardinalityType

(* A worker has no outcome before it is made; a finished one is whole.      *)
Whole(w) ==
  /\ worker[w] = "none" => outcome[w] = 0
  /\ worker[w] \in {"made", "freed"} => outcome[w] # 0
  /\ outcome[w] = Done => bytes[w] = "held" /\ \A f \in Fields : field[w][f] = "set"
  /\ worker[w] \in {"none", "error"} => outcome[w] = 0

Counted == up => refs + Cardinality(Thieves) >= Cardinality(Users)

(* While nothing has failed there is one use for each sandbox, and no       *)
(* crash.                                                                   *)
Sound ==
  (\A w \in Workers : ~Failed(w)) => up /\ refs = Cardinality(Users)

IInv == TypeOK /\ (\A w \in Workers : Whole(w)) /\ Counted /\ Sound

LEMMA WholeStep ==
  ASSUME TypeOK, \A w \in Workers : Whole(w), [Next]_vars, NEW v \in Workers
  PROVE  Whole(v)'
<1>1. ASSUME NEW w \in Workers, NEW at \in 1..Done, NewWorker(w, at)
      PROVE  Whole(v)'
  <2>1. PICK fs \in FieldsAfter(at), b \in BytesAfter(at) :
          field' = [field EXCEPT ![w] = fs] /\ bytes' = [bytes EXCEPT ![w] = b]
    BY <1>1 DEF NewWorker
  <2>2. worker' = [worker EXCEPT ![w] = "made"] /\ outcome' = [outcome EXCEPT ![w] = at]
    BY <1>1 DEF NewWorker
  <2>3. CASE v = w
    <3>1. /\ worker'[v] = "made" /\ outcome'[v] = at /\ field'[v] = fs /\ bytes'[v] = b
      BY <2>1, <2>2, <2>3 DEF TypeOK
    <3>. QED
      BY <3>1, OutcomeOf, StepNumbers DEF Whole
  <2>4. CASE v # w
    BY <2>1, <2>2, <2>4 DEF Whole, TypeOK
  <2>. QED
    BY <2>3, <2>4
<1>2. ASSUME NEW w \in Workers, NewWorkerFails(w) \/ WorkerFree(w)
      PROVE  Whole(v)'
  <2>1. /\ UNCHANGED <<outcome, field, bytes>>
        /\ \/ worker[w] = "none" /\ worker' = [worker EXCEPT ![w] = "error"]
           \/ worker[w] = "made" /\ worker' = [worker EXCEPT ![w] = "freed"]
    BY <1>2 DEF NewWorkerFails, WorkerFree
  <2>. QED
    BY <2>1 DEF Whole, TypeOK
<1>3. CASE UNCHANGED <<worker, outcome, field, bytes>>
  BY <1>3 DEF Whole
<1>. QED
  BY <1>1, <1>2, <1>3 DEF Next, vars, CallCrashes, SandboxCall

(* Making a worker: the use and the user come together.                     *)
LEMMA CountNew ==
  ASSUME IInv, NEW w \in Workers, NEW at \in 1..Done, NewWorker(w, at)
  PROVE  Counted' /\ Sound'
<1>0. TypeOK /\ Whole(w) /\ Counted /\ Sound
  BY DEF IInv
<1>1. /\ worker[w] = "none" /\ outcome[w] = 0 /\ refs \in Nat /\ up /\ up' = up
      /\ worker' = [worker EXCEPT ![w] = "made"] /\ outcome' = [outcome EXCEPT ![w] = at]
      /\ refs' = IF at > 2 THEN refs + 1 ELSE refs
  BY <1>0, StepNumbers DEF NewWorker, InitWorkerWASMRuntime, Whole, TypeOK
<1>2. Thieves' = Thieves /\ w \notin Users
  BY <1>0, <1>1 DEF Thieves, Users, TypeOK
<1>3. CASE at > 2
  <2>1. Users' = Users \cup {w}
    BY <1>0, <1>1, <1>3, StepNumbers DEF Users, TypeOK
  <2>2. Cardinality(Users') = Cardinality(Users) + 1
    BY <1>2, <2>1, AddOne DEF Users
  <2>3. Counted'
    BY <1>0, <1>1, <1>2, <1>3, <2>2, CountTyped DEF Counted
  <2>4. (\A v \in Workers : ~Failed(v)') => \A v \in Workers : ~Failed(v)
    BY <1>0, <1>1, StepNumbers DEF Failed, TypeOK
  <2>. QED
    BY <1>0, <1>1, <1>3, <2>2, <2>3, <2>4 DEF Sound
<1>4. CASE ~(at > 2)
  <2>1. Users' = Users
    BY <1>0, <1>1, <1>4, StepNumbers DEF Users, TypeOK
  <2>2. Counted'
    BY <1>0, <1>1, <1>2, <1>4, <2>1 DEF Counted
  <2>3. Failed(w)'
    BY <1>0, <1>1, <1>4, StepNumbers DEF Failed, TypeOK
  <2>. QED
    BY <2>2, <2>3 DEF Sound
<1>. QED
  BY <1>3, <1>4

LEMMA CountFree ==
  ASSUME IInv, NEW w \in Workers, WorkerFree(w)
  PROVE  Counted' /\ Sound'
<1>0. TypeOK /\ Whole(w) /\ Counted /\ Sound
  BY DEF IInv
<1>1. /\ worker[w] = "made" /\ outcome[w] \in 1..10 /\ refs \in Nat /\ up
      /\ worker' = [worker EXCEPT ![w] = "freed"]
      /\ UNCHANGED <<outcome, field, bytes>>
  BY <1>0, StepNumbers DEF WorkerFree, Whole, TypeOK
<1>2. /\ outcome[w] = 1 => refs' = refs
      /\ up' => refs' = refs \/ (refs > 0 /\ refs' = refs - 1)
      /\ up' /\ outcome[w] = 1 => refs' = refs
  BY <1>0, StepNumbers DEF WorkerFree, RuntimeDestroy, TypeOK
<1>3. CASE outcome[w] > 2
  <2>1. w \in Users /\ Users' = Users \ {w} /\ Thieves' = Thieves
    BY <1>0, <1>1, <1>3, StepNumbers DEF Users, Thieves, TypeOK
  <2>2. Cardinality(Users') = Cardinality(Users) - 1
    BY <2>1, RemoveOne DEF Users
  <2>3. Counted'
    BY <1>0, <1>1, <1>2, <2>1, <2>2, CountTyped DEF Counted
  <2>4. ASSUME \A v \in Workers : ~Failed(v)'
        PROVE  up' /\ refs' = Cardinality(Users')
    <3>1. \A v \in Workers : ~Failed(v)
      BY <1>1, <2>4 DEF Failed
    <3>2. refs = Cardinality(Users) /\ refs > 0
      <4>1. Cardinality(Users) \in Nat \ {0}
        BY <2>1, RemoveOne DEF Users
      <4>. QED
        BY <1>0, <3>1, <4>1 DEF Sound
    <3>3. outcome[w] = Done /\ field[w]["load"] = "set"
      BY <1>0, <1>1, <3>1, StepNumbers, FieldNames DEF Failed, Whole
    <3>4. ~(outcome[w] = Step("malloc")) /\ ~(field[w]["load"] = "wild") /\ ~(refs = 0)
      BY <1>1, <1>3, <3>2, <3>3, StepNumbers
    <3>5. refs' = refs - 1 /\ up' = up
      BY <3>2, <3>4 DEF WorkerFree, RuntimeDestroy
    <3>. QED
      BY <1>1, <2>2, <3>2, <3>5
  <2>. QED
    BY <2>3, <2>4 DEF Sound
<1>4. CASE outcome[w] = 2
  <2>1. w \notin Thieves /\ Thieves' = Thieves \cup {w} /\ Users' = Users
    BY <1>0, <1>1, <1>4, StepNumbers DEF Users, Thieves, TypeOK
  <2>2. Cardinality(Thieves') = Cardinality(Thieves) + 1
    BY <2>1, AddOne DEF Thieves
  <2>3. Counted'
    BY <1>0, <1>1, <1>2, <2>1, <2>2, CountTyped DEF Counted
  <2>4. Failed(w)'
    BY <1>1, <1>4, StepNumbers DEF Failed
  <2>. QED
    BY <2>3, <2>4 DEF Sound
<1>5. CASE outcome[w] = 1
  <2>1. Thieves' = Thieves /\ Users' = Users
    BY <1>0, <1>1, <1>5, StepNumbers DEF Users, Thieves, TypeOK
  <2>2. Failed(w)'
    BY <1>1, <1>5, StepNumbers DEF Failed
  <2>. QED
    BY <1>0, <1>1, <1>2, <1>5, <2>1, <2>2 DEF Counted, Sound
<1>. QED
  BY <1>1, <1>3, <1>4, <1>5

LEMMA CountCall ==
  ASSUME IInv, NEW w \in Workers, CallCrashes(w)
  PROVE  Counted' /\ Sound'
<1>0. TypeOK /\ Whole(w) /\ Sound
  BY DEF IInv
<1>1. /\ worker[w] = "made"
      /\ ~Callable(w) \/ bytes[w] # "held"
      /\ up' = FALSE /\ UNCHANGED outcome
  BY DEF CallCrashes
<1>2. ASSUME \A v \in Workers : ~Failed(v)
      PROVE  FALSE
  <2>1. outcome[w] = Done
    BY <1>0, <1>1, <1>2, StepNumbers DEF Failed, Whole, TypeOK
  <2>2. bytes[w] = "held" /\ field[w]["env"] = "set" /\ field[w]["init"] = "set"
    BY <1>0, <2>1, FieldNames DEF Whole
  <2>3. w \in Users
    BY <1>1, <2>1, StepNumbers DEF Users
  <2>4. refs > 0
    <3>1. Cardinality(Users) \in Nat \ {0}
      BY <2>3, RemoveOne DEF Users
    <3>. QED
      BY <1>0, <1>2, <3>1 DEF Sound
  <2>. QED
    BY <1>1, <2>2, <2>4 DEF Callable
<1>3. (\A v \in Workers : ~Failed(v)') => \A v \in Workers : ~Failed(v)
  BY <1>1 DEF Failed
<1>. QED
  BY <1>1, <1>2, <1>3 DEF Counted, Sound

LEMMA IInvInit == Init => IInv
<1>. SUFFICES ASSUME Init PROVE IInv
  OBVIOUS
<1>1. Users = {} /\ Thieves = {} /\ up /\ refs = 0
  BY DEF Init, Users, Thieves
<1>2. Counted /\ Sound
  BY <1>1, FS_EmptySet DEF Counted, Sound
<1>3. \A w \in Workers : Whole(w)
  BY StepNumbers DEF Init, Whole
<1>. QED
  BY <1>2, <1>3, TypeInit DEF IInv

LEMMA IInvStep == IInv /\ [Next]_vars => IInv'
<1>. SUFFICES ASSUME IInv, [Next]_vars PROVE IInv'
  OBVIOUS
<1>1. TypeOK' /\ \A w \in Workers : Whole(w)'
  BY TypeStep, WholeStep DEF IInv
<1>2. ASSUME NEW w \in Workers, NewWorkerFails(w)
      PROVE  Counted' /\ Sound'
  <2>1. Users' = Users /\ Thieves' = Thieves /\ UNCHANGED <<outcome, refs, up>>
    BY <1>2 DEF IInv, TypeOK, NewWorkerFails, Users, Thieves
  <2>2. Counted /\ Sound
    BY DEF IInv
  <2>. QED
    BY <2>1, <2>2 DEF Counted, Sound, Failed
<1>3. ASSUME UNCHANGED <<worker, outcome, refs, up>>
      PROVE  Counted' /\ Sound'
  <2>1. Users' = Users /\ Thieves' = Thieves
    BY <1>3 DEF Users, Thieves
  <2>2. Counted /\ Sound
    BY DEF IInv
  <2>3. \A w \in Workers : Failed(w)' <=> Failed(w)
    BY <1>3 DEF Failed
  <2>. QED
    BY <1>3, <2>1, <2>2, <2>3 DEF Counted, Sound
<1>4. \/ \E w \in Workers : \/ \E at \in 1..Done : NewWorker(w, at)
                            \/ NewWorkerFails(w) \/ CallCrashes(w) \/ WorkerFree(w)
      \/ UNCHANGED <<worker, outcome, refs, up>>
  BY DEF Next, vars, SandboxCall
<1>5. Counted' /\ Sound'
  <2>1. CASE \E w \in Workers, at \in 1..Done : NewWorker(w, at)
    BY <2>1, CountNew
  <2>2. CASE \E w \in Workers : CallCrashes(w) \/ WorkerFree(w)
    BY <2>2, CountCall, CountFree
  <2>. QED
    BY <1>2, <1>3, <1>4, <2>1, <2>2
<1>. QED
  BY <1>1, <1>5 DEF IInv

(* A process whose sandboxes were all finished never crashes, whatever is   *)
(* called and freed, and in which order.                                    *)
THEOREM CrashesAreBlamed == Spec => []OnlyHalfBuiltCrash
<1>1. IInv => OnlyHalfBuiltCrash
  BY DEF IInv, Sound, OnlyHalfBuiltCrash
<1>. QED
  BY <1>1, IInvInit, IInvStep, PTL DEF Spec

(* Sandboxes that started the runtime keep it, but for the uses that freed  *)
(* sandboxes gave up without having taken one.                              *)
THEOREM RuntimeCounted == Spec => []RuntimeOutlivesSandboxes
<1>1. IInv => RuntimeOutlivesSandboxes
  BY DEF IInv, Counted, Users, Thieves, RuntimeOutlivesSandboxes
<1>. QED
  BY <1>1, IInvInit, IInvStep, PTL DEF Spec
=============================================================================
