-------------------------- MODULE RenderArrayProofs --------------------------
(***************************************************************************)
(* Proofs about RenderArray, for any processes, arrays and names: what is  *)
(* mapped has its size, who can cut an array off from its name, which      *)
(* names are left behind, and which descriptors a process has open.        *)
(***************************************************************************)
EXTENDS RenderArray, FiniteSetTheorems, WellFoundedInduction, TLAPS

(* The types of all that the proofs need: of a descriptor only that it was  *)
(* not 0 where Free goes on to unlink.                                      *)
Typed ==
  /\ link \in [Names -> Arrays \cup {NoObject}]
  /\ size \in [Arrays -> {0, Size}]
  /\ pc \in [Arrays -> Stages]
  /\ asked \in [Arrays -> Names \cup {NoName}]
  /\ name \in [Arrays -> Names \cup {NoName}]
  /\ DOMAIN shm = Arrays /\ shm = [a \in Arrays |-> shm[a]]
  /\ object \in [Arrays -> Arrays \cup {NoObject}]

(* What the stage of an array says of it.                                   *)
Staged(a) ==
  /\ pc[a] = "none" => asked[a] = NoName
  /\ pc[a] \in Holding => object[a] \in Arrays
  /\ pc[a] \in Holding \cup {"failing", "freeing"} => asked[a] \in Names
  /\ pc[a] = "freeing" => shm[a] # 0

Sized(a) == pc[a] \in {"sized", "mapped", "live"} => size[object[a]] = Size

Linked(a) ==
  pc[a] \in Holding /\ link[asked[a]] # object[a]
    => \E b \in Arrays \ {a} : UnlinkedBy(b, asked[a])

Wanted(n) == link[n] # NoObject => \E a \in Arrays : asked[a] = n /\ ~UnlinkedBy(a, n)

IInv ==
  /\ Typed
  /\ \A a \in Arrays : Staged(a) /\ Sized(a) /\ Linked(a)
  /\ \A n \in Names : Wanted(n)

-----------------------------------------------------------------------------
(* The steps that only move an array from a stage to another one.           *)
LEMMA Frame ==
  ASSUME [Next]_vars
  PROVE  \/ \E a \in Arrays, n \in Names : ShmOpen(a, n) \/ ShmOpenFails(a, n)
         \/ \E a \in Arrays : Ftruncate(a) \/ Mmap(a) \/ SetupFails(a) \/ UnlinkFailed(a)
                              \/ Filled(a) \/ Free(a) \/ UnlinkFreed(a)
         \/ \E p \in Procs : EndOf(p)
         \/ UNCHANGED vars
<1>1. ASSUME NEW a \in Arrays, UnlinkNothing(a)
      PROVE  \E p \in Procs : EndOf(p)
  BY <1>1, RenderArrayAssumption DEF UnlinkNothing
<1>2. ASSUME NEW p \in Procs, Kill(p)
      PROVE  EndOf(p)
  BY <1>2 DEF Kill
<1>. QED
  BY <1>1, <1>2 DEF Next

LEMMA OpenKeeps ==
  ASSUME IInv, NEW a \in Arrays, NEW n \in Names, ShmOpen(a, n)
  PROVE  IInv'
<1>. DEFINE o == IF link[n] = NoObject THEN a ELSE link[n]
<1>1. /\ pc[a] = "none"
      /\ object' = [object EXCEPT ![a] = o]
      /\ link' = [link EXCEPT ![n] = o]
      /\ asked' = [asked EXCEPT ![a] = n]
      /\ pc' = [pc EXCEPT ![a] = "opened"]
      /\ UNCHANGED <<size, name>>
  BY DEF ShmOpen, At, Goto
<1>2. shm' = [shm EXCEPT ![a] = LowestFree(Owner[a])]
  BY DEF ShmOpen
<1>3. o \in Arrays /\ Typed
  BY DEF IInv, Typed
<1>4. Typed'
  BY <1>1, <1>2, <1>3 DEF Typed, Stages
<1>5. \A b \in Arrays : b # a => /\ pc'[b] = pc[b] /\ asked'[b] = asked[b] /\ shm'[b] = shm[b]
                               /\ object'[b] = object[b] /\ name'[b] = name[b]
  BY <1>1, <1>2, <1>3 DEF Typed
<1>6. /\ pc'[a] = "opened" /\ asked'[a] = n /\ object'[a] = o /\ link'[n] = o
      /\ \A m \in Names : m # n => link'[m] = link[m]
  BY <1>1, <1>3 DEF Typed
<1>7. \A m : \A b \in Arrays : UnlinkedBy(b, m) => b # a /\ UnlinkedBy(b, m)'
  BY <1>1, <1>5 DEF UnlinkedBy
<1>8. ASSUME NEW b \in Arrays
      PROVE  Staged(b)' /\ Sized(b)' /\ Linked(b)'
  <2>1. CASE b = a
    BY <1>3, <1>6, <2>1 DEF Staged, Sized, Linked, Holding
  <2>2. CASE b # a
    <3>1. Staged(b)' /\ Sized(b)'
      BY <1>1, <1>5, <2>2 DEF IInv, Staged, Sized
    <3>2. ASSUME pc'[b] \in Holding, link'[asked'[b]] # object'[b]
          PROVE  \E c \in Arrays \ {b} : UnlinkedBy(c, asked[b])'
      <4>1. pc[b] \in Holding /\ asked[b] \in Names /\ object[b] \in Arrays
        BY <1>5, <2>2, <3>2 DEF IInv, Staged
      <4>2. link[asked[b]] # object[b]
        BY <1>5, <1>6, <2>2, <3>2, <4>1, RenderArrayAssumption
      <4>3. PICK c \in Arrays \ {b} : UnlinkedBy(c, asked[b])
        BY <4>1, <4>2 DEF IInv, Linked
      <4>4. UnlinkedBy(c, asked[b])'
        BY <1>5, <1>7, <2>2, <4>3 DEF UnlinkedBy
      <4>. QED
        BY <4>4
    <3>. QED
      BY <3>1, <3>2 DEF Linked
  <2>. QED
    BY <2>1, <2>2
<1>9. ASSUME NEW m \in Names
      PROVE  Wanted(m)'
  <2>1. CASE m = n
    <3>1. asked'[a] = m /\ ~UnlinkedBy(a, m)'
      BY <1>6, <2>1 DEF UnlinkedBy
    <3>. QED
      BY <3>1 DEF Wanted
  <2>2. CASE m # n
    <3>1. ASSUME link'[m] # NoObject
          PROVE  \E b \in Arrays : asked'[b] = m /\ ~UnlinkedBy(b, m)'
      <4>1. PICK b \in Arrays : asked[b] = m /\ ~UnlinkedBy(b, m)
        BY <1>6, <2>2, <3>1 DEF IInv, Wanted
      <4>2. b # a
        BY <1>1, <4>1, RenderArrayAssumption DEF IInv, Staged
      <4>. QED
        BY <1>5, <4>1, <4>2 DEF UnlinkedBy
    <3>. QED
      BY <3>1 DEF Wanted
  <2>. QED
    BY <2>1, <2>2
<1>. QED
  BY <1>4, <1>8, <1>9 DEF IInv

(* Steps that change no names, links and objects, but only how far an array *)
(* is.                                                                      *)
LEMMA StageKeeps ==
  ASSUME IInv, Typed', UNCHANGED <<link, asked, shm, object>>,
         \A b \in Arrays :
           /\ pc'[b] \in {"none", "failed"} => pc[b] = pc'[b]
           /\ pc'[b] = "freed" => pc[b] = "freed" \/ shm[b] = 0
           /\ pc[b] = "failed" => pc'[b] = "failed"
           /\ pc[b] = "freed" => pc'[b] = "freed" /\ name'[b] = name[b]
           /\ pc'[b] = "freed" /\ pc[b] = "freed" => name'[b] = name[b]
           /\ pc'[b] \in Holding => pc[b] \in Holding
           /\ pc'[b] \in {"failing", "freeing"} => pc[b] \in Holding \cup {"failing", "freeing"}
           /\ pc'[b] = "freeing" => shm[b] # 0
           /\ Sized(b)'
  PROVE  IInv'
<1>1. \A m : \A b \in Arrays : UnlinkedBy(b, m) <=> UnlinkedBy(b, m)'
  BY DEF UnlinkedBy
<1>2. ASSUME NEW b \in Arrays
      PROVE  Staged(b)' /\ Linked(b)'
  <2>1. Staged(b) /\ Linked(b)
    BY DEF IInv
  <2>2. Staged(b)'
    BY <2>1 DEF Staged
  <2>3. Linked(b)'
    BY <1>1, <2>1 DEF Linked
  <2>. QED
    BY <2>2, <2>3
<1>3. \A m \in Names : Wanted(m)'
  BY <1>1 DEF IInv, Wanted
<1>. QED
  BY <1>2, <1>3 DEF IInv

LEMMA FtruncateKeeps ==
  ASSUME IInv, NEW a \in Arrays, Ftruncate(a)
  PROVE  IInv'
<1>1. /\ pc[a] = "opened" /\ pc' = [pc EXCEPT ![a] = "sized"]
      /\ size' = [size EXCEPT ![object[a]] = Size]
      /\ UNCHANGED <<link, asked, name, shm, object>>
  BY DEF Ftruncate, At, Goto
<1>2. Typed /\ object[a] \in Arrays
  BY <1>1 DEF IInv, Staged, Holding
<1>3. Typed'
  BY <1>1, <1>2 DEF Typed, Stages
<1>4. size'[object[a]] = Size /\ \A o \in Arrays : size'[o] \in {size[o], Size}
  BY <1>1, <1>2 DEF Typed
<1>5. \A b \in Arrays : b # a => pc'[b] = pc[b]
  BY <1>1, <1>2 DEF Typed
<1>6. ASSUME NEW b \in Arrays PROVE Sized(b)'
  <2>1. CASE b = a
    BY <1>1, <1>4, <2>1 DEF Sized
  <2>2. CASE b # a
    <3>1. pc[b] \in {"sized", "mapped", "live"} => object[b] \in Arrays /\ size[object[b]] = Size
      BY DEF IInv, Staged, Sized, Holding
    <3>. QED
      BY <1>1, <1>4, <1>5, <2>2, <3>1 DEF Sized
  <2>. QED
    BY <2>1, <2>2
<1>7. pc'[a] = "sized"
  BY <1>1, <1>2 DEF Typed
<1>. QED
  BY <1>1, <1>3, <1>5, <1>6, <1>7, StageKeeps DEF IInv, Staged, Holding

LEMMA AdvanceKeeps ==
  ASSUME IInv, NEW a \in Arrays, Mmap(a) \/ SetupFails(a) \/ Filled(a) \/ Free(a)
  PROVE  IInv'
<1>1. /\ UNCHANGED <<link, size, asked, shm, object>>
      /\ \E stage \in Stages : pc' = [pc EXCEPT ![a] = stage]
      /\ \/ name' = name
         \/ \E n \in Names \cup {NoName} : name' = [name EXCEPT ![a] = n] /\ pc[a] = "mapped"
  <2>1. CASE Filled(a)
    <3>1. pc[a] = "mapped" /\ \E n \in Copies(a) : name' = [name EXCEPT ![a] = n]
      BY <2>1 DEF Filled, At
    <3>2. asked[a] \in Names
      BY <3>1 DEF IInv, Staged, Holding
    <3>3. Copies(a) \subseteq Names \cup {NoName}
      BY <3>2, RenderArrayAssumption DEF Copies
    <3>. QED
      BY <2>1, <3>1, <3>3 DEF Filled, Goto, Stages
  <2>2. CASE Mmap(a) \/ SetupFails(a) \/ Free(a)
    BY <2>2 DEF Mmap, SetupFails, Free, Goto, Stages
  <2>. QED
    BY <2>1, <2>2
<1>2. \/ pc[a] = "sized" /\ pc' = [pc EXCEPT ![a] = "mapped"]
      \/ pc[a] \in {"opened", "sized", "mapped"} /\ pc' = [pc EXCEPT ![a] = "failing"]
      \/ pc[a] = "mapped" /\ pc' = [pc EXCEPT ![a] = "live"]
      \/ pc[a] = "live" /\ shm[a] = 0 /\ pc' = [pc EXCEPT ![a] = "freed"]
      \/ pc[a] = "live" /\ shm[a] # 0 /\ pc' = [pc EXCEPT ![a] = "freeing"]
  BY DEF Mmap, SetupFails, Filled, Free, At, Goto
<1>3. Typed
  BY DEF IInv
<1>4. Typed'
  BY <1>1, <1>3 DEF Typed
<1>5. \A b \in Arrays : b # a => pc'[b] = pc[b] /\ name'[b] = name[b]
  BY <1>1, <1>3 DEF Typed
<1>6. \/ pc[a] = "sized" /\ pc'[a] = "mapped"
      \/ pc[a] \in {"opened", "sized", "mapped"} /\ pc'[a] = "failing"
      \/ pc[a] = "mapped" /\ pc'[a] = "live"
      \/ pc[a] = "live" /\ shm[a] = 0 /\ pc'[a] = "freed"
      \/ pc[a] = "live" /\ shm[a] # 0 /\ pc'[a] = "freeing"
  BY <1>2, <1>3 DEF Typed
<1>7. \A b \in Arrays : Sized(b)'
  BY <1>1, <1>5, <1>6 DEF IInv, Sized
<1>. QED
  BY <1>1, <1>4, <1>5, <1>6, <1>7, StageKeeps DEF IInv, Staged, Holding

LEMMA EndKeeps ==
  ASSUME IInv, NEW p \in Procs, EndOf(p)
  PROVE  IInv'
<1>1. /\ UNCHANGED <<link, size, asked, name, shm, object>>
      /\ \A b \in Arrays : pc'[b] = pc[b] \/ (pc'[b] = "lost" /\ pc[b] \notin {"none", "failed", "freed"})
  BY DEF EndOf
<1>2. Typed'
  BY DEF EndOf, IInv, Typed, Stages
<1>3. \A b \in Arrays : Sized(b)'
  BY <1>1 DEF IInv, Sized
<1>. QED
  BY <1>1, <1>2, <1>3, StageKeeps DEF IInv, Staged, Holding

-----------------------------------------------------------------------------
(* shm_unlink: the array that unlinks a name is to blame for it.            *)
LEMMA UnlinkKeeps ==
  ASSUME IInv, NEW a \in Arrays, UnlinkFailed(a) \/ UnlinkFreed(a)
  PROVE  IInv'
<1>1. Typed /\ Staged(a)
  BY DEF IInv
<1>2. PICK n \in Names : /\ link' = [link EXCEPT ![n] = NoObject]
                        /\ \/ n = asked[a] /\ pc[a] = "failing" /\ pc' = [pc EXCEPT ![a] = "failed"]
                           \/ n = name[a] /\ pc[a] = "freeing" /\ pc' = [pc EXCEPT ![a] = "freed"]
  BY <1>1 DEF UnlinkFailed, UnlinkFreed, At, Goto, Staged, Typed
<1>3. UNCHANGED <<size, asked, name, shm, object>>
  BY DEF UnlinkFailed, UnlinkFreed
<1>4. Typed'
  BY <1>1, <1>2, <1>3 DEF Typed, Stages
<1>5. /\ \A b \in Arrays : b # a => pc'[b] = pc[b]
      /\ link'[n] = NoObject /\ \A m \in Names : m # n => link'[m] = link[m]
      /\ pc[a] \in {"failing", "freeing"} /\ pc'[a] \in {"failed", "freed"}
  BY <1>1, <1>2 DEF Typed
<1>6. UnlinkedBy(a, n)' /\ \A m : UnlinkedBy(a, m)' /\ asked[a] = m => m = n
  <2>1. CASE pc[a] = "failing"
    BY <1>1, <1>2, <1>3, <2>1 DEF UnlinkedBy, Typed
  <2>2. CASE pc[a] = "freeing"
    BY <1>1, <1>2, <1>3, <2>2 DEF UnlinkedBy, Typed, Staged
  <2>. QED
    BY <1>5, <2>1, <2>2
<1>7. \A m : \A b \in Arrays : b # a => (UnlinkedBy(b, m)' <=> UnlinkedBy(b, m))
  BY <1>3, <1>5 DEF UnlinkedBy
<1>8. \A m : \A b \in Arrays : UnlinkedBy(b, m) => UnlinkedBy(b, m)'
  BY <1>5, <1>7 DEF UnlinkedBy
<1>9. ASSUME NEW b \in Arrays
      PROVE  Staged(b)' /\ Sized(b)' /\ Linked(b)'
  <2>1. Staged(b) /\ Sized(b) /\ Linked(b)
    BY DEF IInv
  <2>2. CASE b = a
    BY <1>5, <2>2 DEF Staged, Sized, Linked, Holding
  <2>3. CASE b # a
    <3>1. Staged(b)' /\ Sized(b)'
      BY <1>3, <1>5, <2>1, <2>3 DEF Staged, Sized
    <3>2. ASSUME pc'[b] \in Holding, link'[asked'[b]] # object'[b]
          PROVE  \E c \in Arrays \ {b} : UnlinkedBy(c, asked[b])'
      <4>1. pc[b] \in Holding /\ asked'[b] = asked[b] /\ asked[b] \in Names
        BY <1>3, <1>5, <2>1, <2>3, <3>2 DEF Staged
      <4>2. CASE asked[b] = n
        BY <1>6, <2>3, <4>1, <4>2
      <4>3. CASE asked[b] # n
        BY <1>3, <1>5, <1>8, <2>1, <3>2, <4>1, <4>3 DEF Linked
      <4>. QED
        BY <4>2, <4>3
    <3>. QED
      BY <3>1, <3>2 DEF Linked
  <2>. QED
    BY <2>2, <2>3
<1>10. ASSUME NEW m \in Names
       PROVE  Wanted(m)'
  <2>1. ASSUME link'[m] # NoObject
        PROVE  \E b \in Arrays : asked'[b] = m /\ ~UnlinkedBy(b, m)'
    <3>1. m # n /\ link[m] # NoObject
      BY <1>5, <2>1
    <3>2. PICK b \in Arrays : asked[b] = m /\ ~UnlinkedBy(b, m)
      BY <3>1 DEF IInv, Wanted
    <3>. QED
      BY <1>3, <1>6, <1>7, <3>1, <3>2
  <2>. QED
    BY <2>1 DEF Wanted
<1>. QED
  BY <1>4, <1>9, <1>10 DEF IInv

(* A call that could not open the object has yet to unlink the name.        *)
LEMMA OpenFailsKeeps ==
  ASSUME IInv, NEW a \in Arrays, NEW n \in Names, ShmOpenFails(a, n)
  PROVE  IInv'
<1>1. /\ pc[a] = "none" /\ pc' = [pc EXCEPT ![a] = "failing"]
      /\ asked' = [asked EXCEPT ![a] = n]
      /\ UNCHANGED <<link, size, name, shm, object>>
  BY DEF ShmOpenFails, At, Goto
<1>2. Typed
  BY DEF IInv
<1>3. Typed'
  BY <1>1, <1>2 DEF Typed, Stages
<1>4. /\ \A b \in Arrays : b # a => pc'[b] = pc[b] /\ asked'[b] = asked[b]
      /\ pc'[a] = "failing" /\ asked'[a] = n
  BY <1>1, <1>2 DEF Typed
<1>5. \A m : \A b \in Arrays : b # a => (UnlinkedBy(b, m)' <=> UnlinkedBy(b, m))
  BY <1>1, <1>4 DEF UnlinkedBy
<1>6. \A m : ~UnlinkedBy(a, m)
  BY <1>1 DEF UnlinkedBy
<1>7. ASSUME NEW b \in Arrays
      PROVE  Staged(b)' /\ Sized(b)' /\ Linked(b)'
  <2>1. Staged(b) /\ Sized(b) /\ Linked(b)
    BY DEF IInv
  <2>2. CASE b = a
    BY <1>4, <2>2 DEF Staged, Sized, Linked, Holding
  <2>3. CASE b # a
    <3>1. Staged(b)' /\ Sized(b)'
      BY <1>1, <1>4, <2>1, <2>3 DEF Staged, Sized
    <3>2. Linked(b)'
      BY <1>1, <1>4, <1>5, <1>6, <2>1, <2>3 DEF Linked
    <3>. QED
      BY <3>1, <3>2
  <2>. QED
    BY <2>2, <2>3
<1>8. ASSUME NEW m \in Names
      PROVE  Wanted(m)'
  <2>1. ASSUME link'[m] # NoObject
        PROVE  \E b \in Arrays : asked'[b] = m /\ ~UnlinkedBy(b, m)'
    <3>1. PICK b \in Arrays : asked[b] = m /\ ~UnlinkedBy(b, m)
      BY <1>1, <2>1 DEF IInv, Wanted
    <3>2. b # a
      BY <1>1, <3>1, RenderArrayAssumption DEF IInv, Staged
    <3>. QED
      BY <1>4, <1>5, <3>1, <3>2
  <2>. QED
    BY <2>1 DEF Wanted
<1>. QED
  BY <1>3, <1>7, <1>8 DEF IInv

-----------------------------------------------------------------------------
LEMMA IInvInit == Init => IInv
<1>. SUFFICES ASSUME Init PROVE IInv
  OBVIOUS
<1>1. Typed
  BY RenderArrayAssumption DEF Init, Typed, Stages
<1>2. \A a \in Arrays : Staged(a) /\ Sized(a) /\ Linked(a)
  BY DEF Init, Staged, Sized, Linked, Holding
<1>3. \A n \in Names : Wanted(n)
  BY DEF Init, Wanted
<1>. QED
  BY <1>1, <1>2, <1>3 DEF IInv

LEMMA IInvStep == IInv /\ [Next]_vars => IInv'
<1>. SUFFICES ASSUME IInv, [Next]_vars PROVE IInv'
  OBVIOUS
<1>1. CASE UNCHANGED vars
  BY <1>1 DEF vars, arrayVars, IInv, Typed, Staged, Sized, Linked, Wanted, UnlinkedBy
<1>. QED
  BY <1>1, Frame, OpenKeeps, OpenFailsKeeps, FtruncateKeeps, AdvanceKeeps, UnlinkKeeps, EndKeeps

(* No access to a mapped array is beyond the end of its object, whatever    *)
(* other processes do with the object and its name.                         *)
THEOREM AlwaysSized == Spec => []MappedIsSized
<1>1. IInv => MappedIsSized
  BY DEF IInv, Sized, MappedIsSized, Mapped
<1>. QED
  BY <1>1, IInvInit, IInvStep, PTL DEF Spec

(* An array in use loses its name only to another one that failed or was    *)
(* freed.                                                                   *)
THEOREM CutOffCorrect == Spec => []CutOffOnlyByAnother
<1>1. IInv => CutOffOnlyByAnother
  BY DEF IInv, Linked, CutOffOnlyByAnother
<1>. QED
  BY <1>1, IInvInit, IInvStep, PTL DEF Spec

(* Every name in the system has an array that has still to unlink it, or    *)
(* that ended without.                                                      *)
THEOREM LeftCorrect == Spec => []NothingLeftBehind
<1>1. IInv => NothingLeftBehind
  BY DEF IInv, Wanted, NothingLeftBehind
<1>. QED
  BY <1>1, IInvInit, IInvStep, PTL DEF Spec

-----------------------------------------------------------------------------
(* Descriptors.  There always is a lowest free one.                         *)
LessThan == OpToRel(<, Nat)

LEMMA Smallest ==
  ASSUME NEW T, T \subseteq Nat, T # {}
  PROVE  \E x \in T : \A y \in T : x <= y
<1>1. IsWellFoundedOn(LessThan, Nat)
  BY NatLessThanWellFounded DEF LessThan
<1>2. PICK x \in T : \A y \in T : ~ (<<y, x>> \in LessThan)
  BY <1>1, WFMin
<1>3. \A y, z \in Nat : y < z => <<y, z>> \in LessThan
  BY DEF LessThan, OpToRel
<1>4. x \in Nat /\ \A y \in T : y \in Nat /\ ~ (y < x)
  BY <1>2, <1>3
<1>. QED
  BY <1>4

LEMMA LowestExists ==
  ASSUME NEW S, IsFiniteSet(S), NEW n \in Nat, Cardinality(S) <= n
  PROVE  \E d \in 0..n : d \notin S /\ \A e \in 0..(d - 1) : e \in S
<1>. DEFINE T == (0..n) \ S
<1>1. T # {}
  <2>1. SUFFICES ASSUME 0..n \subseteq S PROVE FALSE
    OBVIOUS
  <2>2. Cardinality(0..n) = n + 1
    BY FS_Interval
  <2>3. Cardinality(0..n) <= Cardinality(S) /\ Cardinality(S) \in Nat
    BY <2>1, FS_Subset, FS_CardinalityType
  <2>. QED
    BY <2>2, <2>3
<1>2. PICK d \in T : \A e \in T : d <= e
  <2>1. T \subseteq Nat
    OBVIOUS
  <2>. HIDE DEF T
  <2>. QED
    BY <1>1, <2>1, Smallest
<1>3. ASSUME NEW e \in 0..(d - 1) PROVE e \in S
  <2>1. d \in 0..n /\ e \in 0..n /\ ~ (d <= e)
    OBVIOUS
  <2>2. e \notin T
    BY <1>2, <2>1
  <2>. QED
    BY <2>1, <2>2
<1>. QED
  BY <1>2, <1>3

(* The parts of DescriptorsAreHeld, for one process.                        *)
Held(p) == {a \in Arrays : Owner[a] = p /\ pc[a] \in Holding}
Kept(p) == \E a \in Arrays : Owner[a] = p /\ pc[a] = "freed" /\ shm[a] = 0
ZeroTaken(p) == p \in Stdin \/ Kept(p)

Descriptors(p) ==
  /\ open[p] = {shm[a] : a \in Held(p)} \cup (IF ZeroTaken(p) THEN {0} ELSE {})
  /\ \A a, b \in Held(p) : shm[a] = shm[b] => a = b
  /\ \A a \in Held(p) : ZeroTaken(p) => shm[a] # 0

DInv ==
  /\ running \subseteq Procs
  /\ open \in [Procs -> SUBSET Nat]
  /\ shm \in [Arrays -> Nat]
  /\ \A p \in running : Descriptors(p)

(* A process with an array still to be made has no more descriptors open    *)
(* than there are arrays.                                                   *)
LEMMA FewOpen ==
  ASSUME DInv, NEW a \in Arrays, Owner[a] \in running, pc[a] = "none"
  PROVE  /\ IsFiniteSet(open[Owner[a]])
         /\ Cardinality(open[Owner[a]]) <= Cardinality(Arrays)
<1>. DEFINE p == Owner[a]
            image == {shm[b] : b \in Held(p)}
            f == [b \in Held(p) |-> shm[b]]
<1>1. Held(p) \subseteq Arrays \ {a}
  BY DEF Held, Holding
<1>2. IsFiniteSet(Arrays \ {a}) /\ Cardinality(Arrays \ {a}) = Cardinality(Arrays) - 1
  BY FS_RemoveElement, RenderArrayAssumption
<1>3. IsFiniteSet(Held(p)) /\ Cardinality(Held(p)) <= Cardinality(Arrays) - 1
  BY <1>1, <1>2, FS_Subset
<1>4. f \in Surjection(Held(p), image)
  BY DEF Surjection
<1>5. IsFiniteSet(image) /\ Cardinality(image) <= Cardinality(Held(p))
  BY <1>3, <1>4, FS_Surjection
<1>6. /\ IsFiniteSet(image \cup {0})
      /\ \/ Cardinality(image \cup {0}) = Cardinality(image)
         \/ Cardinality(image \cup {0}) = Cardinality(image) + 1
  BY <1>5, FS_AddElement
<1>7. /\ Cardinality(Arrays) \in Nat /\ Cardinality(image) \in Nat
      /\ Cardinality(Held(p)) \in Nat
  BY <1>3, <1>5, FS_CardinalityType, RenderArrayAssumption
<1>8. open[p] = image \/ open[p] = image \cup {0}
  BY DEF DInv, Descriptors
<1>. HIDE DEF p, image, f
<1>9. IsFiniteSet(open[p]) /\ Cardinality(open[p]) <= Cardinality(Arrays)
  <2>1. CASE open[p] = image
    BY <2>1, <1>3, <1>5, <1>7
  <2>2. CASE open[p] = image \cup {0}
    BY <2>2, <1>3, <1>5, <1>6, <1>7
  <2>. QED
    BY <1>8, <2>1, <2>2
<1>. QED
  BY <1>9 DEF p

LEMMA LowestIsFree ==
  ASSUME DInv, NEW a \in Arrays, Owner[a] \in running, pc[a] = "none"
  PROVE  LowestFree(Owner[a]) \in Nat /\ LowestFree(Owner[a]) \notin open[Owner[a]]
<1>1. Cardinality(Arrays) \in Nat
  BY FS_CardinalityType, RenderArrayAssumption
<1>2. \E d \in 0..Cardinality(Arrays) :
        d \notin open[Owner[a]] /\ \A e \in 0..(d - 1) : e \in open[Owner[a]]
  BY <1>1, FewOpen, LowestExists
<1>. QED
  BY <1>1, <1>2 DEF LowestFree

(* What leaves the descriptors of a process alone.                          *)
LEMMA DescriptorsSame ==
  ASSUME NEW p, Descriptors(p), open'[p] = open[p],
         \A a \in Arrays : Owner[a] = p =>
           /\ shm'[a] = shm[a]
           /\ pc'[a] \in Holding <=> pc[a] \in Holding
           /\ pc'[a] = "freed" /\ shm[a] = 0 <=> pc[a] = "freed" /\ shm[a] = 0
  PROVE  Descriptors(p)'
<1>1. Held(p)' = Held(p) /\ \A a \in Held(p) : shm'[a] = shm[a]
  BY DEF Held
<1>2. ZeroTaken(p)' <=> ZeroTaken(p)
  BY DEF ZeroTaken, Kept
<1>3. {shm'[a] : a \in Held(p)'} = {shm[a] : a \in Held(p)}
  BY <1>1
<1>. QED
  BY <1>1, <1>2, <1>3 DEF Descriptors

(* An array is closed, and goes on to fail or to be freed.                  *)
LEMMA CloseKeeps ==
  ASSUME DInv, NEW a \in Arrays, Owner[a] \in running, pc[a] \in Holding,
         NEW stage \in {"failing", "freeing"}, pc \in [Arrays -> Stages],
         pc' = [pc EXCEPT ![a] = stage], Close(a), shm' = shm
  PROVE  Descriptors(Owner[a])'
<1>. DEFINE p == Owner[a]
<1>1. Descriptors(p) /\ p \in Procs
  BY DEF DInv
<1>2. a \in Held(p) /\ Held(p)' = Held(p) \ {a}
  BY DEF Held, Holding
<1>3. ZeroTaken(p)' <=> ZeroTaken(p)
  BY DEF ZeroTaken, Kept, Holding
<1>4. open'[p] = open[p] \ {shm[a]}
  BY <1>1 DEF Close, DInv
<1>5. {shm'[b] : b \in Held(p)'} = {shm[b] : b \in Held(p)} \ {shm[a]}
  BY <1>1, <1>2 DEF Descriptors
<1>6. ZeroTaken(p) => shm[a] # 0
  BY <1>1, <1>2 DEF Descriptors
<1>. QED
  BY <1>1, <1>2, <1>3, <1>4, <1>5, <1>6 DEF Descriptors

LEMMA ShmOpenDescriptors ==
  ASSUME DInv, Typed, NEW a \in Arrays, NEW n \in Names, ShmOpen(a, n)
  PROVE  DInv'
<1>. DEFINE p == Owner[a]
            d == LowestFree(Owner[a])
<1>1. /\ p \in running /\ pc[a] = "none" /\ UNCHANGED running
      /\ open' = [open EXCEPT ![p] = @ \cup {d}]
      /\ shm' = [shm EXCEPT ![a] = d]
      /\ pc' = [pc EXCEPT ![a] = "opened"]
  BY DEF ShmOpen, At, Goto
<1>2. d \in Nat /\ d \notin open[p] /\ p \in Procs /\ Descriptors(p)
  BY <1>1, LowestIsFree DEF DInv
<1>. HIDE DEF d
<1>3. open' \in [Procs -> SUBSET Nat] /\ shm' \in [Arrays -> Nat]
  BY <1>1, <1>2 DEF DInv
<1>4. \A b \in Arrays : b # a => pc'[b] = pc[b] /\ shm'[b] = shm[b]
  BY <1>1 DEF Typed
<1>5. pc'[a] = "opened" /\ shm'[a] = d /\ open'[p] = open[p] \cup {d}
  BY <1>1, <1>2 DEF Typed, DInv
<1>6. ASSUME NEW q \in running', q # p PROVE Descriptors(q)'
  <2>1. open'[q] = open[q] /\ Descriptors(q)
    BY <1>1, <1>6 DEF DInv
  <2>. QED
    BY <1>4, <1>6, <2>1, DescriptorsSame
<1>7. Descriptors(p)'
  <2>1. Held(p)' = Held(p) \cup {a} /\ a \notin Held(p)
    BY <1>1, <1>4, <1>5 DEF Held, Holding
  <2>2. ZeroTaken(p)' <=> ZeroTaken(p)
    BY <1>1, <1>4, <1>5 DEF ZeroTaken, Kept
  <2>3. \A b \in Held(p) : b # a /\ shm'[b] = shm[b] /\ shm[b] \in open[p]
    BY <1>2, <1>4, <2>1 DEF Held, Descriptors
  <2>4. {shm'[b] : b \in Held(p)'} = {shm[b] : b \in Held(p)} \cup {d}
    BY <1>5, <2>1, <2>3
  <2>5. ZeroTaken(p) => d # 0
    BY <1>2 DEF Descriptors
  <2>6. \A b, c \in Held(p)' : shm'[b] = shm'[c] => b = c
    BY <1>2, <1>5, <2>1, <2>3 DEF Descriptors
  <2>7. \A b \in Held(p)' : ZeroTaken(p)' => shm'[b] # 0
    BY <1>2, <1>5, <2>1, <2>2, <2>3, <2>5 DEF Descriptors
  <2>. QED
    BY <1>2, <1>5, <2>2, <2>4, <2>6, <2>7 DEF Descriptors
<1>. QED
  BY <1>1, <1>3, <1>6, <1>7 DEF DInv

LEMMA EndDescriptors ==
  ASSUME DInv, NEW p \in Procs, EndOf(p)
  PROVE  DInv'
<1>1. /\ running' = running \ {p} /\ open' = [open EXCEPT ![p] = {}] /\ shm' = shm
      /\ \A a \in Arrays : Owner[a] # p => pc'[a] = pc[a]
  BY DEF EndOf
<1>2. ASSUME NEW q \in running' PROVE Descriptors(q)'
  <2>1. q # p /\ open'[q] = open[q] /\ Descriptors(q)
    BY <1>1 DEF DInv
  <2>. QED
    BY <1>1, <2>1, DescriptorsSame
<1>. QED
  BY <1>1, <1>2 DEF DInv

(* A step of one array that leaves descriptors alone, or closes its own.    *)
LEMMA ArrayDescriptors ==
  ASSUME DInv, Typed, NEW a \in Arrays, UNCHANGED <<running, shm>>,
         NEW stage \in Stages, pc' = [pc EXCEPT ![a] = stage],
         \/ open' = open
         \/ Close(a) /\ Owner[a] \in running,
         Owner[a] \in running => Descriptors(Owner[a])'
  PROVE  DInv'
<1>1. /\ open' \in [Procs -> SUBSET Nat]
      /\ \A q \in Procs : q # Owner[a] => open'[q] = open[q]
  BY DEF Close, DInv
<1>2. ASSUME NEW q \in running, q # Owner[a] PROVE Descriptors(q)'
  <2>1. \A b \in Arrays : Owner[b] = q => pc'[b] = pc[b] /\ shm'[b] = shm[b]
    BY <1>2 DEF Typed
  <2>2. open'[q] = open[q] /\ Descriptors(q)
    BY <1>1, <1>2 DEF DInv
  <2>. QED
    BY <2>1, <2>2, DescriptorsSame
<1>. QED
  BY <1>1, <1>2 DEF DInv

(* A step of one array in use, or about to be, that opens no descriptor.    *)
LEMMA StageDescriptors ==
  ASSUME DInv, Typed, NEW a \in Arrays, Owner[a] \in running,
         UNCHANGED <<running, open, shm>>,
         NEW stage \in Stages, pc' = [pc EXCEPT ![a] = stage],
         stage \in Holding <=> pc[a] \in Holding,
         pc[a] # "freed", stage = "freed" => shm[a] # 0
  PROVE  DInv'
<1>1. Descriptors(Owner[a])'
  BY DescriptorsSame DEF DInv, Typed
<1>. QED
  BY <1>1, ArrayDescriptors

(* An array on descriptor 0 is freed: the process keeps the descriptor.     *)
LEMMA FreeZero ==
  ASSUME DInv, Typed, NEW a \in Arrays, At(a, "live"), shm[a] = 0,
         Goto(a, "freed"), UNCHANGED <<running, open, shm>>
  PROVE  DInv'
<1>. DEFINE p == Owner[a]
<1>1. /\ p \in running /\ pc[a] = "live" /\ pc' = [pc EXCEPT ![a] = "freed"]
      /\ \A b \in Arrays : b # a => pc'[b] = pc[b]
      /\ pc'[a] = "freed"
  BY DEF At, Goto, Typed
<1>2. Descriptors(p) /\ a \in Held(p)
  BY <1>1 DEF DInv, Held, Holding
<1>3. Held(p)' = Held(p) \ {a}
  BY <1>1 DEF Held, Holding
<1>4. ~ZeroTaken(p) /\ ZeroTaken(p)'
  BY <1>1, <1>2 DEF Descriptors, ZeroTaken, Kept
<1>5. open'[p] = {shm'[b] : b \in Held(p)'} \cup {0}
  <2>1. {shm[b] : b \in Held(p)} = {shm[b] : b \in Held(p) \ {a}} \cup {0}
    BY <1>2
  <2>. QED
    BY <1>2, <1>3, <1>4, <2>1 DEF Descriptors
<1>6. \A b \in Held(p)' : shm'[b] # 0
  BY <1>2, <1>3 DEF Descriptors
<1>7. \A b, c \in Held(p)' : shm'[b] = shm'[c] => b = c
  BY <1>2, <1>3 DEF Descriptors
<1>8. Descriptors(p)'
  BY <1>4, <1>5, <1>6, <1>7 DEF Descriptors
<1>. QED
  BY <1>1, <1>8, ArrayDescriptors DEF Stages

LEMMA CloseDescriptors ==
  ASSUME DInv, Typed, NEW a \in Arrays, SetupFails(a) \/ Free(a)
  PROVE  DInv'
<1>1. Owner[a] \in running /\ pc[a] \in Holding /\ UNCHANGED <<running, shm>>
  BY DEF SetupFails, Free, At, Holding
<1>2. ASSUME NEW stage \in {"failing", "freeing"}, Goto(a, stage), Close(a)
      PROVE  DInv'
  <2>1. pc' = [pc EXCEPT ![a] = stage] /\ pc \in [Arrays -> Stages] /\ stage \in Stages
    BY <1>2 DEF Goto, Typed, Stages
  <2>2. Descriptors(Owner[a])'
    BY <1>1, <1>2, <2>1, CloseKeeps
  <2>. QED
    BY <1>1, <1>2, <2>1, <2>2, ArrayDescriptors
<1>3. CASE SetupFails(a)
  BY <1>2, <1>3 DEF SetupFails
<1>4. CASE Free(a)
  <2>1. CASE shm[a] = 0
    BY <1>4, <2>1, FreeZero DEF Free
  <2>2. CASE shm[a] # 0
    BY <1>2, <1>4, <2>2 DEF Free
  <2>. QED
    BY <2>1, <2>2
<1>. QED
  BY <1>3, <1>4

LEMMA DInvInit == Init => DInv
<1>. SUFFICES ASSUME Init PROVE DInv
  OBVIOUS
<1>1. /\ running \subseteq Procs
      /\ open \in [Procs -> SUBSET Nat]
      /\ shm \in [Arrays -> Nat]
  BY DEF Init
<1>2. ASSUME NEW p \in Procs PROVE Descriptors(p)
  <2>1. Held(p) = {} /\ ~Kept(p) /\ {shm[a] : a \in Held(p)} = {}
    BY DEF Init, Held, Kept, Holding
  <2>. QED
    BY <2>1 DEF Init, Descriptors, ZeroTaken
<1>. QED
  BY <1>1, <1>2 DEF DInv

LEMMA DInvStep == IInv /\ DInv /\ [Next]_vars => DInv'
<1>. SUFFICES ASSUME IInv, DInv, [Next]_vars PROVE DInv'
  OBVIOUS
<1>1. Typed /\ \A a \in Arrays : Staged(a)
  BY DEF IInv
<1>2. ASSUME NEW a \in Arrays, NEW n \in Names, ShmOpen(a, n)
      PROVE  DInv'
  BY <1>1, <1>2, ShmOpenDescriptors
<1>3. ASSUME NEW a \in Arrays, NEW n \in Names, ShmOpenFails(a, n)
      PROVE  DInv'
  BY <1>1, <1>3, StageDescriptors DEF ShmOpenFails, At, Goto, Stages, Holding
<1>4. ASSUME NEW a \in Arrays, Ftruncate(a) \/ Mmap(a) \/ Filled(a)
      PROVE  DInv'
  BY <1>1, <1>4, StageDescriptors DEF Ftruncate, Mmap, Filled, At, Goto, Stages, Holding
<1>5. ASSUME NEW a \in Arrays, UnlinkFailed(a) \/ UnlinkFreed(a)
      PROVE  DInv'
  BY <1>1, <1>5, StageDescriptors
     DEF UnlinkFailed, UnlinkFreed, At, Goto, Stages, Holding, Staged
<1>6. CASE UNCHANGED vars
  <2>1. ASSUME NEW p \in running PROVE Descriptors(p)'
    BY <1>6, <2>1, DescriptorsSame DEF DInv, vars, arrayVars
  <2>. QED
    BY <1>6, <2>1 DEF DInv, vars, arrayVars
<1>. QED
  BY <1>1, <1>2, <1>3, <1>4, <1>5, <1>6, Frame, CloseDescriptors, EndDescriptors

(* A process never loses a descriptor, nor closes one of another array,     *)
(* whatever calls fail: all that stays open is a 0 that Free took for none. *)
THEOREM DescriptorsCorrect == Spec => []DescriptorsAreHeld
<1>1. DInv => DescriptorsAreHeld
  BY DEF DInv, Descriptors, ZeroTaken, Held, Kept, DescriptorsAreHeld
<1>. QED
  BY <1>1, IInvInit, IInvStep, DInvInit, DInvStep, PTL DEF Spec

(* Every variable has its type: above all, LowestFree finds a descriptor.   *)
THEOREM TypeCorrect == Spec => []TypeOK
<1>1. IInv /\ DInv => TypeOK
  BY DEF IInv, Typed, DInv, TypeOK
<1>. QED
  BY <1>1, IInvInit, IInvStep, DInvInit, DInvStep, PTL DEF Spec
=============================================================================
