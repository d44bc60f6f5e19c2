----------------------------- MODULE RenderArray -----------------------------
(***************************************************************************)
(* Render commands in shared memory: lib/render-ipc, and the renderer that *)
(* uses it.  Processes make arrays over POSIX shared memory objects, which *)
(* they find by name, and free them.  Every system call that touches what  *)
(* processes share is an action; what a process does alone between two of  *)
(* them is part of the first.                                              *)
(***************************************************************************)
EXTENDS Integers, FiniteSets

CONSTANTS
  Arrays,     \* the calls of NewSharedRenderCommandArray, one array each
  Procs,      \* the processes
  Owner,      \* the process that makes an array
  Renderers,  \* the arrays made by NewRenderer, the others have other callers
  Names,      \* the names of shared memory objects
  Cut,        \* what strndup keeps of a name given with the length 1
  Stdin,      \* the processes that have their descriptor 0 open
  Size,       \* CalcTotalShmSize()
  NoObject,   \* what a free name is linked to
  NoName      \* NULL

ASSUME RenderArrayAssumption ==
  /\ IsFiniteSet(Arrays)
  /\ Owner \in [Arrays -> Procs]
  /\ Renderers \subseteq Arrays
  /\ Cut \in [Names -> Names]
  /\ Stdin \subseteq Procs
  /\ Size \in Nat \ {0}
  /\ NoObject \notin Arrays
  /\ NoName \notin Names

VARIABLES
  running,  \* the processes that have not ended
  open,     \* the descriptors that a process has open, of 0 and above
  link,     \* the object that a name is linked to
  size,     \* the size of an object, which is named by the array that made it
  pc,       \* how far an array is, see Stages
  asked,    \* the name that was given to NewSharedRenderCommandArray
  name,     \* the array's copy of it
  shm,      \* the array's descriptor
  object    \* the object that it has opened

arrayVars == <<pc, asked, name, shm, object>>
vars == <<running, open, link, size, arrayVars>>

(* The stages of a call of NewSharedRenderCommandArray, and of an array.    *)
Stages == {"none", "opened", "sized", "mapped", "live", "failing", "failed", "freeing", "freed", "lost"}
Holding == {"opened", "sized", "mapped", "live"}
Mapped  == {"mapped", "live"}

TypeOK ==
  /\ running \subseteq Procs
  /\ open \in [Procs -> SUBSET Nat]
  /\ link \in [Names -> Arrays \cup {NoObject}]
  /\ size \in [Arrays -> {0, Size}]
  /\ pc \in [Arrays -> Stages]
  /\ asked \in [Arrays -> Names \cup {NoName}]
  /\ name \in [Arrays -> Names \cup {NoName}]
  /\ shm \in [Arrays -> Nat]
  /\ object \in [Arrays -> Arrays \cup {NoObject}]

Init ==
  /\ running = Procs
  /\ open = [p \in Procs |-> IF p \in Stdin THEN {0} ELSE {}]
  /\ link = [n \in Names |-> NoObject]
  /\ size = [a \in Arrays |-> 0]
  /\ pc = [a \in Arrays |-> "none"]
  /\ asked = [a \in Arrays |-> NoName]
  /\ name = [a \in Arrays |-> NoName]
  /\ shm = [a \in Arrays |-> 0]
  /\ object = [a \in Arrays |-> NoObject]

-----------------------------------------------------------------------------
At(a, stage) == Owner[a] \in running /\ pc[a] = stage
Goto(a, stage) == pc' = [pc EXCEPT ![a] = stage]

(* The kernel gives out the lowest descriptor that is free.                 *)
LowestFree(p) == CHOOSE d \in 0..Cardinality(Arrays) :
                   d \notin open[p] /\ \A e \in 0..(d - 1) : e \in open[p]

Close(a) == open' = [open EXCEPT ![Owner[a]] = @ \ {shm[a]}]

(* Mutant: the name is unlinked first, so that the object is always new.    *)
ShmOpenAnew(a, n) ==
  /\ At(a, "none")
  /\ LET d == LowestFree(Owner[a]) IN
     /\ open' = [open EXCEPT ![Owner[a]] = @ \cup {d}]
     /\ shm' = [shm EXCEPT ![a] = d]
  /\ object' = [object EXCEPT ![a] = a]
  /\ link' = [link EXCEPT ![n] = a]
  /\ asked' = [asked EXCEPT ![a] = n]
  /\ Goto(a, "opened")
  /\ UNCHANGED <<running, size, name>>

(* shm_open with O_CREAT | O_RDWR: the object of that name, or a new one.   *)
ShmOpen(a, n) ==
  /\ At(a, "none")
  /\ LET d == LowestFree(Owner[a])
         o == IF link[n] = NoObject THEN a ELSE link[n]
     IN  /\ open' = [open EXCEPT ![Owner[a]] = @ \cup {d}]
         /\ shm' = [shm EXCEPT ![a] = d]
         /\ object' = [object EXCEPT ![a] = o]
         /\ link' = [link EXCEPT ![n] = o]
  /\ asked' = [asked EXCEPT ![a] = n]
  /\ Goto(a, "opened")
  /\ UNCHANGED <<running, size, name>>

(* shm_open fails: close(-1) does nothing, and the name is unlinked though  *)
(* this process never opened it.                                            *)
ShmOpenFails(a, n) ==
  /\ At(a, "none")
  /\ asked' = [asked EXCEPT ![a] = n]
  /\ Goto(a, "failing")
  /\ UNCHANGED <<running, open, link, size, name, shm, object>>

(* Mutants: every array adds its own room to the object; only the call that *)
(* has made the object gives it its size.                                   *)
FtruncateAdds(a) ==
  /\ At(a, "opened")
  /\ size' = [size EXCEPT ![object[a]] = @ + Size]
  /\ Goto(a, "sized")
  /\ UNCHANGED <<running, open, link, asked, name, shm, object>>

FtruncateByMaker(a) ==
  /\ At(a, "opened")
  /\ size' = IF object[a] = a THEN [size EXCEPT ![a] = Size] ELSE size
  /\ Goto(a, "sized")
  /\ UNCHANGED <<running, open, link, asked, name, shm, object>>

Ftruncate(a) ==
  /\ At(a, "opened")
  /\ size' = [size EXCEPT ![object[a]] = Size]
  /\ Goto(a, "sized")
  /\ UNCHANGED <<running, open, link, asked, name, shm, object>>

Mmap(a) ==
  /\ At(a, "sized")
  /\ Goto(a, "mapped")
  /\ UNCHANGED <<running, open, link, size, asked, name, shm, object>>

(* Mutant: the descriptor is closed only where the memory was mapped.       *)
SetupFailsOpen(a) ==
  /\ \E stage \in {"opened", "sized", "mapped"} : At(a, stage)
  /\ IF pc[a] = "mapped" THEN Close(a) ELSE UNCHANGED open
  /\ Goto(a, "failing")
  /\ UNCHANGED <<running, link, size, asked, name, shm, object>>

(* ftruncate, mmap or malloc fails: failed0 and failed1 up to the unlink.   *)
SetupFails(a) ==
  /\ \E stage \in {"opened", "sized", "mapped"} : At(a, stage)
  /\ Close(a)
  /\ Goto(a, "failing")
  /\ UNCHANGED <<running, link, size, asked, name, shm, object>>

(* Mutant: a failed call leaves the name.                                   *)
UnlinkFailedNot(a) ==
  /\ At(a, "failing")
  /\ Goto(a, "failed")
  /\ UNCHANGED <<running, open, link, size, asked, name, shm, object>>

(* failed2: shm_unlink with the name that was given, and NULL is returned.  *)
UnlinkFailed(a) ==
  /\ At(a, "failing")
  /\ link' = [link EXCEPT ![asked[a]] = NoObject]
  /\ Goto(a, "failed")
  /\ UNCHANGED <<running, open, size, asked, name, shm, object>>

(* What strndup makes of the name; a renderer says that it has one byte.    *)
(* That strndup fails goes unnoticed.                                       *)
Copies(a) == {IF a \in Renderers THEN Cut[asked[a]] ELSE asked[a], NoName}

Filled(a) ==
  /\ At(a, "mapped")
  /\ \E n \in Copies(a) : name' = [name EXCEPT ![a] = n]
  /\ Goto(a, "live")
  /\ UNCHANGED <<running, open, link, size, asked, shm, object>>

-----------------------------------------------------------------------------
(* A process ends: its memory and descriptors go, names and objects stay.   *)
EndOf(p) ==
  /\ running' = running \ {p}
  /\ open' = [open EXCEPT ![p] = {}]
  /\ pc' = [a \in Arrays |->
              IF Owner[a] = p /\ pc[a] \notin {"none", "failed", "freed"} THEN "lost" ELSE pc[a]]
  /\ UNCHANGED <<link, size, asked, name, shm, object>>

(* SharedRenderCommandArrayFree up to its unlink.  An array on descriptor 0 *)
(* keeps it, and its name.                                                  *)
Free(a) ==
  /\ At(a, "live")
  /\ IF shm[a] = 0 THEN Goto(a, "freed") /\ UNCHANGED open
                   ELSE Goto(a, "freeing") /\ Close(a)
  /\ UNCHANGED <<running, link, size, asked, name, shm, object>>

(* ... and the unlink, by the array's own copy of the name.                 *)
UnlinkFreed(a) ==
  /\ At(a, "freeing")
  /\ name[a] # NoName
  /\ link' = [link EXCEPT ![name[a]] = NoObject]
  /\ Goto(a, "freed")
  /\ UNCHANGED <<running, open, size, asked, name, shm, object>>

(* shm_unlink(NULL) ends the process.                                       *)
UnlinkNothing(a) ==
  /\ At(a, "freeing")
  /\ name[a] = NoName
  /\ EndOf(Owner[a])

(* A process is killed.                                                     *)
Kill(p) == p \in running /\ EndOf(p)

Next ==
  \/ \E a \in Arrays :
       \/ \E n \in Names : ShmOpen(a, n) \/ ShmOpenFails(a, n)
       \/ Ftruncate(a)
       \/ Mmap(a)
       \/ SetupFails(a)
       \/ UnlinkFailed(a)
       \/ Filled(a)
       \/ Free(a)
       \/ UnlinkFreed(a)
       \/ UnlinkNothing(a)
  \/ \E p \in Procs : Kill(p)

Spec == Init /\ [][Next]_vars

-----------------------------------------------------------------------------
(* Whoever else opens, sizes, frees or unlinks the object, or dies: what is *)
(* mapped has its full size, so that no access is beyond the object's end.  *)
MappedIsSized == \A a \in Arrays : pc[a] \in Mapped => size[object[a]] = Size

(* A process has open exactly the descriptors of its arrays in use, each of *)
(* them its own, besides a descriptor 0 that Free took for "none".          *)
DescriptorsAreHeld ==
  \A p \in running :
    LET held == {a \in Arrays : Owner[a] = p /\ pc[a] \in Holding}
        kept == \E a \in Arrays : Owner[a] = p /\ pc[a] = "freed" /\ shm[a] = 0
    IN  /\ open[p] = {shm[a] : a \in held} \cup (IF p \in Stdin \/ kept THEN {0} ELSE {})
        /\ \A a, b \in held : shm[a] = shm[b] => a = b
        /\ \A a \in held : p \in Stdin \/ kept => shm[a] # 0

(* An array's name leads others to its object, until some other array of    *)
(* that name, or with a copy that was cut to it, is freed or fails.         *)
UnlinkedBy(b, n) ==
  \/ pc[b] = "failed" /\ asked[b] = n
  \/ pc[b] = "freed" /\ shm[b] # 0 /\ name[b] = n

CutOffOnlyByAnother ==
  \A a \in Arrays :
    pc[a] \in Holding /\ link[asked[a]] # object[a]
      => \E b \in Arrays \ {a} : UnlinkedBy(b, asked[a])

(* A name is left behind only by arrays in use, by those of processes that  *)
(* ended, and by those freed under a copy that was cut or on descriptor 0.  *)
NothingLeftBehind ==
  \A n \in Names : link[n] # NoObject =>
    \E a \in Arrays : /\ asked[a] = n
                      /\ ~UnlinkedBy(a, n)
=============================================================================
