------------------------------- MODULE Sandbox -------------------------------
(***************************************************************************)
(* Sandboxes of WebAssembly modules: lib/sandbox, as lib/worker-runtime    *)
(* and the WorkerEventLoop of cmd/worker use it.  A host makes any number  *)
(* of workers in one process, calls their module in any order and frees    *)
(* each of them once; the WebAssembly runtime below them is one per        *)
(* process.                                                                *)
(*                                                                         *)
(* NewSandbox is a chain of steps of which any may fail: its outcome is    *)
(* the number of the step that did, or Done.                               *)
(***************************************************************************)
EXTENDS Naturals, Sequences, FiniteSets

CONSTANT Workers    \* the workers that are ever made

ASSUME SandboxAssumption == IsFiniteSet(Workers)

VARIABLES
  worker,   \* "none", "made", "error" (init failed) or "freed"
  outcome,  \* the step at which its NewSandbox failed, Done, or 0
  field,    \* the sandbox's pointers: "null", "set", or "wild" (never written)
  bytes,    \* what LoadWasmFile read: "none", "held", "freed" or "lost"
  refs,     \* users of the WebAssembly runtime of this process
  ran,      \* the pairs of a function asked for and the one that ran
  up        \* the process has not crashed

vars == <<worker, outcome, field, bytes, refs, ran, up>>

(* The steps of NewSandbox in order.  Those from "load" on leave a pointer  *)
(* of the same name in the sandbox.                                         *)
Steps  == << "malloc", "runtime", "file", "load", "instantiate", "env", "init", "view", "update" >>
Step(name) == CHOOSE i \in DOMAIN Steps : Steps[i] = name
Done   == Len(Steps) + 1
Fields == {Steps[i] : i \in Step("load")..Len(Steps)}
Exports == {"init", "view", "update"}

TypeOK ==
  /\ worker \in [Workers -> {"none", "made", "error", "freed"}]
  /\ outcome \in [Workers -> 0..Done]
  /\ field \in [Workers -> [Fields -> {"null", "set", "wild"}]]
  /\ bytes \in [Workers -> {"none", "held", "freed", "lost"}]
  /\ refs \in Nat
  /\ ran \subseteq Exports \X Exports
  /\ up \in BOOLEAN

Init ==
  /\ worker = [w \in Workers |-> "none"]
  /\ outcome = [w \in Workers |-> 0]
  /\ field = [w \in Workers |-> [f \in Fields |-> "null"]]
  /\ bytes = [w \in Workers |-> "none"]
  /\ refs = 0
  /\ ran = {}
  /\ up = TRUE

-----------------------------------------------------------------------------
(* Mutant: a sandbox that finds the runtime in use does not count itself.   *)
InitWorkerWASMRuntimeOnce(at) ==
  refs' = IF at > Step("runtime") /\ refs = 0 THEN 1 ELSE refs

(* wasm_runtime_full_init counts its users in one process.                  *)
InitWorkerWASMRuntime(at) ==
  refs' = IF at > Step("runtime") THEN refs + 1 ELSE refs

(* LoadWasmFile forgets its buffer when it cannot read all of the file.     *)
LoadWasmFile(at) ==
  CASE at < Step("file") -> {"none"}
    [] at = Step("file") -> {"none", "lost"}
    [] OTHER             -> {"held"}

(* Mutant: NewSandbox falls through to failed: when all went well.          *)
BytesAfterFallThrough(at) == IF at > Step("file") THEN {"freed"} ELSE LoadWasmFile(at)

(* failed: frees the bytes; a finished sandbox needs them.                  *)
BytesAfter(at) ==
  IF at \in (Step("file") + 1)..Len(Steps) THEN {"freed"} ELSE LoadWasmFile(at)

(* The pointers: as malloc left them if the runtime did not start, zeroed   *)
(* by memset and then filled in order otherwise.                            *)
FieldsAfter(at) ==
  IF at = Step("runtime")
    THEN {[f \in Fields |-> junk] : junk \in {"wild", "null"}}
    ELSE {[f \in Fields |-> IF at > Step(f) THEN "set" ELSE "null"]}

(* WorkerEventLoop.init, NewWorker and NewSandbox: whatever step of         *)
(* NewSandbox fails, the worker is made.                                    *)
NewWorker(w, at) ==
  /\ up
  /\ worker[w] = "none"
  /\ worker' = [worker EXCEPT ![w] = "made"]
  /\ outcome' = [outcome EXCEPT ![w] = at]
  /\ \E fs \in FieldsAfter(at), b \in BytesAfter(at) :
       /\ field' = [field EXCEPT ![w] = fs]
       /\ bytes' = [bytes EXCEPT ![w] = b]
  /\ InitWorkerWASMRuntime(at)
  /\ UNCHANGED <<ran, up>>

(* uv_loop_init or the allocation of the Worker fails.                      *)
NewWorkerFails(w) ==
  /\ up
  /\ worker[w] = "none"
  /\ worker' = [worker EXCEPT ![w] = "error"]
  /\ UNCHANGED <<outcome, field, bytes, refs, ran, up>>

-----------------------------------------------------------------------------
(* A call through pointers that are not set, on a runtime that is gone, or  *)
(* without a sandbox, crashes; one into freed code may.                     *)
Callable(w) == field[w]["env"] = "set" /\ field[w]["init"] = "set" /\ refs > 0

CallCrashes(w) ==
  /\ up
  /\ worker[w] = "made"
  /\ ~Callable(w) \/ bytes[w] # "held"
  /\ up' = FALSE
  /\ UNCHANGED <<worker, outcome, field, bytes, refs, ran>>

(* SandboxCallInit, SandboxCallView and SandboxCallUpdate: whatever was     *)
(* asked for, init_func is called.  The function may trap or return.        *)
SandboxCall(w, asked) ==
  /\ up
  /\ worker[w] = "made"
  /\ Callable(w)
  /\ ran' = ran \cup {<<asked, "init">>}
  /\ UNCHANGED <<worker, outcome, field, bytes, refs, up>>

(* wasm_runtime_destroy gives up one use; without a use it may abort.       *)
RuntimeDestroy == IF refs > 0 THEN refs' = refs - 1 /\ UNCHANGED up
                              ELSE UNCHANGED refs /\ up' \in BOOLEAN

(* WorkerEventLoop.deinit, WorkerFree and SandboxFree.  What is set is      *)
(* given back to the runtime, wild pointers too; the bytes are kept.        *)
WorkerFree(w) ==
  /\ up
  /\ worker[w] = "made"
  /\ worker' = [worker EXCEPT ![w] = "freed"]
  /\ CASE outcome[w] = Step("malloc") -> UNCHANGED <<refs, up>>
       [] \/ field[w]["load"] = "wild"
          \/ field[w]["load"] = "set" /\ refs = 0 -> up' = FALSE /\ UNCHANGED refs
       [] OTHER -> RuntimeDestroy
  /\ UNCHANGED <<outcome, field, bytes, ran>>

Next ==
  \E w \in Workers :
    \/ \E at \in 1..Done : NewWorker(w, at)
    \/ NewWorkerFails(w)
    \/ CallCrashes(w)
    \/ \E asked \in Exports : SandboxCall(w, asked)
    \/ WorkerFree(w)

Spec == Init /\ [][Next]_vars

-----------------------------------------------------------------------------
Failed(w) == outcome[w] \in 1..Len(Steps)

(* As long as every NewSandbox went through, no order of calls and frees of *)
(* any workers crashes the process.                                         *)
OnlyHalfBuiltCrash == ~up => \E w \in Workers : Failed(w)

(* The runtime stays until the last sandbox that started it is freed, but   *)
(* for each sandbox freed that had not: it takes away another one's use.    *)
RuntimeOutlivesSandboxes ==
  LET users  == {w \in Workers : worker[w] = "made" /\ outcome[w] > Step("runtime")}
      thieves == {w \in Workers : worker[w] = "freed" /\ outcome[w] = Step("runtime")}
  IN  up => refs + Cardinality(thieves) >= Cardinality(users)

(* SandboxCallView and SandboxCallUpdate run the function that they and     *)
(* their messages name.                                                     *)
CallsRunTheirFunction == \A pair \in ran : pair[1] = pair[2]
=============================================================================
