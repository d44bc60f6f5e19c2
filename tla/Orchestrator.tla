---------------------------- MODULE Orchestrator ----------------------------
(***************************************************************************)
(* The orchestrator of cmd/hive/src/orchestrator.c around its pool of      *)
(* children: OrchestratorInit, OrchestratorRun and the loop on the Wayland *)
(* display that main.c:57 sketches.  Its thread serves one of two masters  *)
(* at a time: the compositor, while it is in wl_display_roundtrip or       *)
(* wl_display_dispatch, or the children, while it is in uv_run.            *)
(***************************************************************************)
EXTENDS ProcessPool, Sequences

CONSTANT MaxEvents  \* bound: how many events the compositor sends

ASSUME OrchestratorAssumption == MaxEvents \in Nat

Globals == {"compositor", "output", "layer_shell"}

VARIABLES
  pc,       \* "new", "bound", "ready", "roundtrip", "vulkan", "loop",
            \* "dispatch" or "ended"
  ending,   \* "none", "segv", "exit0", "exit1", "freed" or "busy"
  offer,    \* what the compositor advertises: not, in an old version, or well
  display,  \* the connection: "none", "up" or "dead" after an error
  wire,     \* events for the layer surface, sent and not dispatched
  events    \* how many events have been sent

main  == <<pc, ending>>
way   == <<offer, display, wire, events>>
ovars == <<vars, main, way>>

OrchestratorTypeOK ==
  /\ TypeOK
  /\ pc \in {"new", "bound", "ready", "roundtrip", "vulkan", "loop", "dispatch", "ended"}
  /\ ending \in {"none", "segv", "exit0", "exit1", "freed", "busy"}
  /\ offer \in [Globals -> {"none", "old", "good"}]
  /\ display \in {"none", "up", "dead"}
  /\ wire \in Seq({"configure", "closed"})
  /\ events \in 0..MaxEvents

OrchestratorStart ==
  /\ Init
  /\ pc = "new" /\ ending = "none"
  /\ offer \in [Globals -> {"none", "old", "good"}]
  /\ display \in {"none", "up"}
  /\ wire = << >> /\ events = 0

Goto(from, to) == pc = from /\ pc' = to /\ UNCHANGED ending
End(how)       == pc' = "ended" /\ ending' = how
Working        == \E s \in Slots : handle[s] /= "idle"

-----------------------------------------------------------------------------
(* OrchestratorInit.  registry_global binds versions 6, 4 and 4, whatever   *)
(* the compositor has: a version it does not have is a protocol error, that *)
(* nothing looks at.  Without a display, get_registry gets NULL; with one   *)
(* that has gone, no global arrives, and the first request goes astray.     *)
RegistryRoundtrip ==
  /\ pc = "new"
  /\ \/ display \in {"none", "dead"} /\ End("segv") /\ UNCHANGED display
     \/ /\ display = "up"
        /\ Goto("new", "bound")
        /\ display' = IF "old" \in {offer[g] : g \in Globals} THEN "dead" ELSE "up"
  /\ UNCHANGED <<vars, offer, wire, events>>

(* Nothing initialises the fields that registry_global sets.  Requests on a *)
(* missing compositor or layer shell go through a wild or a null pointer;   *)
(* a wild output is a crash, or the id of no object, and a null one is      *)
(* right: the compositor then chooses the output.                           *)
CreateSurface ==
  /\ pc = "bound"
  /\ \/ "none" \in {offer[g] : g \in Globals} /\ End("segv") /\ UNCHANGED display
     \/ /\ offer["compositor"] /= "none" /\ offer["layer_shell"] /= "none"
        /\ Goto("bound", "ready")
        /\ \/ UNCHANGED display
           \/ offer["output"] = "none" /\ display' = "dead"
  /\ UNCHANGED <<vars, offer, wire, events>>

-----------------------------------------------------------------------------
(* OrchestratorRun: wl_surface_commit, a round trip, Vulkan, uv_run.        *)
Commit ==
  Goto("ready", "roundtrip") /\ UNCHANGED <<vars, way>>

RoundtripDone ==
  /\ Goto("roundtrip", "vulkan")
  /\ wire = << >>
  /\ UNCHANGED <<vars, way>>

CreateVulkan ==
  /\ pc = "vulkan"
  /\ Goto("vulkan", "loop") \/ End("exit1")
  /\ UNCHANGED <<vars, way>>

(* Mutants: the mode of OrchestratorRunOnce; the loop is left as soon as    *)
(* the counter says that no process runs.                                   *)
RunOnce ==
  Goto("loop", "dispatch") /\ UNCHANGED <<vars, way>>

RunWhileCounted ==
  num = 0 /\ Goto("loop", "dispatch") /\ UNCHANGED <<vars, way>>

(* uv_run in UV_RUN_DEFAULT returns when no handle is active or closing.    *)
RunReturns ==
  ~Working /\ Goto("loop", "dispatch") /\ UNCHANGED <<vars, way>>

(* Mutant: the events are served in the round trip only.                    *)
ServesInRoundtrip == pc = "roundtrip"

Serves == pc \in {"roundtrip", "dispatch"}

(* layer_configure and layer_closed.                                        *)
LayerConfigure ==
  /\ Serves /\ wire /= << >> /\ Head(wire) = "configure"
  /\ wire' = Tail(wire)
  /\ UNCHANGED <<vars, main, offer, display, events>>

LayerClosed ==
  /\ Serves /\ wire /= << >> /\ Head(wire) = "closed"
  /\ End("exit0")
  /\ UNCHANGED <<vars, way>>

(* uv_loop_delete: a handle that is not closed makes it EBUSY, an assertion *)
(* in libuv.  A failed uv_spawn leaves one in the loop's queue that nothing *)
(* ever closes, and that the next spawn puts there a second time.           *)
OrchestratorFree ==
  /\ pc \in {"ready", "dispatch"}
  /\ End(IF Working \/ failures > 0 THEN "busy" ELSE "freed")
  /\ UNCHANGED <<vars, way>>

-----------------------------------------------------------------------------
(* The children.  Their owner calls the pool between OrchestratorInit and   *)
(* OrchestratorRun, or from a callback of the loop.                         *)
Calls ==
  /\ pc = "ready" \/ (pc = "loop" /\ Working)
  /\ OrchestratorSpawn \/ OrchestratorKillAllProcesses
  /\ UNCHANGED <<main, way>>

Reap(s) ==
  /\ pc = "loop"
  /\ OnProcessExit(s) \/ OnProcessClosed(s)
  /\ UNCHANGED <<main, way>>

Elsewhere ==
  /\ pc /= "ended"
  /\ \E p \in Pids : ChildEnds(p) \/ StrangerStarts(p) \/ StrangerEnds(p)
  /\ UNCHANGED <<main, way>>

(* The compositor configures the surface once it has been committed, closes *)
(* it when it likes, and may go away.                                       *)
CompositorSends(e) ==
  /\ display = "up"
  /\ events < MaxEvents
  /\ e = "configure" => pc \in {"roundtrip", "vulkan", "loop", "dispatch"}
  /\ e = "closed" => pc \notin {"new", "bound", "ended"}
  /\ wire' = Append(wire, e)
  /\ events' = events + 1
  /\ UNCHANGED <<vars, main, offer, display>>

CompositorEnds ==
  /\ display = "up" /\ pc /= "ended"
  /\ display' = "dead" /\ wire' = << >>
  /\ UNCHANGED <<vars, main, offer, events>>

MainStep ==
  \/ RegistryRoundtrip \/ CreateSurface \/ Commit \/ RoundtripDone
  \/ CreateVulkan \/ RunReturns \/ LayerConfigure \/ LayerClosed

OrchestratorNext ==
  \/ MainStep \/ OrchestratorFree
  \/ Calls \/ (\E s \in Slots : Reap(s)) \/ Elsewhere
  \/ (\E e \in {"configure", "closed"} : CompositorSends(e)) \/ CompositorEnds

OrchestratorSpec ==
  /\ OrchestratorStart
  /\ [][OrchestratorNext]_ovars
  /\ WF_ovars(MainStep) /\ \A s \in Slots : WF_ovars(Reap(s))

-----------------------------------------------------------------------------
(* exit in layer_closed and in the Vulkan functions looks at no child.  It  *)
(* leaves children behind only if they were spawned before OrchestratorRun: *)
(* once in uv_run, the process ends, or frees its loop, without children.   *)
OrphansOnlyOfEarlySpawns ==
  [][ending' /= ending /\ Working => pc \in {"ready", "roundtrip", "vulkan"}]_ovars

(* After OrchestratorRun, uv_loop_delete finds its loop clean unless some   *)
(* uv_spawn has failed, however many children came and went.                *)
LoopDeletable ==
  [][ending' = "busy" => failures > 0 \/ pc = "ready"]_ovars

(* A child that ends is reaped, even one that ends before the loop runs.    *)
ChildrenAreReaped ==
  \A p \in Pids : table[p] = "zombie" ~> table[p] /= "zombie" \/ pc = "ended"

(* While children live nobody answers the compositor; once they are gone,   *)
(* every configure is acknowledged and a close ends the process.            *)
ConfiguresAnswered ==
  <>[](~Working) => (wire /= << >> ~> wire = << >> \/ pc = "ended")
=============================================================================
