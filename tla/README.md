# Vespa in TLA+

Vespa is a set of Wayland shell daemons. This directory holds TLA+ models of its
core, the configurations TLC checks them with, and theorems about them that
TLAPS has proved. Paths below are relative to the root of the repository.

## The system

| component | source | state | operations | hard parts |
|---|---|---|---|---|
| Message codec, C | `lib/ipc/src/event.c`, `lib/ipc/include/ipc.h` | the `Message` being filled | `WriteMessage`, `ReadMessage`, one writer and reader per kind | the data is decoded by whatever `kind` holds by then; a `Message` comes uninitialised from `malloc` |
| Message codec, Go | `cmd/cli/internal/ipc/message.go`, `cmd/cli/cmd/vespa/main.go` | none | `sendPing`, `sendEvent`, `readMessage`, `decodePong` | other BSON types than the C side uses |
| IPC server | `lib/ipc/src/server.c`, `lib/ipc/src/common.h`, callbacks in `cmd/hive/main.c` | one `IpcServerClient` per connection, write requests in flight | libuv callbacks: new connection, read, write done, close | peers that leave, do not read, write in pieces or back to back; callbacks after close |
| `vespa` command line | `cmd/cli/cmd/vespa/main.go` | one connection | `ping`, `publish` (`apply` and others are refused) | a deadline of five seconds; no answer to `publish` |
| Hive start and stop | `cmd/hive/main.c`, `IpcServerInit/Run/Free` | the socket file, the process | bind, listen, run, free, exit | errors are logged and ignored; the file outlives a crash |
| Process pool | `cmd/hive/src/process.c` | `num_processes`, and in each of a fixed number of slots a libuv handle with its pid, and an argv | spawn, on exit, on closed, kill all | the exit is reported in two callbacks; pids are reused |
| Orchestrator | `cmd/hive/src/orchestrator.c` | the Wayland connection and its globals, the pool, a loop | init, run, the layer surface's events, free | one thread serves the compositor or the children, never both; it exits from callbacks; `main.c` has its calls in comments |
| Supervisor, queen | `lib/supervisor`, `lib/core/src/supervised_process.c`, `cmd/queen` | one process handle for the hive | new, spawn, on exit, kill, run, free | the handle keeps the pid of a process that was reaped, and every spawn initialises it anew; does not compile |
| Sandbox, worker | `lib/sandbox`, `lib/worker-runtime`, `cmd/worker` | a WASM module instance | new, call init/view/update, free | error paths of the constructor |
| Render command array, renderer | `lib/render-ipc`, `lib/renderer` | a named shared memory mapping | new, protect, free | one name, several processes |
| C client | `lib/ipc/src/client.c` | one connection | connect, write one event, run the loop | `IpcClientRun` returns true also after a failure; used by no executable |
| Manifest, comb, widgets | `lib/manifest`, `cmd/comb`, `widgets` | none | parsing, examples | none |

How they interact: a command line process dials the hive's Unix socket, writes
one BSON document and, for a ping, reads one back. The hive is one libuv loop.
Its server calls `OnPing` or `OnEvent` of `cmd/hive/main.c` for each message;
`OnPing` gives a pong to `uv_write`. A C client does the same as a publish and
stays connected. The supervisor starts hives as child processes, which meet on
the socket file, also with hives that a user starts. The orchestrator spawns
its children through the pool, on the loop that `OrchestratorRun` runs between
two uses of the Wayland connection; a child's exit reaches the pool only there.
Everything else is linked to nothing that runs today.

What makes each component correct:

- codec: what one side writes the other side reads, or the difference is known;
- server: messages are dispatched as written and in order, pongs answer pings in
  order, nothing is used after it is closed, clients that leave are freed, and
  no well-behaved peer can end the process that serves all of them;
- C client: its event arrives, and it stays as long as the hive that heard it;
- command line: a ping that succeeds got its own digest, a publish that succeeds
  is dispatched, every command ends;
- start and stop: at most one hive serves a path, and an exit code tells the truth;
- supervisor: a run ends with its hive and not before, and a signal goes to a hive
  of its own;
- orchestrator: the end of the process leaves no child behind, ended children are
  reaped, the compositor is answered, the loop can be deleted;
- pool: the counter, the slots and the children agree, and signals go to children;
- sandbox: what the runtime still uses stays, a failed construction harms nobody
  else, and a call runs the function it names;
- render array: an access is never beyond the object's end, descriptors and names
  do not pile up, and a name leads to the array that was made under it.

## Modules

| module | what it is |
|---|---|
| `IpcMessage` | both codecs as operators on documents, which are sequences of fields |
| `MessageCodec` | one message through the codecs, its fields in any order |
| `IpcServer` | the server with arbitrary peers |
| `HiveService` | what the hive promises a command line, with no sockets in it |
| `HiveSystem` | `IpcServer` with real peers, command lines and C clients; implements `HiveService` |
| `HiveBoot` | hive processes that start, crash and restart on one socket path |
| `Supervision` | a supervisor that starts and kills the processes of `HiveBoot` |
| `ProcessPool` | the orchestrator's pool over the system's process table |
| `Orchestrator` | the orchestrator around `ProcessPool`, between the compositor and its children |
| `Sandbox` | workers of one process, their sandboxes and the WebAssembly runtime they share |
| `RenderArray` | shared memory arrays of several processes, system call by system call |
| `IpcMessageProofs`, `MessageCodecProofs`, `IpcServerProofs`, `HiveSystemProofs`, `SupervisionProofs`, `OrchestratorProofs` (with the pool's), `SandboxProofs`, `RenderArrayProofs` | theorems |
| `MC*` | constants for TLC |

`HiveSystem` extends `IpcServer`, which extends `IpcMessage`; `Supervision` extends
`HiveBoot`, and `Orchestrator` extends `ProcessPool`. Definitions under
a comment that begins with "Mutant" are plausible bugs; no other definition uses
them. `PROJECT.json` says which property each of them breaks.

### IpcMessage and MessageCodec

A field is a key, a BSON type and a value. `WriteMessage` and `CliDocument` build
the documents of the two senders. `ReadMessage` is the loop of `event.c`, one
`ReadField` per field: all documents have three fields, so the loop is unrolled.
It starts from `Memory`, which holds any kind: that is what `malloc` gives. A
field of the wrong type reads as 0 or empty, as in libbson. `MessageCodec`
exchanges neighbouring fields before reading, because neither codec of the
repository defines an order and `ReadMessage` depends on it.

### IpcServer

Each libuv callback is one action. `OnRead` with a positive count is `OnRead`,
which decodes, dispatches, and writes the pong; with a negative count it is
`OnReadEof`. `OnWrite` is `OnWritten` or `OnWriteFailed`. `CloseClient` puts a
handle into "closing"; `OnCloseClient` is the end of that, in which libuv first
cancels what is queued and calls `OnWrite` for it. `UvWrite` is libuv's own
writing of a queue. `uv_write` tries at once when nothing is queued before it,
and so does `OnPing`.

The socket is the interesting part. A document takes `Segments` pieces of a
stream; a read takes what has arrived, up to `ReadMax` pieces.
`bson_init_static` accepts the bytes of one read only if they are one whole
document (`ReadsOneDocument`), and otherwise `OnRead` calls `exit(1)`. So the
model has reads of half a document and of two at once. A peer is free to write
anything in `PeerDocuments`, to stop half way, not to read, or to leave. The
kernel takes `SockRoom` pongs for a peer that does not read; the rest queue.

To write to a peer that has left fails with EPIPE. Nothing in the repository
ignores SIGPIPE, and libuv uses plain `write(2)`, so the process dies unless it
inherited the signal as ignored. `SigPipe` is that disposition; runs use both.

Variables: `handle`, `wq`, `written` and `failed` are libuv's state of a client;
`received` and `replies` are the messages dispatched and the pongs that the
kernel took; `sent`, `unsent` and `taken` are the peer's.

Left out: `read` errors other than the end of the connection (they take the same
path), the debug output (in a debug build `OnWrite` prints a document it has
just destroyed, `server.c:53`), the uninitialised `status` in `CHECK_UV` as used
in `OnNewConnection` (it decides about a log line), and failing `malloc`.

### HiveSystem and HiveService

`phase` follows `main` of the command line. `Receive` is `readMessage`,
`decodePong` and the comparison of digests in one action, since only its outcome
matters; `Exit` closes the connection later, as the end of the process does.
`Deadline` may pass whenever a read or a write is under way, so any race
between it and the pong occurs.

The command "hello" is an `IpcClient`: it connects, writes `HelloEvent`, and has
no deadline. `OnMessageSent` leaves it in its loop, "listening"; `LoopEnds` is the
return of `IpcClientRun`, which always says true. Which processes run what is
`command`, chosen from `Mixes` at the start: one of several lists of commands.

`ImplementsService` maps a command to idle, asking, done or failed, what it
`wants` to a ping or a publish (a C client wants a publish), and `served` to the
number of messages the hive has dispatched for it. It says that a ping is answered with its own digest after the hive has seen it, that a
request is dispatched at most once, and that a command that asks comes to an end.

### HiveBoot

`Bind` fails if the file exists, `Listen` then fails too, and both only log.
`uv_run` returns at once in such a process. `IpcServerFree` deletes a loop with
a pipe still open: libuv's assertions, if built in, abort there; otherwise the
process ends with success. A crash leaves the file.

### Supervision

`host` is the process that uses the supervisor, `handle` libuv's state of
`super->hive`, `target` the process whose pid it holds, and `owner` what that pid
is by now: a child, free, or another process (`PidReused`). `OnChildExit` frees
the pid and closes the handle; nothing clears the pid, and `SupervisorKillHive`
passes on what it holds, before the first spawn whatever memory holds. `uv_spawn`
over an active handle links libuv's list of processes to itself; then the handle
is "broken": the first child's end is never reported, and libuv runs in a circle
(`Hang`). Kill and exits are those of `HiveBoot`, so a supervised hive can find
its path taken by one that was started by hand.

The library does not compile: `super->hive` of `supervisor_kill.c` names no
field. It is read as the process given to `SupervisorSpawnHive`, which is the
only one that there is.

### ProcessPool

A slot holds the handle's pid, its argv and the state of its libuv handle.
`table` is the system's view of each pid: free, a child of ours, a zombie of
ours, or a process of somebody else. `OnProcessExit` frees the pid for the
system; `OnProcessClosed` makes the slot forget it. Between the two,
`OrchestratorKillAllProcesses` may signal a stranger.

### Orchestrator

`pc` follows the main thread through `OrchestratorInit`, `OrchestratorRun` and the
loop on `wl_display_dispatch` that `main.c:57` has in comments; `ending` says how
the process ended. `offer` is what the compositor advertises: a global that is
missing leaves a field that nothing initialises, and one in an older version than
`registry_global` binds is a protocol error that kills the connection (`display`)
with nobody looking. `wire` holds the layer surface's events between the
compositor and the two places where the thread serves them, the round trip of
`OrchestratorRun` and the dispatch loop. In between it is in `uv_run`, which
returns when no handle is active or closing (`RunReturns`); only there are
children reaped. `layer_closed` and the Vulkan functions call `exit`.
`OrchestratorFree` deletes the loop; a slot whose `uv_spawn` failed has left
a handle in it that nobody closes, and libuv then asserts ("busy").
Children are spawned and killed between init and run, or by callbacks of the loop.

### Sandbox

`NewSandbox` is one action: nothing else runs in its process meanwhile. Its
parameter is the step that fails, one of nine, or `Done`. The label `failed:`
frees the bytes of the file but returns the sandbox all the same, so a worker is
made whatever happened (`NewWorker` only prints). If the runtime did not start,
the sandbox is what `malloc` returned, before the `memset`: its pointers are
unwritten. WAMR counts `wasm_runtime_full_init` and `wasm_runtime_destroy` in
one process; `refs` is that count, and `SandboxFree` lowers it whether or not
its own sandbox had raised it. WAMR reads a module's bytes while it is loaded,
so a call into a module whose bytes are freed may crash and may not: both are
steps. That the bytes of a whole sandbox are never freed is in the model too
("held" after `WorkerFree`), as is the buffer that `LoadWasmFile` forgets.

Hosts make any number of workers in one process and free each once. The worker
executable makes one; `lib/worker-runtime` is a library, and the runtime's count
is what its users share.

### RenderArray

Each system call that touches what processes share is an action: `shm_open`,
`ftruncate`, `shm_unlink`, and `close` with what precedes it. `object` is an
inode, named by the array whose `shm_open` created it; `link` is the directory;
`open` is each process's descriptor table. Failures at every call are there,
with the labels `failed0` to `failed2` as they fall through: a call that could
not open anything still unlinks the name. `Free` skips closing and unlinking for
descriptor 0, which a process that has no standard input gets. The array's copy
of its name is cut to the given length. `NewRenderer` says that length is one;
its name is one uninitialised byte, so which object a renderer opens depends on
what follows it on the stack: any name of the model, as for other callers.
`Cut` says what `strndup` makes of each. A failed `strndup` leaves NULL, and
`shm_unlink(NULL)` then ends the process.

Left out: `SharedRenderCommandArrayProtect`, which changes the rights of one
process's mapping and ignores whether it could; the accessors; the call with a
NULL or empty name, which returns at once; and the memory of an array, which
`SharedRenderCommandArrayFree` never frees.

## What the runs check

| run | configuration | shows | distinct states |
|---|---|---|---|
| `codec` | 2 bodies, memory kinds 0..5 | pings and events survive if the kind comes before the data (`RoundTrip`); a body never appears under a wrong kind (`NeverAnotherBody`); timestamps from Go read as 0 (`TimestampRead`) | 520 |
| `server` | 2 peers, 2 messages each, 1 stray event, SIGPIPE kills | what is dispatched, and who ends the hive (`InOrderDispatch`, `OnlyUndisciplinedPeersEndIt`) | 843,000 |
| `server_queue` | 1 peer, 4 messages, SIGPIPE ignored | echo, leaks and closing with a queue of up to three pongs; leavers are freed, what is written is read (`LeaversAreFreed`, `WritesAreRead`) | 23,000 |
| `system` | 3 processes, all arguments: two pings with an invalid command, and a ping, a C client and an `apply` | `PongIsMine`, `ShortArgumentsKeepItUp`, `TrueMeansUnheard` | 395,000 |
| `system_live` | a ping with a publish, a ping with a C client | `ImplementsService`, `PublishedArrives` | 31,000 |
| `boot` | 3 hives, 1 of them started by hand, 1 removal of the file, a supervisor | one hive per path, exit codes, who is killed, when a run returns | 328,000 |
| `boot_said` | 3 hives, 1 removal | a finding, below | |
| `pool` | 3 slots, 3 pids, 2 jobs, 2 failures | counter, slots and children agree; who can be killed; slots come back | 118,000 |
| `orchestrator` | 2 slots, 2 pids, 1 job, 1 failure, 2 events of the compositor | who is left behind, when the loop can be deleted, that children are reaped and the compositor is answered | 28,000 |
| `sandbox` | 3 workers | only a failed construction can crash, bytes freed too early included; the runtime outlives its users | 29,000 |
| `sandbox_calls` | 1 worker | a finding, below | |
| `render_array` | 3 arrays, 2 processes, 2 names, one renderer, one process without standard input | sizes, descriptors, names cut off or left behind | 165,000 |

**Bounds.** `MaxMsgs`, `MaxStray`, `MaxRemovals`, `MaxFailures` and `MaxEvents`
bound how often the environment acts, never what the code does. Two messages on
each of two connections are enough for a coalesced read, a partial one, a queued
pong and a cancelled one, and for one peer to end the hive under another; four on
one connection make the queue longer than the kernel's room and let it drain and
fill again. Three hives let the supervisor spawn a second one over the first,
which is running, closing or reaped, while one that it did not start holds the
path. Two slots and two pids under the orchestrator let one child live on while
the other ends, and one spawn fail before or after another; a configure and
a close are the only events that there are. Three workers let one fail, one be
freed and one go on. Three arrays let two processes race for a name while one of
them frees a third array under it. `ReadMax = 2` with documents of one, two and
three segments gives a document below, equal to and above the size of a read.
Three pids for three slots are enough for reuse, because a slot that is closing
still holds a pid that the system has given away. Deadlock is not checked: peers,
users and hosts may stop, and the hive may have exited; workers, arrays and
processes end.

**Symmetry** is used in `server`, on the connections, and in `sandbox`, on the
workers, and never together with liveness.

**Fairness.** libuv calls each callback that is ready, so each callback of the
hive is weakly fair. Nothing is assumed of arbitrary peers. A command line
process runs on and its deadline passes, so its steps are fair as one; starting
a command, and killing one, are not. `OnNewConnectionDropped` and
`OnNewConnectionError` are faults and not fair. In `HiveBoot`, a started process
goes on unless it is killed. In `Supervision` the loop is fair while the host is
in it, and each hive runs on; the host need not spawn, kill, run or free. In
`Orchestrator` the main thread's next step is fair, and so is each slot's exit and
close while the thread is in `uv_run`; what the pool's owner calls, the free, the
children and the compositor are not.

**Findings.** Two runs are expected to fail. `boot_said`: `server.c:131` reports
"server listening at" after a bind or a listen that failed, because `CHECK_UV`
only logs; the process then ends, possibly with `EXIT_SUCCESS`, without serving.
`sandbox_calls`: `SandboxCallView` and `SandboxCallUpdate` call `init_func`
(`sandbox_wasm.c:136` and `:163`); `view_func` and `update_func` are looked up and
never called.

**What the properties say that is not obvious.**
`OnlyUndisciplinedPeersEndIt` is the weakest discipline under which nobody can
end the hive: known kinds, one segment, not a new message before the last pong
is read, and no leaving before it while SIGPIPE kills. `ShortArgumentsKeepItUp`
is the consequence for real command lines: only an argument too long for one
write, or a ping that timed out or was killed under a deadly SIGPIPE, ends the
hive for everybody. `LeaksOnlyForLeavers` bounds what `OnWrite`'s early return
loses. `TrueMeansUnheard` bounds the lie of `IpcClientRun`: while the hive is up,
only a client that the hive never heard returns.
`StrangerDiesOnlyByStalePid` says exactly which window lets the pool
kill a process that is not its own, and `StrangerDiesOnlyByStaleHandle` the same
for the supervisor, whose window never ends: from the close on, and before the
first spawn. `RunReturnsWithoutChildren` and `RunEndsWithItsHive` are the two
sides of waiting for a hive; that a handle was spawned over does not make the
first one false, since the loop then never returns. `OneHivePerPath` has two
parts: while no file was removed nobody serves unseen, and of all hives that were
ever started only one, and one more for each removal, has bound the path. `OrphansOnlyOfEarlySpawns` looks at
the two calls of `exit` in the middle of a session: they lose no children that
were spawned in the loop, because the loop ends only without children.
`ConfiguresAnswered` is the price of that: the compositor waits as long as any
child lives. `LoopDeletable` blames a failed spawn for a loop that cannot be
deleted. `RuntimeOutlivesSandboxes` counts what every failed sandbox takes from the
others when it is freed, and `OnlyHalfBuiltCrash` says that nothing but a failed construction is needed to explain a crash.
`CutOffOnlyByAnother` and `NothingLeftBehind` are two halves of one question,
whether the directory of shared memory agrees with the arrays in use: the first
names who may take a name away from a live array, the second who may leave one.
`DescriptorsAreHeld` is the same for descriptors, with the one exception that
the test `shm != 0` makes.

## What is proved

Proofs hold for all values of the constants that satisfy the modules' `ASSUME`s.

- `IpcMessageProofs`: `DecodeDocument`. The loop is three rounds over a known
  shape; each lemma does one round.
- `IpcServerProofs`: `TypeCorrect`; `DispatchInOrder` (`InOrderDispatch`), whose
  invariant is that `received` is, up to its length, the image of `sent`. It uses
  `DecodeDocument`: what the callbacks see is what the document says.
  The same module has `ExitsAreBlamed` (`OnlyUndisciplinedPeersEndIt`),
  `LeaksBlamed` (`LeaksOnlyForLeavers`), `EchoesInOrder` (`EchoInOrder`) and
  `ClosedForGood` (`ClosedIsFinal`), from one inductive invariant, `IInv`. The
  last needs in addition that a freed client has nothing queued or written
  (`FreedIsEmpty`). The first needs a part of the invariant that
  keeps the culprit: once the hive has exited, some peer's record shows what it
  did, and no later step of a peer takes that back (`Blamed`). To find the culprit at the step that exits, a read that
  is not one document must come from pieces or from two writes (`PartOfLast`,
  `Paired`, `FreshUntilAccepted`), and a write that fails must meet a peer that
  left with a pong outstanding (`LeaversOnly`).
- `EchoInOrder` names the pong of a ping by its rank, `Pings(received, i)`. Its part
  of the invariant (`Echoed`) says for each ping where the pong of that rank is: in
  `replies` if the rank is not above its length, else, while the connection is
  read, in the queue behind the pongs that left it (`Dequeued`). A dispatch gives
  the next rank to the end of the queue, `UvWrite` moves the head, and a write
  that fails for a peer that left moves the ranks of nobody else. Only the
  cardinality of a set of indices is used, no induction (`PingsAppend`).
- `HiveSystemProofs`: `SystemRunsTheServer` says that the hive with its command
  lines and C clients behaves as `IpcServer` with arbitrary peers, fairness
  included, because a process only takes steps a peer may take; so all of the
  above holds of it (`SystemKeepsServerPromises`). `SystemTypeCorrect`,
  `PongsAreMine`, `TrueIsUnheard` and `ShortArgumentsAreSafe` rest on `SystemIInv`:
  a process has sent nothing or its one request (`SentAsRequested`), its
  socket is open while it runs, the hive closes a connection it has heard only
  after its peer left (`HeardLeft`), and an outcome agrees with what the hive has
  dispatched (`OutcomeTrue`). That a pong which is read is one's own is then
  `Echoed` for a connection with a single message (`OneMessage`). Once the hive
  has exited some process stays `Guilty`; the culprit of `Blamed` becomes it at
  the step that exits, seen from the process instead of the peer.
- `SystemImplementsService`, in the same module: under the refinement mapping of
  `ImplementsService`, the initial states are `HiveService`'s and each step of the
  hive or of a process is one of its steps or none (`HiveServes`, `CliServes`).
  An answer comes only after `Serve` since a pong exists only for a dispatched ping,
  and `Serve` happens once since a process writes one message.
- `MessageCodecProofs`: `RoundTrips`, `BodiesAreNotConfused`, `TimestampsAreRead`.
  The invariant is that the wire holds the sender's three fields, each once, in
  some order. `ReadAnyOrder` follows the loop of `ReadMessage` over such a
  document with a loop invariant (`Rounds`): an early return leaves the body
  alone, a kind that was seen is the sender's, and a body is the sender's or
  unwritten, because each payload reader finds its key in no other kind's
  payload (`PayloadRead`; the pong that shares the ping's key is read under
  memory that looks like a ping, and has its kind set right afterwards).
- `SandboxProofs`: `TypeCorrect`, `CrashesAreBlamed`, `RuntimeCounted`. The
  invariant says that a sandbox that did not fail has all its pointers and its
  bytes, and that the count is at least the users less the thieves; each
  step moves at most one worker in or out of those two sets.
- `RenderArrayProofs`: `AlwaysSized`, `CutOffCorrect`, `LeftCorrect`. An object
  whose array is past `ftruncate` has its size and keeps it, since every call
  asks for the same size. A live array's name leads to its object or somebody
  unlinked it; a linked name was asked for by whoever made the object.
  `DescriptorsCorrect` and `TypeCorrect` rest on a second invariant, `DInv`: it is
  the property itself with the types it needs. That the kernel finds a free
  descriptor among 0 to the number of arrays is a counting argument
  (`LowestExists`, `FewOpen`), and the lowest number is found since `<` is well-founded on the
  naturals.
- `OrchestratorProofs`, of the pool alone: `TypeCorrect`, `CountCorrect`, `ChildrenKept`,
  `StrangersSafe`, `ArgumentsKept`. `CountIsRight` and `EveryChildHasItsSlot` need
  each other's help: that a slot's handle is idle if its pid is 0 makes spawn hit
  an idle slot, and pids of active slots differ because a pid given to a new
  child was free. Cardinalities come from the finite-set theorems. For
  `ArgumentsKept` an idle slot with a vector is one whose spawn failed, and these
  slots and the vectors lost are no more than the failures.
- `OrchestratorProofs`, of the whole: `OrchestratorTypeCorrect`, `PoolKept`,
  `PoolStepsKept`, `OrphansExplained`, `LoopCanBeDeleted`. Every step of the orchestrator is a step of the pool or
  leaves it alone (`StepsOfThePool`), so the pool's invariant is reused as it is.
  The rest is one fact about the thread: in "dispatch" no slot is in use, which
  `RunReturns` brings about and only "loop" could undo.
- `SupervisionProofs`: `SupervisionTypeCorrect`, `OneHiveReached`,
  `SuccessExplained`, `StrangersExplained`, `ReturnExplained`. `HInv` is about the
  hives alone: how many have bound the path for the files removed (`FileInv`), and
  where a hive may be that has bound it or has ended (`ServerInv`). `SInv` ties the
  handle to its target: while it is active the target's pid is ours, and another
  pid is ours only under a broken handle, which never heals.

Every invariant and every action property that a run expects to hold is proved.

Only model-checked are the liveness properties, since the prover has no rules for
fairness or ENABLED: `LeaversAreFreed`, `WritesAreRead`, `PublishedArrives`,
`StartedServesOrEnds`, `RunEndsWithItsHive`, `SlotsComeBack`, `ChildrenAreReaped`,
`ConfiguresAnswered`, and what `Service!Spec` adds to `Service!Safety` in
`ImplementsService`. The two findings are counterexamples, found by TLC.

The proofs assume what the modules' `ASSUME`s say: that the bodies are none of the
two values that stand for no body, that bounds are natural numbers, that sets of
slots, workers and arrays are finite, and the like. They are about the
models, in which a document has three fields and a process sends one
request, as the code of the repository does.

## Not modelled

- Manifest, widgets, comb: one call of a JSON library and a table of names,
  examples without state, an empty program.
- Of the supervisor, the states and `num_restarts` of a process, which nothing
  sets, and `NewSupervisedProcess`, which returns NULL on every path. Of the two
  signatures of `SupervisorSpawnHive`, the one with a definition is modelled.
- Of the orchestrator, the modes `RunOnce` and `RunNoWait`, in which every call
  repeats the commit and the creation of Vulkan objects, and the state of a Vulkan
  driver, which succeeds or ends the process.
- `WorkerRun`, which runs a loop that nothing is registered on, and the one
  native function a module may call, which prints.
- `SharedRenderCommandArrayProtect` and the accessors of a render command, which
  touch the memory of one process only.
- Memory exhaustion in the hive, and that messages, workers, renderers and arrays
  are never freed (true on every path).

## Plan

The most important behaviour came first: the hive and its command lines, then
what the orchestrator and the widgets stand on, then what runs them.

1. Done: codecs, server, command line and C client with their abstract service,
   start-up under a supervisor, process pool and orchestrator, sandbox and worker,
   render array; proofs of all their safety properties.
2. A composition of `HiveBoot` with command lines that dial between restarts.
3. Proofs: an abstract specification of the pool and of the supervised hive, as
   `HiveService` is for the server, and their safety refinement; for liveness, the
   safety lemmas that a leads-to argument would rest on, so that only the rule
   for fairness is left to TLC.
