# A verification development for kodelet-python-sdk

TLA+ modules that model the SDK's runtime, agent client and host-facing helpers,
TLC configurations that check them on small instances, and TLAPS proofs about every
one of them for every value of the constants. Paths below are relative to
`src/src/kodelet_sdk/`; line numbers refer to the commit in `src/`.

The SDK has two faces. On one side it is a library in which an *extension* is
written: `kodelet` spawns it and speaks JSON-RPC over its stdin and stdout
(`runtime.py`, `api.py`, `context.py`, `task_progress.py`). On the other it is a
client that *drives* an agent process over ACP (`agent/rpc.py`, `client.py`,
`session.py`), into which extensions written in the same Python process can be
plugged through a relay (`agent/relay.py`), which runs the dispatcher of
`runtime.py` over frames carried by ACP notifications.

## 1. Inventory

| Component | State | Operations | What is hard | What makes it correct |
|---|---|---|---|---|
| **Extension runtime** `runtime.py` | per request `_StdioRequestState` (task, `active`, `terminal_valid`, a thread lock); the id table `_request_states`; `_pending` reverse calls; `_write_lock`; two `_closed` flags | `handle_message` (request, response, `$/cancelRequest`), `_dispatch_request`, `request`/`request_persistent`/`notify`, `finish_request`, `finish_terminal`, `close` | asyncio tasks and worker threads share flags; the validity of a frame is decided in a thread; the host reuses ids; cancellation arrives at any await, in `finally` too; `close()` runs during the reader's awaits | nothing is written for a request that ended; the newest owner of an id stays cancellable; reverse calls never outlive their request; `close()` ends and leaves nothing |
| **Frame reading** `runtime.py:422-447`, `514-545` | the header lines read so far, the pipe | the read loop, `read_frame`, the parse-error reply | headers and bodies cut by the end of the pipe, bad lengths, handlers that raise inside the loop | what is taken is what was sent, whole and in order; the loop stops only for a cause |
| **ACP JSON-RPC client** `agent/rpc.py` | `pending`, process, background tasks, `_transport_failed`, `_closed`, `_close_task` | `request`, `notify`, `_read_stdout`, `_wait_for_process`, `_handle_line`, `_fail_transport`, `close` | three parties notice a dead transport; a cleanup that may fail and be retried; cancelled callers; late responses | every request settles once; cleanup is shared, and retried only after it failed |
| **Agent client** `agent/client.py` | the sets `_rpcs` and `_sessions` | `create_session`, `Session.close`, `close`, `_delete_session` | creation that fails half-way, close during it, copies of the sets used after an await | a process is owned until its cleanup is confirmed |
| **Inline relay** `agent/relay.py` | session id, channels, retired channels, UI tasks | `bind_session`, `accept`, `_retire`, `close`; per channel `_run`, `_send`, `_handle_ui`, `close` | channels start before the session is known; a channel fails while closing; UI callbacks inside reverse calls | a retired channel never starts again; every channel is of the session the program got; close joins everything |
| **Agent session** `agent/session.py` | `_running`, `_closed`, the events of the run, the compaction markers seen | `run_and_wait`, `steer`, `close`, `_handle_session_update`, `_emit` | updates around the end of a run; an abandoned turn that goes on; steering against the end; listeners that raise inside the reader | one run at a time; a run shows every update of its turn, in order; every run ends when its connection does |
| **Task progress** `task_progress.py` | phase, three bounded activity lists, a dirty flag, the publish task | `start`, `start_activity`, `update`, `finish_activity`, `finish`, `flush` | one publisher at a time, changes while it publishes, cancelled waiters, reports after `finish` | revisions only increase; every change is shown in the end; nothing reported is lost from lists and counters |
| **UI surfaces** `context.py:1020-1345` | the registry of handles by id, sequence counter, queued frame, frame task, close lock, pending events, handlers | `open_surface`, `update`, `close`, `on_input`, `on_resize`, the host's closing and events, disconnect | a frame in flight against a close, a rejected close, a stale host notice, events around the opening | one handle owns an id; nothing is sent after a close; a handler sees every event once, in order |
| **Leases** `context.py:252-424`, `1595-1625` | the browser's release task, a background lease's flag | `acquire`, `release`, `acquire_background_task`, `close` | several releasers, failure, cancellation, retry, the end of the handler | a call that returned means the host released; concurrent calls share a request |
| **Events** `api.py:775-790`, `926-1078`, `_utils.py:45-52` | the handlers, the answer being built | `on`, `initialize`, `handle_event` | order, blocking, values changed in place, hints merged | the fold of the handlers' answers in priority order; a subscription covers each handler |
| **Registration** `api.py:398-720`, `842-924`, `1144-1283` | tables of tools, commands, aliases, shortcuts, profiles | `register_*`, `initialize`, `execute_*` | names and chords normalized twice; a refused alias; a `TypeError` that looks like a wrong signature | what was registered is reached under the names that were told, and run once; the exceptions are stated |
| Schemas, context helpers, process transport, templates, types | none, or the operating system's | construction and wrapping | nothing concurrent of their own | not modelled (section 8) |

How they interact: the dispatcher creates one task per host request, which runs
a handler of `api.py` with a context whose calls to the host go through a client
scoped to the request. A context's surfaces, leases and task progress send
through that same client, or through its *persistent* form when they outlive the
request. On the other side the ACP client's `_handle_line` calls the session and
the relay back; the relay feeds frames to a dispatcher of its own and carries
the dispatcher's frames back as ACP notifications.

The hazards of each component, with the line where each bites and the
properties that cover it, are the `hazards` of `PROJECT.json`.

## 2. Modules

| Module | Contents |
|---|---|
| `RequestContract` | abstract: what the host can rely on about one request id |
| `ExtensionRuntime` | `runtime.py`: dispatcher, reverse-RPC client, write threads, `close()`; its properties and its refinement mapping onto `RequestContract` |
| `MCExtensionRuntime` | symmetry and a state constraint for TLC |
| `ExtensionRuntime_proofs` | its inductive invariant, what the end of a request and of the connection leaves behind, and the proof that it implements `RequestContract` |
| `SharedCleanup` | abstract: a cleanup that several callers share and may retry after a failure |
| `AcpRpc` | `agent/rpc.py`: requests, write tasks, readers, transport failure and `close()`; its properties and its refinement mapping onto `SharedCleanup` |
| `AcpRpc_proofs` | inductive invariant, theorems and the refinement proof |
| `FrameReading` | the read loop of `run_stdio_server` with `read_frame` |
| `AgentClient` | `agent/client.py` and `Session.close`: ownership of connections; each connection is an instance of `SharedCleanup` |
| `AgentClient_proofs` | its inductive invariant, theorems and the proof that it uses `SharedCleanup` |
| `AgentSession` | `agent/session.py`: runs, streamed updates, steering, the end of the connection |
| `AgentSession_proofs` | its inductive invariant, about what is under way in the two streams and in the lists, and theorems |
| `ExtensionRelay` | `agent/relay.py`: channels, their worker, tool and UI tasks, disposal and close |
| `ExtensionRelay_proofs` | its inductive invariant and theorems |
| `TaskProgress` | `task_progress.py`: reports, the publish task, `start`, `flush`, `finish` |
| `TaskProgress_proofs` | its two inductive invariants, of the lists and of what is published, and theorems |
| `UISurface` | `context.py`: the handles of one surface id, frames, close, the host |
| `SurfaceEvents` | `context.py`: a handle's handlers and the host's events |
| `PersistentSurface` | composes the two: the events of one handle with the life of the surfaces of its id, on one read loop |
| `PersistentSurface_proofs` | the inductive invariants of the surfaces and of the events, and the theorems about both sides |
| `Leases` | `context.py`: the browser connection (refines `SharedCleanup`) and the background-task lease |
| `EventAggregation` | `api.py`: handlers of events, subscriptions, the fold of `handle_event` |
| `ExtensionRegistry` | `api.py`: registration and dispatch of tools, commands, shortcuts |
| `Extension` | composes the two: one `initialize()` tells the host of both |
| `Extension_proofs` | what the folds compute; the inductive invariants of `Extension`, `FrameReading` and `Leases`, three parts of an extension's process that share no state, their theorems, and the proof that a release is a `SharedCleanup` |
| `MC...` | for each detailed or composing module, the instance for TLC: record-valued constants, symmetry, state constraints |

Interaction is modelled where state is shared (`PersistentSurface`, `Extension`) and
by abstraction where it is not: `AcpRpc` proves that a connection's cleanup is
`SharedCleanup`, and `AgentClient` is built on exactly that specification, with a proof
that it uses it as such; `ExtensionRelay` and `Leases` keep of `ExtensionRuntime` that
closing a dispatcher cancels its handlers and waits for them, and that scoped requests
are rejected when their handler ends, which `CloseLeavesNothing`, `CloseCompletes` and
`ScopedCallsSettle` say of it.

An invariant named `...Inv` is a module's type invariant together with the named
invariants defined just above it; each has its comment. A run checks them in one
piece because they speak of one state.

## 3. ExtensionRuntime

### Actions and the code

Code between two awaits of the event loop is one action. Work handed to
`asyncio.to_thread` is an action of its own, so the loop may run between the
hand-over, the thread's work, and the await's return.

A *generation* is one `_StdioRequestState`: each acceptance of a host id is a new
one. A *sender* is one execution of `send()`: the response of a generation, a
reverse call, or a notification. `scope[s]` is the generation whose validity
`_write_and_flush_for_request` checks for it; `caller[s]` is the generation whose
handler awaits it, so that cancelling that handler's task interrupts it.

| Actions | Code |
|---|---|
| `Accept`, `BeginCancel`, `BeginReuse`, `HostResponds` | `handle_message` up to its first await, `runtime.py:314-353`, `232-258` |
| `MarkCancelled`, `CancelTask`, `MarkFinished`, `ReaderFinishes...` | `state.cancel()` (thread, then `task.cancel()`) and `finish_request()` (thread, then the loop over `_pending`), run by the reader and by the closer; after it the reuse path looks at `_closed` again, `338-353` |
| `Close`, `CloserStarts`, `CloserRejects`, `CloserGathers` | `close()`/`_close()`, `376-394`, with the client's `close()`, `202-214` |
| `StartTask`, `HandlerReturns`, `HandlerRaisesCancelled`, `MarkRequestFinished`, `ResumeFinished`, `ResumeCleaned`, `MarkTerminalFinished`, `ResumeTerminated` | `_dispatch_request`, `450-476`, await by await |
| `DeliverCancel` | `CancelledError` at whichever await the task is: before the coroutine started (no `finally` runs), in the handler (which may swallow it), in `finish_request` or `send`, or in the `finally` block, whose rest is skipped |
| `RequestDone` | the done callback, `355-358` |
| `StartCall`, `StartNotice`, `AcquireLock`, `StartWrite`, `EndWrite`, `LeaveWrite`, `CallReturns`, `AbandonSend` | `_request`, `notify`, `send` and the write thread, `93-179`, `548-586` |

The guard `_write_guard` is a thread lock held during a write, so it is not a
variable: it is taken exactly while a write scoped to the generation is
`"writing"` (`GuardFree`).

### Abstractions

* The asyncio lock wakes any waiter, not the first. The order of
  `list(dict.values())` in `_close` is arbitrary.
* The cancellation of a reverse call and its `finally` are one step.
* A write that fails is one that raises after `"written"`; `"void"` is a write
  that was refused under the guard or dropped before a thread began it.
* The host answers only frames it was sent; a response whose entry is gone, or
  with an unknown id, changes nothing and is left out.
* The thread pool always has a free thread. (Python's default pool is bounded;
  with fewer threads than concurrent waits on one guard, writes only wait
  longer: a thread that holds a guard needs no other thread.)
* A handler may return, raise a `CancelledError` of its own, or swallow a
  cancellation. It awaits at most one reverse call at a time; calls it left
  running in background tasks are calls with `caller = None`.
* `close()` may run while the reader is between two awaits. `run_stdio_server`
  itself closes after its read loop, but the relay's channels do not, and the
  dispatcher's second look at `_closed` (`345`) is there for it.
* Not in this module: the bytes of frames and the parse-error reply (`FrameReading`),
  the routing of notifications (`PersistentSurface`), and the raw `send_message`
  transport that the relay's channels use in place of a writer.

### What is checked

A run's full name is `ExtensionRuntime_<run>`, and so is its configuration's.

| Run | Instance | Properties | Shows |
|---|---|---|---|
| `reuse` | 1 id, 2 generations, 1 call | `TypeOK`, `SupersededIsSilent`, `LatestIsReachable`, `NoOrphanCalls`, `CloseLeavesNothing`, `ImplementsContract` | cancellations, a reuse of the id and a close against handlers, done callbacks and threads, and the refinement below |
| `settle` | 1 generation, 1 call, 1 notice, fairness | `ScopedCallsSettle`, `CloseCompletes`, `ResultIsSent` | nothing hangs, although the host may never answer |

Bounds. The only bounds are the sets `Ids`, `Generations`, `Calls` and `Notices`:
a behaviour accepts at most `|Generations|` requests and starts at most `|Calls|`
reverse calls and `|Notices|` notifications. Two generations are what a reuse of
an id needs, one call per generation is what can be orphaned or written late, and
one sender more than the lock admits is what can overlap. In `reuse`, where a reverse
call was made, `close()` comes before a second generation is accepted, also while the
reader is about to accept it (`CallOrClose`): after that, a reuse, a call and a close
together have about ten million states. That combination is covered by the proofs, which
have no such constraint. `settle` has the response compete with
a call or with a notice (`CallOrNotice`). Runs turn deadlock checking off because a
connection whose budget of requests is used up rightly has nothing left to do.

`CloseCompletes` says it of the reader too: every await of `handle_message` ends,
with or without a close.

Fairness (`FairSpec`). Weak fairness of: the event loop, which runs what is ready;
the thread pool; the end of a write, so the host drains its pipe; a handler that
awaits none of its own calls, which returns. Nothing is assumed of the host's
answers, requests or cancellations, so the liveness properties say what the code
guarantees alone: `CloseCompletes` holds with every handler stuck in a call
because cancelling and rejecting release it.

### The contract

`RequestContract` is the host's view of an id: a generation is open from
acceptance until it is answered or closed without an answer, an id has at most
one open generation, a generation is answered at most once, and a frame that
names an id as its parent leaves only while the generation that produced it is
open. The refinement maps a generation to *answered* once a thread has begun to
write its response, to *closed* once both of its flags are false, and a call to
the generation it was sent for once a thread has begun to write it.

## 4. AcpRpc

### Actions and the code

| Actions | Code (`agent/rpc.py`) |
|---|---|
| `Request`, `CancelCaller`, `CallerResumes` | `request`: registration, the future, the write task, and the `finally` that forgets the entry and cancels the write |
| `Notify`, `FrameArrives` | a message written by a task of its own: `notify`, and the answer `_send` gives to a relayed frame |
| `RunWrite`, `Drained` | `_write`: the look at `_closed`, `stdin.write`, `drain()`, and the transport failure when either raises |
| `ResponseArrives`, `LineArrives`, `UnsupportedArrives`, `ReplyDrained`, `ReadingFails` | `_read_stdout` with `_handle_line`, one line per step; the error reply to an unsupported request is written by the reader itself |
| `StderrEnds`, `ExitNoticed`, `WaitingFails`, `ProcessExits` | `_read_stderr`, `_wait_for_process`, and the process |
| `Close`, `CancelCloser` | `close`: mark closed, reject, start or join `_close_task` behind a shield |
| `TerminateWaited`, `KillWaited`, `CleanupEnds` | `_close_process`: the two timed waits, then the relay's close and the cancellation of every task in its `finally` |
| `FailTransport`, `RejectPending` | `_fail_transport`, `_reject_pending`, inside whichever action meets the failure |

`wire` is the set of messages handed to `stdin.write`; `confirmed` is whether
`_close_process` reaches its end without an exception to propagate.

### Abstractions

* `task.cancel()` of a write task or a reader is immediate. None of them catches
  `CancelledError` or changes state on the way out.
* A future is unsettled, answered, rejected or cancelled. Values, error codes and
  the text of the terminal error are left out. A response to an id that is not
  registered, and any other line that settles nothing, is `LineArrives`.
* The agent answers only what was written to it, and may exit at any moment, so
  the effect of `terminate()` and `kill()` is that the exit may or may not come
  before the timeout.
* Closing the relay is one await that ends; `ExtensionRelay` has its states, and
  `ChannelsEnd` says that it ends.
* A process without pipes fails the transport in the constructor, which is the
  second half of `Init`.
* The checks that `initialize`, `create_session`, `load_session`, `prompt` and
  `steer_session` make on capabilities and results are sequential: `AgentClient`
  and `AgentSession` have what follows from their answers.

### What is checked

`AcpRpc_settle`: 1 request, 1 notice, 1 reply, 2 callers of `close()`, with fairness;
`TypeOK`, `CloseIsComplete`, `ImplementsSharedCleanup`, `RequestsEnd`,
`CleanupCompletes`. It shows a failed cleanup, cancelled callers of `close()` and the
retry, and that nothing hangs, although the agent never answers, reads or exits.

Bounds. One message of each kind suffices since they meet only through the transport
and never through each other; what two requests could do to one another is in the
proofs. Two callers of `close()` are a first attempt and a retry, or two that share
one. A process, its reader and its cleanup exist once in the code too.

Fairness (`FairSpec`): the event loop resumes a settled caller, starts a created
write task and notices the exit of the process; the timeouts of the cleanup
expire; the relay's close ends. `drain()` is not fair: an agent that does not
read its stdin keeps a write waiting for good, and no property relies on it.

## 5. The other modules

In all of them the code between two awaits is one action, and an action named like
a method is that method up to its first await.

### FrameReading

| Actions | Code (`runtime.py`) |
|---|---|
| `Write`, `Deliver`, `HostCloses` | the host and the pipe, which delivers what was written piece by piece and may end anywhere |
| `ReadLine`, `EndOfPipe`, `ReadPayload` | `read_frame`, `524-545`: header lines up to a blank one, `_parse_content_length` (`514-521`: the first length that is not negative counts), the payload or the end of the pipe |
| `Handle`, `Reply` | `run_stdio_server`, `426-445`: a payload that is an object goes to the dispatcher, one that is no JSON is answered with a parse error, any other is skipped |

A unit is one header line, one blank line or one piece of payload; a Content-Length
counts pieces. `_try_read_frame` is called by nothing and is left out.

Run `FrameReading_settle`: up to 3 frames out of ten, five of them well formed (with
other lines, negative and repeated lengths, a payload over several lines with a blank one and
one like a header, no JSON, no object, empty) and five not. `ReaderInv`: what is taken
is what was sent, whole and in order; no complete frame is lost at the end of the pipe;
the loop stops only for a cause. `PipeIsRead`: the loop ends with the pipe, and takes
what was written before. Three frames show what a bad one does to its neighbours on
both sides. Fairness: the loop runs, and the pipe delivers what was written.

### AgentClient

| Actions | Code |
|---|---|
| `Create`, `Spawned`, `SpawnFails`, `Answered`, `Created`, `CreateFails`, `CreateCleaned` | `create_session` await by await, `client.py:80-150`: the connection is owned as soon as it exists; any exception, a cancellation included, closes it; it is discarded only when that returned |
| `UserCloses`, `SessionClosed` | `Session.close`, `session.py:168-177`, `_delete_session`, `client.py:188-190` |
| `Close`, `ChildStarts`, `RpcClosed`, `Gathered`, `GatherFails`, `CancelClose`, `ChildCancelled` | `Client.close`, `157-167`, and the tasks that `gather` makes |
| `TransportFails`, `CleanupEnds`, `CancelWaiter` | the connection, as `SharedCleanup` has it (`rpc.py:183-243`) |

Run `AgentClient_settle`: two connections, one program-side `Session.close`, one
`Client.close` with its four children. `ClientInv`: a connection whose creation failed
is being cleaned up or was. `OwnershipIsKept`: a connection leaves the sets only when
its cleanup is confirmed; a `close()` that returns confirmed all it asked; each asks
all that are owned then. `UsesSharedCleanup`: what the callers do with a connection is
`SharedCleanup`. `ClosesEnd`: closes and failed creations end. Two connections are what
a partial failure of `gather` needs; the single closer is retried by nobody in the run,
since a retry begins with the same sets. Fairness: the event loop, and that an attempt
of cleanup ends, which `CleanupCompletes` says of `AcpRpc`; nothing is assumed of
spawning or of the agent's answers. What a spawn that is cancelled half way leaves
behind is the spawner's.

### AgentSession

| Actions | Code (`agent/session.py`) |
|---|---|
| `Start`, `StartRaises` | `run_and_wait` up to the prompt, `86-121` |
| `Return`, `ReturnRaises`, `Fail`, `Cancel`, `Cancelled` | its end, `121-149`: the last events, the error paths, `session/cancel`, the `finally` |
| `Update`, `UpdateRaises`, `Answered` | `_handle_session_update` for the handler of the run, `195-269`, in the reader of the connection; an exception of a listener ends that reader |
| `Steer` | `steer`, `156-166` |
| `ConnectionEnds` | `close`, `168-174`, or a failure of the transport |
| `AgentReads`, `AgentSends`, `AgentAnswers` | the agent: it reads in order, streams updates of its open turns in any order, answers when it likes |

An update is a text, a thought, a snapshot of a tool, or a compaction marker; its
content is left out. Which listeners are registered is left out: one may raise or not.

Run `AgentSession_settle`: two runs, one steering, two updates, one exception of a
listener. Two runs are needed for an abandoned turn to reach the next one; two updates
for an order, a replaced snapshot or a repeated marker; the second comes only where
nobody steers and nothing raises (`OneThing`), since these do not meet. `SessionInv`
holds the properties of the event list and of the flag; `UpdatesReachTheirRun`: a run
that returned shows every update of its turn in order; `SteersTheRunMeant`: a steering
message gets into the run in progress when it was sent, or into a turn abandoned
before; `RunsEnd`: runs end with the connection, and a cancelled run tells the agent.
Fairness: the event loop resumes a run, both ends read their stream; nothing is assumed
of the agent's answers.

### ExtensionRelay

| Actions | Code (`agent/relay.py`) |
|---|---|
| `AskSession`, `SessionAnswered` | `bind_session`, `46-51`, around `session/new` (`rpc.py:100-124`) |
| `AcceptInitialize`, `AcceptCall`, `AcceptClose` | `accept`, `53-96` |
| `WorkerStarts`, `WorkerTakes`, `WorkerEnds` | the channel's `_run`, `149-167` |
| `ToolSends`, `FrameAcked`, `FrameFails`, `ToolAsksUI`, `UIAnswers`, `UIUnlinked`, `UICleaned`, `ToolCancelled`, `ToolCleaned` | the dispatcher's task in the channel, `_send` and `_handle_ui`, `181-228` |
| `Retire`, `Fails`, `DisposeStarts`, `CancelTool`, `DispatcherClosed`, `ChannelClosed`, `ToldHost` | `_retire`, `_dispose`, the channel's `close`, `98-115`, `230-243` |
| `RpcCloses`, `CloseRelay`, `RelayClosed` | the connection and the relay's `close`, `117-125` |

Run `ExtensionRelay_settle`: two channels, two session ids of which the program gets the
first unless a runner names another. `RelayInv`: a channel starts once, the host is told of a
failure at most once and never of what it closed itself. `ChannelsAreOfTheSession`:
channels that initialized early are of the session the program got.
`NothingOutlivesTheChannel`: a disposed channel has no worker, tool or interaction left.
`ChannelsEnd`: the close of the relay ends although interaction and tool wait for one
another, and the host learns of failures. Two channels are what closing one while the
other fails needs; both are used only with the first session (`OneSession`). Fairness:
the event loop; a cancelled tool ends, and so does a UI callback whose tool ended; the
host acknowledges the notice or the connection ends. No user has to answer.

### TaskProgress

| Actions | Code (`task_progress.py`) |
|---|---|
| `StartActivity`, `UpdateActivity`, `FinishActivity`, `MarkResponding`, `Attach` | the reports, `278-365`, by the program or by the attached session's listeners, `453-511`; each calls `_changed`, `528-539` |
| `PublisherStarts`, `PublisherWakes`, `UpdateEnds` | `_publish`, `541-564`: the interval, the flag reset before the snapshot, the update, another round |
| `Start`, `Flush`, `Finish`, `Resume` | `272-276`, `367-408`: each loops while a publish task exists |
| `CancelCaller`, `CancelWoken` | a cancellation of a waiting call reaches the publish task it awaits |

Run `TaskProgress_settle`: two activities, two callers of which one may be cancelled, 3
revisions, lists of 2 and 1. `ProgressInv`: nothing started is ever lost from lists and
counters. `SnapshotsKeepTheirOrder`: revisions only increase, a flush returns after what
it waited for, nothing is published after `finish()`. `ChangesAreShown`: every change is
published and calls end, unless a caller was cancelled. Lists of 2 and 1 overflow with
the 3 changes; a third activity would only repeat an overflow. Fairness: the event loop,
the interval, and that `ctx.update` ends: it is a request scoped to the tool's call,
which an answer or the end of that call settles (`ScopedCallsSettle`). Run `TaskProgress_dead`: section 6.

### UISurface, SurfaceEvents and PersistentSurface

| Actions | Code (`context.py`) |
|---|---|
| `Open`, `OpenAnswered`, `CancelOpen` | `open_surface`, `1020-1073` |
| `Update`, `StartFrame`, `RunFrame`, `FrameSent` | `update` and the frame task, `1112-1118`, `1226-1277`: at most one frame in flight, the newest lines next |
| `Close`, `LockClose`, `CloseAnswered`, `CancelClose` | `close` under its lock, `1120-1151` |
| `ClosedNotice`, `Disconnect` | the host's notice, `1279-1296`, and the end of the connection, `1400-1418` |
| `HostReads`, `HostCloses` | the host: accepts, replaces or refuses what it reads, in order |
| `Emit`, `Route`, `Subscribe`, `Unsubscribe`, `Activate`, `Close` of `SurfaceEvents` | events, `1309-1340`, `1153-1190`, `1206-1212` |

`SurfaceEvents` has a `phase` of its own handle; `PersistentSurface` instantiates it with the
phase that `UISurface` gives one watched handle (`EventPhase`), lets a step of the
surfaces activate or clear its handlers (`Joint`), routes events to whichever handle owns
the id (`Routed`), and has both share the read loop, which a raising handler ends.

Run `PersistentSurface_settle`: two openings of one id, two calls of `close()`, two
updates, two host events, two input handlers and one for sizes. `SurfaceInv`: the host,
the registry and the handles agree on the present opening. `EventsAreSeen`: handlers see
each event once, in order, also from before they subscribed. `QuietAfterClose`: no frame
and no event after a close. `UpdatesAreSent`: lines are sent, or newer ones, unless the
surface closes. Events meet neither frames, closes by the program nor a second handle
in one behaviour, and two handles share one update and one close (`OneThing`): larger
mixes are products of these. Fairness: the event loop and the writer, and that messages of
the host are read while the loop runs; nothing of the host's answers.

Widgets and transcript entries send one request each and are not in it, nor are dialogs.
A focus event kept for a late subscriber is handed to it even after a blur nobody took;
no document says which it should see.

### Leases

| Actions | Code (`context.py`) |
|---|---|
| `Acquire`, `HostLeases`, `Acquired` | the browser connection, `355-375` |
| `Release`, `HostReleases`, `Released`, `ReleaseDone`, `CancelReleaser` | `release`, `299-318`: one shared task behind a shield, forgotten when it failed |
| `AcquireTask`, `TaskAcquired`, `Close`, `HostEndsLease`, `Closes`, `CancelCloser` | `acquire_background_task`, `1604-1625`, and the lease's `close`, `397-413` |
| `CancelHandler`, `HandlerEnds` | the request that holds them, through `ScopedCallsSettle` |

Run `Leases_settle`: three releasers, two closers, three requests of release.
`LeaseInv`: a call that returned means the host released. `RepeatedCallsAreHarmless`:
`release()` refines `SharedCleanup`, the host is not asked again after a close returned,
and nobody waits for ever. Three releasers are a failure, one who shares it, and a retry.
Fairness: a handler ends, at the latest when its request is cancelled, and the event
loop goes on.

### EventAggregation, ExtensionRegistry and Extension

`EventAggregation` has `On` (`api.py:775-790`), `Subscriptions` and `MergeTimeout`
(`1048-1078`, `_utils.py:45-52`), and `HandleEvent`, `Edit`, `Assign`, `Returns`, `Raises`,
`Answer` (`942-997`): between two handlers, one may change a value in place, assign a
field of the event, or register another handler. A value is its identity: who made it,
whether it carries machine data, who changed it since. `ExtensionRegistry` has one action
per registration (`453-703`) and call (`842-924`), with `_call_with_input_and_context`
(`1144-1168`) as three steps, and the normalization of names and chords as functions
(`_utils.py:35-36`, `1217-1283`). `Extension` lets one `initialize()` tell the host of
both, and calls come while an event is being handled.

Run `Extension_calls`: three handlers of two events, or two commands with aliases, or
tools and profiles, or two shortcuts (`Mixes`; the kinds share nothing but
`initialize()`). `AnswerInv` compares each answer with a definition of the fold over the
history of what the handlers returned, and what later handlers were shown with it.
`SubscriptionsCoverHandlers`: a merged hint shortens no handler's.
`RegisteredIsReached`: the tables agree, a name that was told reaches its command, every
spelling of a chord its shortcut, and a body runs once with what its handler takes. The
properties state the exceptions that the code makes (section 6): a name with a blank after
its slash is reached only as it was told (`Spellings`) and an alias that is only a slash not
at all (`AdvertisedNamesDispatch`); a body whose own `TypeError` looks like one of the call
runs a second time, and without the parameters that have defaults
(`RunsAgainOnlyAfterTypeError`, `Shortened`). The run has names in all three forms, the empty
one, and handlers with and without defaults, so that each exception is met. Three handlers
are an order, an equal priority and a block; two commands are a clash. Three handlers meet in an event only when
all are of it, events are handled without hints of timeouts, and one handler changes
values in place; two commands have two aliases together and plain handlers, and a command
with aliases is called after another was registered (`OneThing`).
Safety only: handlers are the program's.

## 6. What the code does that its documents do not say

`TaskProgress_dead` is a run with a counterexample (`findings` in `PROJECT.json`):
`start()` schedules the publish task and awaits it. A cancellation of the caller that is
already in the event loop's queue cancels that task before its first step, so the
`finally` that resets `_publish_task` (`task_progress.py:562-564`) never runs. Every later
change finds a task and schedules none, and every later `flush()` or `finish()` raises
`CancelledError`: nothing is published any more, although the class "publish[es] bounded
accumulated progress" (`task_progress.py:229`).

The models reach the following as well. The properties above are stated so that they
hold of the code as it is, and say where they make room for it.

* `runtime.py:100-104`: `send()` writes "without interleaving concurrent writes", but a
  caller cancelled during its write releases the lock while the thread writes on, and
  the next sender's thread enters the writer. With `sys.stdout.buffer`, whose `write` is
  itself locked, whole writes still do not mix; the `BinaryWriter` protocol promises no
  such thing of another writer.
* `agent/rpc.py:387-391`: the reader "must remain available", but awaits `drain()` for the
  answer to a request it does not support; while the agent does not read, responses
  that lie ready are not read either.
* `agent/client.py:160-167`: `close()` clears both sets after its await; a connection
  that a `create_session()` added meanwhile is dropped, although its process runs and
  nobody asked it to close. `DropsOnlyConfirmed` excepts it.
* `agent/session.py:99-117`: a listener that raises on `agent.start` or `user.message`
  leaves `_running` set and the handler subscribed; every later run is refused.
  `RefusesOnlyWhileRunning` excepts it.
* `task_progress.py:404`: cancelling one call that waits cancels the publication, and
  with it every other call that waits; the snapshot is marked clean and lost.
  `ChangesAreShown` and `FlushedIsShown` except it.
* `api.py:1151-1163`: of `def execute(input, ctx=None)` only the parameter without a
  default is counted. A `TypeError` of its body makes the code call it again with the
  input alone, against the comment "avoid hiding TypeErrors raised from inside the
  handler body when the signature actually accepts two args" (`1152-1153`). A handler with
  one parameter that has a default gets no input. `RunsAgainOnlyAfterTypeError` and
  `SmallHandlersRun` except both.
* `_utils.py:35-36`, `api.py:605-611`: "/ review" is registered and told to the host as
  " review", and looked up as "review"; only "/ review" finds it, although "leading slashes are
  accepted and normalized away for dispatch" (`api.py:584-585`). An alias that is only a
  slash is told but not registered. `AdvertisedNamesDispatch` excepts both.
* `context.py:1324`, `runtime.py:199`: an exception of a surface handler leaves
  `handle_message` and ends the read loop, and with it every request. `EventsAreSeen` and
  `ReaderInv` speak of what comes before it.

## 7. What is proved

All theorems hold for every value of the constants. What is assumed of them is named
beside their declaration: that kinds of messages, or of callers, are disjoint, that
frames are made of lines (`FramesAssumption`), that priorities and hints are numbers and
a result names fields that exist (`EventAssumption`), that a name is written in one of
three ways (`RegistryAssumption`), that a limit is a positive number (`ProgressAssumption`, `LeasesAssumption`), that the watched
handle is one of the handles, that a session's bounds are numbers and its updates of the
kinds that the code knows (`SessionAssumption`). TLC evaluates the assumptions on every run.

| Theorem | Says |
|---|---|
| `ExtensionRuntime_proofs!TypeCorrect` | `Spec => []TypeOK` |
| `...!WritesLicensed` | `Spec => []WritesAreLicensed` |
| `...!LatestReachable` | `Spec => []LatestIsReachable` |
| `...!SupersededSilent` | `Spec => []SupersededIsSilent` |
| `...!RefinesContract` | `Spec => ImplementsContract` |
| `...!CallsNotOrphaned` | `Spec => []NoOrphanCalls` |
| `...!NothingLeft` | `Spec => []CloseLeavesNothing` |
| `AcpRpc_proofs!TypeCorrect` | `Spec => []TypeOK` |
| `...!WaitsWatched` | `Spec => []EveryWaitIsWatched` |
| `...!Settled` | `Spec => SettledOnce` |
| `...!SilentClosed` | `Spec => SilentAfterClose` |
| `...!CloseComplete` | `Spec => []CloseIsComplete` |
| `...!RefinesSharedCleanup` | `Spec => ImplementsSharedCleanup` |
| `AgentClient_proofs!AlwaysClientInv` | `Spec => []ClientInv` |
| `...!OwnershipKept` | `Spec => OwnershipIsKept` |
| `...!ConnectionsAreShared` | `Spec => UsesSharedCleanup` |
| `ExtensionRelay_proofs!RelayInvariant` | `Spec => []RelayInv` |
| `...!ChannelsCarryTheSession` | `Spec => []ChannelsAreOfTheSession` |
| `...!NothingOutlives` | `Spec => []NothingOutlivesTheChannel` |
| `TaskProgress_proofs!ProgressInvariant` | `Spec => []ProgressInv` |
| `...!SnapshotsInOrder` | `Spec => SnapshotsKeepTheirOrder` |
| `PersistentSurface_proofs!SurfaceInvariant` | `SurfaceSpec => []SurfaceInv` |
| `...!EventsAreSeenAlways` | `SurfaceSpec => []EventsAreSeen` |
| `...!QuietAfterCloseAlways` | `SurfaceSpec => QuietAfterClose` |
| `Extension_proofs!AnswersAreFolds` | `ExtensionSpec => []AnswerInv` |
| `...!SubscriptionsBound` | `ExtensionSpec => []SubscriptionsCoverHandlers` |
| `...!RegisteredAreReached` | `ExtensionSpec => []RegisteredIsReached` |
| `...!FramesAreRead` | `ReaderSpec => []ReaderInv` |
| `...!LeaseInvariant` | `Spec => []LeaseInv` |
| `...!NothingSent` | `Spec => [][NothingSentAfterClose]_vars` |
| `...!ReleaseIsShared` | `Spec => Shared!Spec` |
| `AgentSession_proofs!SessionIsSafe` | `Spec => []SessionInv` |
| `...!EveryUpdateReachesItsRun` | `Spec => []UpdatesReachTheirRun` |
| `...!SteeringIsOfTheRunMeant` | `Spec => []SteersTheRunMeant` |

### ExtensionRuntime

The invariants are not inductive by themselves. The inductive invariant `IInv` is
`TypeOK /\ RequestsInv /\ SendsInv`.

* `RequestsInv` ties the table of ids to the generations: what is registered is
  the newest generation of its id, the newest one is registered until its done
  callback has run, an older one is silenced, and the reader's and the closer's
  positions say how far the invalidation of their target is. That an older
  generation is silenced follows from the order in `handle_message`: the target of
  a reuse has had both flags cleared before the table takes the new generation.
* `SendsInv` ties a write in progress to its guard: a job that is `"writing"` is
  licensed. Starting a write checks the flags under the guard; the actions that
  clear a flag wait for the guard, so they meet no write they would unlicense.

`SupersededSilent` combines the two: an older generation is silenced, a silenced
generation licenses no write. Each action is handled once: `StepType`,
`StepRequests` and `StepSends` have a step per action and rest on small lemmas
about the shared helpers (`Leave`, `NewGeneration`, the closer's frames).

The refinement needs two facts more. `StagesInv`: a task that has not come to its
response has no send of its own, one that has has lowered `active`, and a thread
has a sender's write only after the sender got the lock. `NoticesUnscoped`: no
notification is written under a generation's guard. Then every step is a stutter
(`Stutter`), lowers flags of one generation (`LoweringCloses`), begins a write
(`WriteSends`) or registers a generation (`NewGenerationAccepts`). For the last,
whatever was accepted under the id before is silenced: by `SupersededSilenced` if
it is not the newest, else by the position of the reader, or because its done
callback has run.

`NoOrphanCalls` speaks of a task that is over; what is inductive is `CoveredInv`,
about every generation that was cancelled or whose task is past its second
`finish_request`: a worker is between its cancellation and its rejection, or
`active` is down and none of its calls is registered. It stays so because only
an active generation lends its scope to a new call. That what is pending belongs to a call
that waits is inductive by itself (`WaitingInv`). `CloseLeavesNothing` follows
from `ClosedInv`, one conjunct per position of the closer, with `FlagsOK` for
the tasks that are over and `StagesInv` for the generations never accepted.

### AcpRpc

`IInv` is `TypeOK /\ OpenInv /\ WaitInv /\ CleanupInv`. `OpenInv` says that the
client is open exactly until a cleanup begins, that the reader and the exit
watcher run while it is open, and that nothing is registered after; `WaitInv`
that a waiting caller is registered with its write begun or about to;
`CleanupInv` what the end of the cleanup has established. `EveryWaitIsWatched`
needs the first two, since an action that ends a task must also have closed the
client. The refinement maps each step to a step of `SharedCleanup` or a stutter
and uses only the type invariant.

### AgentClient

`IInv` is `ClientInv` with four parts. `BeliefInv`: who waits has an attempt to wait
for, and who was told of a success was told the truth; this is what makes dropping a
connection after `await rpc.close()` right. `NotThere`, `CreatorAsks` and `ChildrenAsk`
say who cannot have asked yet, so that nobody asks twice. `OwnershipKept` follows from
`BeliefInv` and from which steps drop a connection (`WhoDrops`) or end a close
(`WhoCloses`). For `ConnectionsAreShared` every step is, for each connection, one of five
things (`Moves`): the failure, the end of an attempt, an `Ask`, a waiter that leaves, or
a step that the connection cannot tell (`Quiet`); each has its lemma.

### ExtensionRelay

`IInv` is `TypeOK` with `BindInv`, `ChannelInv`, `StartInv`, `ToldInv` and `TaskInv`.
`BindInv`: the first channel binds the relay to a session, and creation returns that one
or binds its own; so a channel is of the session that was bound. That no channel restarts
is inductive only with the two sets: once `channels` has lost a key `retired` keeps it, until
the relay itself is closed (`ChannelInv`). `ToldInv` adds when the notice is given, and that
`hostClosed` has already cleared it. `TaskInv` says, per stage of a disposal, what has been stopped for
good: nothing starts a tool or an interaction once the worker is cancelled, and only the
tool starts an interaction. `StartInv` keeps a key that has no channel out of all this.

### TaskProgress

Two invariants that do not need each other. `CountInv`: the sequence number counts the
running activities and both histories together, counters and visible lists follow the
histories, and no number is in two of the three. Finishing removes one element wherever
it stands (`RemoveEffect`); that the visible list can be cut before more is appended to
it is `NewestOfConcat`. The steps are `StartLists`, `FinishLists` and `TerminateLists`, the
last two through `EndedEffect`, `EndedCounts` and `EndedApart`. `PublishInv`: what is dirty
is newer than what was sent, what is clean while the task runs has been sent, a
caller that waits has a publish task that can answer it, and after `finish()` there is no publish
task, no session, and no activity unless the program reports itself. Each action is
shown to keep `PublishInv` and to satisfy the four parts of `SnapshotsKeepTheirOrder` at once.

### PersistentSurface

The theorems are about the composition, whose steps are steps of `UISurface`, of
`SurfaceEvents`, or of both when the one read loop routes something.

* `UInv`, of the surfaces. That the registry is right when the host opens or closes a
  surface depends on what is under way: `ToHostInv` (requests are ordered, newer than
  the surface shown, and an open request is of a handle that nothing closed) and
  `FromHostInv` (what the host said stays true, since no request that would open the surface
  again is under way). `HandleInv` and `CloserInv` tie the registry and the locks to
  them, `FrameInv` orders the lines that wait, are in flight and were sent.
* `EInv`, of the events of the watched handle, on top of `UInv`: a handler has seen events
  of its kind in increasing order (`SeenInv`); what waits for a handler is older than all
  that a handler of its kind will see, because none was ever called (`WaitingInv`); a
  subscribed handler has seen all that was routed since (`AcceptedInv`).

`QuietAfterCloseAlways` then looks at the only steps that send a frame (`RunFrame`) or call a
handler: the first finds the handle open and nobody asking, by the lock and by `CloserInv`;
the second is not enabled in the phase `"closed"`.

### What folds and sorting compute

`Extension` and `FrameReading` are defined with folds, `FlattenSeq`, `Max` and a sorting
order. The library's induction theorems take an operator, which no installed prover
instantiates; but that the natural numbers are well founded is stated with sets
(`NatLessThanWellFounded`, `WFMin`). From it follow `LeastExists` and `Induction`: a set of
numbers that holds 0 and with a number the next one holds them all. By them are proved that
a maximum is one of the set (`MaxIs`), that a fold and a concatenation exist and go
element by element (`FoldExists`, `FlattensExists`, `FlattenAppend`), and that every set of
handlers has an order (`OrderExists`, by inserting one after the other), so that `Sorted`
is one (`SortedIsInOrder`).

### Events

`SubscriptionsCover` shows by induction over the handlers that the merged hint bounds
them all. It is proved with the fold as it stands: zero, the absence of a limit, is kept
by every later merge (`MergeCovers`).

`AnswerInv` alone is not inductive: it says nothing of the handlers that still have to
run, and of the answer only when it is complete. `EventIInv` adds

* `QueueInv`: the queue is the rest of the sorted handlers; what ran precedes what is left,
  and the two together are all that were registered when the event came;
* `FoldInv`: at every step the answer is the fold of the log so far: the value of a field
  is of the last that gave it, and a list has the items of those that gave some, in their order.

One lemma says what a handler that returns does to the log, the queue and the answer; each
part of the invariant is then kept by a lemma of its own.

### Tables and calls

`RegistryIInv` has three parts. `TablesInv`: the list of commands and the table of names
are inverse to each other, and a blank precedes only a name that has a word. `ShortcutsInv`:
a shortcut is kept under its own normalized chord. `CallInv`: a call that runs is made with
both arguments, or again with those that the handler requires, because two did not fit or
because a body that takes two has raised a `TypeError` (`Fits`); how a body may have run when
the call is answered follows from it (`Ends`, `RunFits`, `WrongFits`).
The lemmas before it say what `NormalizeShortcut` computes: the key of a chord is determined
by the *set* of its canonical parts (`KeyIs`), and two chords have one key exactly when they
have one set (`ChordsAreKeys`). `SpelledIs` says that a name in another spelling is normalized
as it was at its registration. `RegisteredAreReached` has no hypotheses: it holds of any names
and signatures, since the exceptions are part of what it states.

### FrameReading

`ReaderInv` compares what was taken with what was sent, and nothing in it says where the
loop is. `ReadLoopInv` adds `Counted`, that at least a line was consumed for each payload
taken and that a payload is read only after a length, and `Aligned`: while the frames are well formed, the position in the pipe is the
beginning of the next frame and as many lines as are in the header, and these lines are that
frame's. The induction is over the frames: `FrameIsPlaced` says that a frame stays where it is
in the stream when others follow it, `StreamFacts` what stands at each position. Then
`NextLine` and `NextPayload` say which line or payload the loop finds, and
`ParseWellFormed` that a well-formed header announces its payload.

### Leases

`LeaseIInv` is `TypeOK /\ BrowserInv /\ CloseInv`: a release task is there for somebody, what a call
learnt is what the host did, and only what is held is released. `ReleaseIsShared` maps the
task to the phases of `SharedCleanup`; it needs `BrowserInv` to tell a task that was
forgotten after a failure from one that never was.

### AgentSession

What a session promises depends on what is still under way, since a cancelled run does not
wait for its turn. `IInv` is `TypeOK` with eight parts:

* `RunInv`: the flag, the one subscription and the phases agree. From it comes
  `RefusesOnlyWhileRunning`.
* `StreamInv`: prompt, turn, updates and answer of a run follow each other, each once, and
  only for a run that waits or was cancelled. So an answer is behind all updates of its
  turn, and what arrives for somebody else is of a cancelled run (`HeadIsOfWhom`,
  `ForeignStep`).
* `SteerInv`: a steering message is ahead of the prompt of every later run. That is why
  the agent, which reads in order, has no turn to mistake for the one that was meant.
* `OrderInv` numbers the updates as they are sent: what waits has increasing numbers, all
  greater than what any run has collected. `NumberedStep` is the proof that the lists stay
  in order although snapshots are removed from their middle and the run adds events of its own.
* `DeliveryInv`: an update sent for a run that still counts on it is under way, in its list,
  or, if it is a snapshot, replaced there by a later one. When the run has returned nothing is
  under way (`ReturnedHasAll`), which is `UpdatesReachTheirRun`.
* `ListInv`: a list has at most one snapshot and one marker, and its thoughts are after one
  start and before the end; `thinking` says whether the end is missing.

Every step does one of three things to the lists (`StepCases`): the run adds events of its own
(`Adds`), perhaps cut short by a listener that raises; it collects an update (`Collects`), which takes
at most a snapshot away and adds at the end; or nothing. Lemmas about these two operators,
and about what is left of a sequence when elements are taken from it (`Part`), carry the
proofs; `KeptEffect` and `UpdateEffect` say that the code's operators are instances of them.

### Only model-checked

Every liveness property (`ScopedCallsSettle`, `CloseCompletes`, `ResultIsSent`,
`RequestsEnd`, `CleanupCompletes`, `ClosesEnd`, `RunsEnd`, `ChannelsEnd`,
`ChangesAreShown`, `UpdatesAreSent`, `PipeIsRead`, and `ReleasersReturn` within
`RepeatedCallsAreHarmless`), because fairness and `ENABLED` are beyond the prover. Every
other property of the passing runs is a theorem. That the answer to an event
comes and that a call ends is not stated: it is nobody's promise, since handlers are the
program's.

Four proved properties are in no run, because a run of theirs would say less than
the theorem: `WritesAreLicensed`, `EveryWaitIsWatched`, `SettledOnce`, `SilentAfterClose`.

## 8. Not modelled

* Context helpers for paths, files, processes, environment, logs and storage wrap a
  system call or one host request each; dialogs, widgets and transcript entries send
  one request and return its answer.
* `agent/transport.py` spawns and signals a process and enters `AcpRpc` as its
  environment. The raw `send_message` transport of the relay's channels.
* Schemas and decorators, and `execution.py`, which keeps no state: a validation succeeds or fails in
  `ExtensionRegistry`. The checks of profile names and options.
* The negotiated capabilities, and the registration and removal of a session's
  listeners, are data of the models.
* Templates, the test harness, wire types and package exports hold no behaviour.

Each has its line in `components`.

## 9. Plan

What is left is breadth: the negotiated capabilities and the profile options of
`api.py`, the transport of the relay's channels, and the helpers of `context.py` that start
processes. Each would be a module of its own. Three hazards have no property (`hazards` in `PROJECT.json`): each is a
case where the code does what a property would have to forbid, and section 6 describes it.

## 10. Running

    tlc -config ExtensionRuntime_reuse.cfg MCExtensionRuntime
    tlc -config PersistentSurface_settle.cfg MCPersistentSurface
    tlapm ExtensionRuntime_proofs.tla

The other proof modules are checked alike.

The other runs are called alike: `MC<module>` with each `<module>_<run>.cfg`. The longest,
`ExtensionRuntime_reuse`, takes a few minutes on two cores, the others about one. The longest
proofs, `Extension_proofs` and `AgentSession_proofs`, take about ten.
