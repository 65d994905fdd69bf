-------------------------- MODULE ExtensionRuntime --------------------------
(***************************************************************************)
(* One extension connection over stdio (runtime.py): the dispatcher that   *)
(* turns host requests into tasks, the reverse-RPC client those tasks and  *)
(* their background work share, the worker threads that write frames, and  *)
(* the reader and the closer that invalidate requests.                     *)
(*                                                                         *)
(* Code between two awaits of the event loop is one action; what is handed *)
(* to asyncio.to_thread is an action of its own, so that the loop runs     *)
(* between the hand-over, the thread's work and the await's return.        *)
(*                                                                         *)
(* A "generation" is one _StdioRequestState: a host id may be reused, and  *)
(* each acceptance of it is a new generation.  A "sender" is one execution *)
(* of StdioHostRPCClient.send: a generation sending its response, a        *)
(* reverse call, or a notification.                                        *)
(***************************************************************************)
CONSTANTS Ids,          \* request ids the host uses
          Generations,  \* bound: requests accepted in a behaviour
          Calls,        \* bound: reverse calls registered in a behaviour
          Notices,      \* bound: notifications sent in a behaviour
          None

ASSUME SendersAreDisjoint ==
          /\ Generations \cap (Calls \cup Notices) = {}
          /\ Calls \cap Notices = {}
          /\ None \notin Generations \cup Calls \cup Notices \cup Ids

VARIABLES
    stage,            \* where the task of each generation is
    cancelRequested,  \* task.cancel() called and CancelledError not yet raised
    shouldRespond,    \* local variable of _dispatch_request
    active,           \* _StdioRequestState.active
    terminalValid,    \* _StdioRequestState.terminal_valid
    idOf,             \* _StdioRequestState.request_id
    latest,           \* history: the newest generation accepted for an id
    requestStates,    \* ExtensionMessageDispatcher._request_states
    at,               \* where each sender is in send() and _request()
    job,              \* what became of the write it gave to a thread
    writeLock,        \* the sender that holds _write_lock
    pending,          \* keys of StdioHostRPCClient._pending
    scope,            \* the generation whose _write_guard a sender's write takes
    caller,           \* the generation whose task runs the sender
    step,             \* where the reader (handle_message) and the closer are
    target,           \* the generation each of them is invalidating
    reusing,          \* the reader invalidates it because its id was reused
    todo,             \* what is left of _close's list of request states
    dispClosed,       \* ExtensionMessageDispatcher._closed
    clientClosed      \* StdioHostRPCClient._closed

taskVars == <<stage, cancelRequested, shouldRespond>>
flagVars == <<active, terminalValid>>
registryVars == <<idOf, latest, requestStates>>
sendVars == <<at, job, writeLock, pending>>
ownerVars == <<scope, caller>>
workerVars == <<step, target, reusing, todo>>
closedVars == <<dispClosed, clientClosed>>
vars == <<taskVars, flagVars, registryVars, sendVars, ownerVars, workerVars, closedVars>>

Senders == Generations \cup Calls \cup Notices
MaybeGeneration == Generations \cup {None}
Workers == {"reader", "closer"}

Stages == {"new",                     \* not accepted
           "created",                 \* task scheduled, coroutine not started
           "handler",                 \* in the extension's handler
           "finish", "finished",      \* awaiting finish_request, mark set
           "send",                    \* sending the response
           "cleanup", "cleaned",      \* finally: finish_request, mark set
           "terminal", "terminated",  \* finally: finish_terminal, mark set
           "done",                    \* task over, done callback scheduled
           "gone"}                    \* request_done has run
Positions == {"idle", "lock", "thread", "wait", "ended"}
JobStates == {"none", "queued", "writing", "written",
              "void"}                 \* dropped or refused, the writer never saw it
Steps == {"idle", "starting", "mark", "marked", "finish", "finished", "gather", "done"}

TypeOK ==
    /\ stage \in [Generations -> Stages]
    /\ cancelRequested \in [Generations -> BOOLEAN]
    /\ shouldRespond \in [Generations -> BOOLEAN]
    /\ active \in [Generations -> BOOLEAN]
    /\ terminalValid \in [Generations -> BOOLEAN]
    /\ idOf \in [Generations -> Ids \cup {None}]
    /\ latest \in [Ids -> MaybeGeneration]
    /\ requestStates \in [Ids -> MaybeGeneration]
    /\ at \in [Senders -> Positions]
    /\ job \in [Senders -> JobStates]
    /\ writeLock \in Senders \cup {None}
    /\ pending \in SUBSET Calls
    /\ scope \in [Senders -> MaybeGeneration]
    /\ caller \in [Senders -> MaybeGeneration]
    /\ step \in [Workers -> Steps]
    /\ target \in [Workers -> MaybeGeneration]
    /\ reusing \in BOOLEAN
    /\ todo \in SUBSET Generations
    /\ dispClosed \in BOOLEAN
    /\ clientClosed \in BOOLEAN

OwnGeneration(s) == IF s \in Generations THEN s ELSE None

Init ==
    /\ stage = [g \in Generations |-> "new"]
    /\ cancelRequested = [g \in Generations |-> FALSE]
    /\ shouldRespond = [g \in Generations |-> FALSE]
    /\ active = [g \in Generations |-> FALSE]
    /\ terminalValid = [g \in Generations |-> FALSE]
    /\ idOf = [g \in Generations |-> None]
    /\ latest = [id \in Ids |-> None]
    /\ requestStates = [id \in Ids |-> None]
    /\ at = [s \in Senders |-> "idle"]
    /\ job = [s \in Senders |-> "none"]
    /\ writeLock = None
    /\ pending = {}
    /\ scope = [s \in Senders |-> OwnGeneration(s)]
    /\ caller = [s \in Senders |-> OwnGeneration(s)]
    /\ step = [w \in Workers |-> "idle"]
    /\ target = [w \in Workers |-> None]
    /\ reusing = FALSE
    /\ todo = {}
    /\ dispClosed = FALSE
    /\ clientClosed = FALSE

-----------------------------------------------------------------------------
(* Helpers *)

\* Mutant: the guard is held for the check, and not for the write.
GuardFreeEarly(g) == TRUE

\* No thread is inside `with state._write_guard` for a write of g.
GuardFree(g) == \A s \in Senders : scope[s] = g => job[s] # "writing"

\* The check made under the guard, `valid` in _write_and_flush_for_request.
Valid(s) == \/ scope[s] = None
            \/ IF s \in Generations THEN terminalValid[s] ELSE active[scope[s]]

InSend(s) == at[s] \in {"lock", "thread", "wait"}
OpenSends(g) == {s \in Senders : caller[s] = g /\ InSend(s)}

\* A coroutine whose task has a cancellation outstanding resumes with it.
Runnable(s) == caller[s] # None => ~cancelRequested[caller[s]]
Resumable(g, where) == stage[g] = where /\ ~cancelRequested[g]

GoTo(g, where) == stage' = [stage EXCEPT ![g] = where]

\* The senders in S leave send() and _request(): the lock is released, a write
\* that no thread has started is dropped, one that has started goes on.
Leave(S) ==
    /\ at' = [s \in Senders |-> IF s \in S THEN "ended" ELSE at[s]]
    /\ job' = [s \in Senders |->
                  IF s \in S /\ job[s] = "queued" THEN "void" ELSE job[s]]
    /\ writeLock' = IF writeLock \in S THEN None ELSE writeLock
    /\ pending' = pending \ S

\* Mutant: the loop of finish_request is missing.
UnrejectedForgotten(g) == pending

\* finish_request's loop: the entries of g are rejected and removed.
Unrejected(g) == {c \in pending : scope[c] # g}

\* Mutant: the table maps the id to itself instead of to the new state.
NewGenerationMisfiled(g, id) ==
    /\ stage[g] = "new"
    /\ GoTo(g, "created")
    /\ active' = [active EXCEPT ![g] = TRUE]
    /\ terminalValid' = [terminalValid EXCEPT ![g] = TRUE]
    /\ idOf' = [idOf EXCEPT ![g] = id]
    /\ latest' = [latest EXCEPT ![id] = g]
    /\ requestStates' = [requestStates EXCEPT ![id] = id]

\* The registration half of handle_message.
NewGeneration(g, id) ==
    /\ stage[g] = "new"
    /\ GoTo(g, "created")
    /\ active' = [active EXCEPT ![g] = TRUE]
    /\ terminalValid' = [terminalValid EXCEPT ![g] = TRUE]
    /\ idOf' = [idOf EXCEPT ![g] = id]
    /\ latest' = [latest EXCEPT ![id] = g]
    /\ requestStates' = [requestStates EXCEPT ![id] = g]

SomeGenerationLeft == \E g \in Generations : stage[g] = "new"

-----------------------------------------------------------------------------
(* handle_message, run by the reader for one message at a time *)

Accept(id) ==
    /\ step["reader"] = "idle" /\ ~dispClosed
    /\ requestStates[id] = None
    /\ \E g \in Generations : NewGeneration(g, id)
    /\ UNCHANGED <<cancelRequested, shouldRespond, sendVars, ownerVars, workerVars, closedVars>>

\* $/cancelRequest for a registered id.
BeginCancel(id) ==
    /\ step["reader"] = "idle" /\ ~dispClosed
    /\ requestStates[id] # None
    /\ step' = [step EXCEPT !["reader"] = "mark"]
    /\ target' = [target EXCEPT !["reader"] = requestStates[id]]
    /\ reusing' = FALSE
    /\ UNCHANGED <<todo, taskVars, flagVars, registryVars, sendVars, ownerVars, closedVars>>

\* A request whose id is still registered.
BeginReuse(id) ==
    /\ step["reader"] = "idle" /\ ~dispClosed
    /\ requestStates[id] # None /\ SomeGenerationLeft
    /\ step' = [step EXCEPT !["reader"] = "mark"]
    /\ target' = [target EXCEPT !["reader"] = requestStates[id]]
    /\ reusing' = TRUE
    /\ UNCHANGED <<todo, taskVars, flagVars, registryVars, sendVars, ownerVars, closedVars>>

\* A response.  The host answers only frames it was sent; a response whose
\* entry is gone changes nothing.
HostResponds(c) ==
    /\ step["reader"] = "idle" /\ ~dispClosed
    /\ job[c] \in {"writing", "written"}
    /\ c \in pending
    /\ pending' = pending \ {c}
    /\ UNCHANGED <<at, job, writeLock, taskVars, flagVars, registryVars, ownerVars,
                   workerVars, closedVars>>

-----------------------------------------------------------------------------
(* state.cancel() then finish_request(state), run by the reader and the closer *)

MarkCancelled(w) ==
    /\ step[w] = "mark" /\ GuardFree(target[w])
    /\ active' = [active EXCEPT ![target[w]] = FALSE]
    /\ terminalValid' = [terminalValid EXCEPT ![target[w]] = FALSE]
    /\ step' = [step EXCEPT ![w] = "marked"]
    /\ UNCHANGED <<target, reusing, todo, taskVars, registryVars, sendVars, ownerVars, closedVars>>

CancelTask(w) ==
    /\ step[w] = "marked"
    /\ cancelRequested' =
          [cancelRequested EXCEPT ![target[w]] = stage[target[w]] \notin {"done", "gone"}]
    /\ step' = [step EXCEPT ![w] = "finish"]
    /\ UNCHANGED <<target, reusing, todo, stage, shouldRespond, flagVars, registryVars,
                   sendVars, ownerVars, closedVars>>

MarkFinished(w) ==
    /\ step[w] = "finish" /\ GuardFree(target[w])
    /\ active' = [active EXCEPT ![target[w]] = FALSE]
    /\ step' = [step EXCEPT ![w] = "finished"]
    /\ UNCHANGED <<terminalValid, target, reusing, todo, taskVars, registryVars, sendVars,
                   ownerVars, closedVars>>

ReaderFinishesCancel ==
    /\ step["reader"] = "finished" /\ ~reusing
    /\ pending' = Unrejected(target["reader"])
    /\ step' = [step EXCEPT !["reader"] = "idle"]
    /\ target' = [target EXCEPT !["reader"] = None]
    /\ UNCHANGED <<at, job, writeLock, reusing, todo, taskVars, flagVars, registryVars,
                   ownerVars, closedVars>>

\* Mutant: _closed is not looked at again after the awaits.
ReaderFinishesReuseUnchecked ==
    /\ step["reader"] = "finished" /\ reusing
    /\ pending' = Unrejected(target["reader"])
    /\ step' = [step EXCEPT !["reader"] = "idle"]
    /\ target' = [target EXCEPT !["reader"] = None]
    /\ reusing' = FALSE
    /\ \E g \in Generations : NewGeneration(g, idOf[target["reader"]])
    /\ UNCHANGED <<at, job, writeLock, todo, cancelRequested, shouldRespond, ownerVars, closedVars>>

\* The reused id: the second _closed check, then the new generation.
ReaderFinishesReuse ==
    /\ step["reader"] = "finished" /\ reusing
    /\ pending' = Unrejected(target["reader"])
    /\ step' = [step EXCEPT !["reader"] = "idle"]
    /\ target' = [target EXCEPT !["reader"] = None]
    /\ reusing' = FALSE
    /\ \/ /\ dispClosed
          /\ UNCHANGED <<stage, flagVars, registryVars>>
       \/ /\ ~dispClosed
          /\ \E g \in Generations : NewGeneration(g, idOf[target["reader"]])
    /\ UNCHANGED <<at, job, writeLock, todo, cancelRequested, shouldRespond, ownerVars, closedVars>>

-----------------------------------------------------------------------------
(* close() and _close() *)

\* Mutant: the client's close does not reject what is pending.
CloserGoesOnKeeping(rest, left) ==
    \/ /\ \E g \in rest : /\ target' = [target EXCEPT !["closer"] = g]
                          /\ todo' = rest \ {g}
       /\ step' = [step EXCEPT !["closer"] = "mark"]
       /\ pending' = left
       /\ UNCHANGED clientClosed
    \/ /\ rest = {}
       /\ target' = [target EXCEPT !["closer"] = None]
       /\ todo' = {}
       /\ step' = [step EXCEPT !["closer"] = "gather"]
       /\ pending' = left
       /\ clientClosed' = TRUE

\* The next iteration of _close's loop, or the client's close after the last:
\* `rest` is the states not visited yet, `left` the entries not rejected yet.
CloserGoesOn(rest, left) ==
    \/ /\ \E g \in rest : /\ target' = [target EXCEPT !["closer"] = g]
                          /\ todo' = rest \ {g}
       /\ step' = [step EXCEPT !["closer"] = "mark"]
       /\ pending' = left
       /\ UNCHANGED clientClosed
    \/ /\ rest = {}
       /\ target' = [target EXCEPT !["closer"] = None]
       /\ todo' = {}
       /\ step' = [step EXCEPT !["closer"] = "gather"]
       /\ pending' = {}
       /\ clientClosed' = TRUE

Close ==
    /\ ~dispClosed
    /\ dispClosed' = TRUE
    /\ step' = [step EXCEPT !["closer"] = "starting"]
    /\ UNCHANGED <<target, reusing, todo, clientClosed, taskVars, flagVars, registryVars,
                   sendVars, ownerVars>>

CloserStarts ==
    /\ step["closer"] = "starting"
    /\ CloserGoesOn({requestStates[id] : id \in Ids} \ {None}, pending)
    /\ UNCHANGED <<at, job, writeLock, reusing, dispClosed, taskVars, flagVars, registryVars,
                   ownerVars>>

CloserRejects ==
    /\ step["closer"] = "finished"
    /\ CloserGoesOn(todo, Unrejected(target["closer"]))
    /\ UNCHANGED <<at, job, writeLock, reusing, dispClosed, taskVars, flagVars, registryVars,
                   ownerVars>>

\* gather(*_pending_tasks): every accepted task is over and its callback ran.
CloserGathers ==
    /\ step["closer"] = "gather"
    /\ \A g \in Generations : stage[g] \in {"new", "gone"}
    /\ step' = [step EXCEPT !["closer"] = "done"]
    /\ UNCHANGED <<target, reusing, todo, taskVars, flagVars, registryVars, sendVars, ownerVars,
                   closedVars>>

-----------------------------------------------------------------------------
(* _dispatch_request, the task of a generation *)

StartTask(g) ==
    /\ Resumable(g, "created")
    /\ GoTo(g, "handler")
    /\ UNCHANGED <<cancelRequested, shouldRespond, flagVars, registryVars, sendVars, ownerVars,
                   workerVars, closedVars>>

\* The handler returns or raises an Exception: there is a response to send.
HandlerReturns(g) ==
    /\ Resumable(g, "handler") /\ OpenSends(g) = {}
    /\ GoTo(g, "finish")
    /\ shouldRespond' = [shouldRespond EXCEPT ![g] = active[g]]
    /\ UNCHANGED <<cancelRequested, flagVars, registryVars, sendVars, ownerVars, workerVars,
                   closedVars>>

\* The handler lets a CancelledError of its own (of a task it awaited) escape.
HandlerRaisesCancelled(g) ==
    /\ Resumable(g, "handler") /\ OpenSends(g) = {}
    /\ GoTo(g, "cleanup")
    /\ UNCHANGED <<cancelRequested, shouldRespond, flagVars, registryVars, sendVars, ownerVars,
                   workerVars, closedVars>>

\* Thread: _mark_finished, for either of the task's two finish_request calls.
MarkRequestFinished(g) ==
    /\ stage[g] \in {"finish", "cleanup"} /\ GuardFree(g)
    /\ active' = [active EXCEPT ![g] = FALSE]
    /\ GoTo(g, IF stage[g] = "finish" THEN "finished" ELSE "cleaned")
    /\ UNCHANGED <<terminalValid, cancelRequested, shouldRespond, registryVars, sendVars,
                   ownerVars, workerVars, closedVars>>

\* Mutant: whether to respond is read after finish_request, not before.
ResumeFinishedLate(g) ==
    /\ Resumable(g, "finished")
    /\ pending' = Unrejected(g)
    /\ shouldRespond' = [shouldRespond EXCEPT ![g] = FALSE]
    /\ \/ /\ active[g] /\ ~clientClosed
          /\ GoTo(g, "send")
          /\ at' = [at EXCEPT ![g] = "lock"]
       \/ /\ ~active[g] \/ clientClosed
          /\ GoTo(g, "cleanup")
          /\ UNCHANGED at
    /\ UNCHANGED <<job, writeLock, cancelRequested, flagVars, registryVars, ownerVars,
                   workerVars, closedVars>>

\* finish_request rejects, then send(response) is entered unless the request
\* was cancelled or the client is closed.
ResumeFinished(g) ==
    /\ Resumable(g, "finished")
    /\ pending' = Unrejected(g)
    /\ shouldRespond' = [shouldRespond EXCEPT ![g] = FALSE]
    /\ \/ /\ shouldRespond[g] /\ ~clientClosed
          /\ GoTo(g, "send")
          /\ at' = [at EXCEPT ![g] = "lock"]
       \/ /\ ~shouldRespond[g] \/ clientClosed
          /\ GoTo(g, "cleanup")
          /\ UNCHANGED at
    /\ UNCHANGED <<job, writeLock, cancelRequested, flagVars, registryVars, ownerVars,
                   workerVars, closedVars>>

\* Mutant: the finally block does not reject.
ResumeCleanedOnly(g) ==
    /\ Resumable(g, "cleaned")
    /\ GoTo(g, "terminal")
    /\ UNCHANGED <<sendVars, cancelRequested, shouldRespond, flagVars, registryVars, ownerVars,
                   workerVars, closedVars>>

ResumeCleaned(g) ==
    /\ Resumable(g, "cleaned")
    /\ pending' = Unrejected(g)
    /\ GoTo(g, "terminal")
    /\ UNCHANGED <<at, job, writeLock, cancelRequested, shouldRespond, flagVars, registryVars,
                   ownerVars, workerVars, closedVars>>

\* Thread: _mark_terminal_finished.
MarkTerminalFinished(g) ==
    /\ stage[g] = "terminal" /\ GuardFree(g)
    /\ terminalValid' = [terminalValid EXCEPT ![g] = FALSE]
    /\ GoTo(g, "terminated")
    /\ UNCHANGED <<active, cancelRequested, shouldRespond, registryVars, sendVars, ownerVars,
                   workerVars, closedVars>>

ResumeTerminated(g) ==
    /\ Resumable(g, "terminated")
    /\ GoTo(g, "done")
    /\ UNCHANGED <<cancelRequested, shouldRespond, flagVars, registryVars, sendVars, ownerVars,
                   workerVars, closedVars>>

\* CancelledError at the await where the task is.  A coroutine that never
\* started has no finally; a handler may swallow it, turn it into a result or
\* let it out; in the finally block it skips what is left.  A mark given to a
\* thread may still be made: by then the flags are already false.
DeliverCancel(g) ==
    /\ cancelRequested[g]
    /\ cancelRequested' = [cancelRequested EXCEPT ![g] = FALSE]
    /\ Leave(OpenSends(g))
    /\ \/ /\ stage[g] = "created"
          /\ GoTo(g, "done")
          /\ UNCHANGED shouldRespond
       \/ /\ stage[g] = "handler"
          /\ \E next \in {"handler", "finish", "cleanup"} : GoTo(g, next)
          /\ shouldRespond' = [shouldRespond EXCEPT ![g] = active[g]]
       \/ /\ stage[g] \in {"finish", "finished", "send"}
          /\ GoTo(g, "cleanup")
          /\ shouldRespond' = [shouldRespond EXCEPT ![g] = FALSE]
       \/ /\ stage[g] \in {"cleanup", "cleaned", "terminal", "terminated"}
          /\ GoTo(g, "done")
          /\ UNCHANGED shouldRespond
    /\ UNCHANGED <<flagVars, registryVars, ownerVars, workerVars, closedVars>>

\* Mutant: the callback unregisters the id whoever has it.
RequestDoneAnyway(g) ==
    /\ stage[g] = "done"
    /\ GoTo(g, "gone")
    /\ requestStates' = [requestStates EXCEPT ![idOf[g]] = None]
    /\ UNCHANGED <<idOf, latest, cancelRequested, shouldRespond, flagVars, sendVars, ownerVars,
                   workerVars, closedVars>>

\* The done callback: unregister, unless a newer generation has the id.
RequestDone(g) ==
    /\ stage[g] = "done"
    /\ GoTo(g, "gone")
    /\ requestStates' = [id \in Ids |->
          IF id = idOf[g] /\ requestStates[id] = g THEN None ELSE requestStates[id]]
    /\ UNCHANGED <<idOf, latest, cancelRequested, shouldRespond, flagVars, sendVars, ownerVars,
                   workerVars, closedVars>>

-----------------------------------------------------------------------------
(* _request() and send() *)

\* What a call made through g's scoped client is scoped to: g with request(),
\* g or the connection with request_persistent(), the connection with .persistent.
CallScope(g) == IF active[g] THEN {g, None} ELSE {None}

\* _request registers the call and goes for the lock.  `by` is the generation
\* whose handler awaits it (None: a task the extension left running), `for` the
\* generation it is scoped to (None: the connection).
StartCall(c, for, by) ==
    /\ at[c] = "idle" /\ ~clientClosed
    /\ for # None => for \in CallScope(for) /\ stage[for] # "created"
    /\ by # None => /\ Resumable(by, "handler") /\ OpenSends(by) = {}
                    /\ for \in CallScope(by)
    /\ at' = [at EXCEPT ![c] = "lock"]
    /\ scope' = [scope EXCEPT ![c] = for]
    /\ caller' = [caller EXCEPT ![c] = by]
    /\ pending' = pending \cup {c}
    /\ UNCHANGED <<job, writeLock, taskVars, flagVars, registryVars, workerVars, closedVars>>

StartNotice(n) ==
    /\ at[n] = "idle" /\ ~clientClosed
    /\ at' = [at EXCEPT ![n] = "lock"]
    /\ UNCHANGED <<job, writeLock, pending, taskVars, flagVars, registryVars, ownerVars,
                   workerVars, closedVars>>

\* A response's send() ends, however it ends, in the finally block.
AfterSend(s) == IF s \in Generations THEN GoTo(s, "cleanup") ELSE UNCHANGED stage

\* `async with _write_lock`, the second closed check, and the hand-over of the
\* write to a thread.
AcquireLock(s) ==
    /\ at[s] = "lock" /\ Runnable(s) /\ writeLock = None
    /\ \/ /\ clientClosed
          /\ Leave({s})
          /\ AfterSend(s)
       \/ /\ ~clientClosed
          /\ writeLock' = s
          /\ at' = [at EXCEPT ![s] = "thread"]
          /\ job' = [job EXCEPT ![s] = "queued"]
          /\ UNCHANGED <<pending, stage>>
    /\ UNCHANGED <<cancelRequested, shouldRespond, flagVars, registryVars, ownerVars, workerVars,
                   closedVars>>

\* Mutant: the validity of the request is not checked again under the guard.
StartWriteUnchecked(s) ==
    /\ job[s] = "queued"
    /\ scope[s] # None => GuardFree(scope[s])
    /\ job' = [job EXCEPT ![s] = "writing"]
    /\ UNCHANGED <<at, writeLock, pending, taskVars, flagVars, registryVars, ownerVars,
                   workerVars, closedVars>>

\* Thread: _write_and_flush takes no guard, _write_and_flush_for_request does.
StartWrite(s) ==
    /\ job[s] = "queued"
    /\ scope[s] # None => GuardFree(scope[s])
    /\ job' = [job EXCEPT ![s] = IF Valid(s) THEN "writing" ELSE "void"]
    /\ UNCHANGED <<at, writeLock, pending, taskVars, flagVars, registryVars, ownerVars,
                   workerVars, closedVars>>

EndWrite(s) ==
    /\ job[s] = "writing"
    /\ job' = [job EXCEPT ![s] = "written"]
    /\ UNCHANGED <<at, writeLock, pending, taskVars, flagVars, registryVars, ownerVars,
                   workerVars, closedVars>>

\* The await of the thread returns, and a call then awaits its future, or it
\* raises: the write was refused or the writer failed.
LeaveWrite(s) ==
    /\ at[s] = "thread" /\ Runnable(s)
    /\ \/ /\ s \in Calls /\ job[s] = "written"
          /\ at' = [at EXCEPT ![s] = "wait"]
          /\ writeLock' = None
          /\ UNCHANGED <<job, pending, stage>>
       \/ /\ job[s] \in {"written", "void"}
          /\ Leave({s})
          /\ AfterSend(s)
    /\ UNCHANGED <<cancelRequested, shouldRespond, flagVars, registryVars, ownerVars, workerVars,
                   closedVars>>

\* The future was resolved by a response or rejected by finish_request/close.
CallReturns(c) ==
    /\ at[c] = "wait" /\ Runnable(c) /\ c \notin pending
    /\ Leave({c})
    /\ UNCHANGED <<taskVars, flagVars, registryVars, ownerVars, workerVars, closedVars>>

\* The extension cancels the call or notification itself (wait_for, its own
\* task); the future's cancellation and the pop in `finally` are one step here.
AbandonSend(s) ==
    /\ s \in Calls \cup Notices /\ InSend(s) /\ Runnable(s)
    /\ Leave({s})
    /\ UNCHANGED <<taskVars, flagVars, registryVars, ownerVars, workerVars, closedVars>>

-----------------------------------------------------------------------------
ReaderNext == \/ \E id \in Ids : Accept(id) \/ BeginCancel(id) \/ BeginReuse(id)
              \/ \E c \in Calls : HostResponds(c)
              \/ ReaderFinishesCancel \/ ReaderFinishesReuse
CloserNext == Close \/ CloserStarts \/ CloserRejects \/ CloserGathers
WorkerNext == \E w \in Workers : MarkCancelled(w) \/ CancelTask(w) \/ MarkFinished(w)
TaskNext == \E g \in Generations :
               \/ StartTask(g) \/ HandlerReturns(g) \/ HandlerRaisesCancelled(g)
               \/ MarkRequestFinished(g) \/ ResumeFinished(g) \/ ResumeCleaned(g)
               \/ MarkTerminalFinished(g) \/ ResumeTerminated(g)
               \/ DeliverCancel(g) \/ RequestDone(g)
CallNext == \/ \E c \in Calls, for, by \in MaybeGeneration : StartCall(c, for, by)
            \/ \E n \in Notices : StartNotice(n)
            \/ \E c \in Calls : CallReturns(c)
SendNext == \E s \in Senders :
               AcquireLock(s) \/ StartWrite(s) \/ EndWrite(s) \/ LeaveWrite(s) \/ AbandonSend(s)

Next == ReaderNext \/ CloserNext \/ WorkerNext \/ TaskNext \/ CallNext \/ SendNext

Spec == Init /\ [][Next]_vars

\* The event loop and the thread pool run what is ready, the host drains the
\* pipe (a write ends), and a handler that awaits no call of its own returns.
\* Nothing is assumed of the host's answers, cancellations or requests.
Fairness ==
    /\ WF_vars(ReaderFinishesCancel) /\ WF_vars(ReaderFinishesReuse)
    /\ WF_vars(CloserStarts) /\ WF_vars(CloserRejects) /\ WF_vars(CloserGathers)
    /\ \A w \in Workers : WF_vars(MarkCancelled(w) \/ CancelTask(w) \/ MarkFinished(w))
    /\ \A g \in Generations :
          /\ WF_vars(StartTask(g)) /\ WF_vars(HandlerReturns(g))
          /\ WF_vars(MarkRequestFinished(g)) /\ WF_vars(MarkTerminalFinished(g))
          /\ WF_vars(ResumeFinished(g) \/ ResumeCleaned(g) \/ ResumeTerminated(g))
          /\ WF_vars(DeliverCancel(g)) /\ WF_vars(RequestDone(g))
    /\ \A s \in Senders :
          /\ WF_vars(AcquireLock(s)) /\ WF_vars(StartWrite(s)) /\ WF_vars(EndWrite(s))
          /\ WF_vars(LeaveWrite(s))
    /\ \A c \in Calls : WF_vars(CallReturns(c))

FairSpec == Spec /\ Fairness

-----------------------------------------------------------------------------
(* Properties *)

Silenced(g) == ~active[g] /\ ~terminalValid[g]
Accepted(g) == stage[g] # "new"
Superseded(g) == Accepted(g) /\ latest[idOf[g]] # g

\* Once a request was cancelled, finished or answered, no thread is writing a
\* frame that this ended generation no longer licenses: a write that started
\* holds the guard that cancel() and finish() wait for (runtime.py:581-586).
WritesAreLicensed ==
    \A s \in Senders : job[s] = "writing" => Valid(s)

\* After the host's id was reused, nothing that names the id as its response id
\* or parent id is being written for the older generation: the host would take
\* it for the newer request's (runtime.py:338-352).
SupersededIsSilent ==
    \A g \in Generations : Superseded(g) =>
        \A s \in Senders : scope[s] = g => job[s] # "writing"

\* The newest generation of an id is registered as long as its task may run, so
\* a cancellation or the close always finds it, although done callbacks of
\* older generations run late (runtime.py:355-358).
LatestIsReachable ==
    \A g \in Generations :
        (Accepted(g) /\ stage[g] # "gone" /\ ~Superseded(g)) => requestStates[idOf[g]] = g

\* What waits for the host has somebody who waits for it: a call that timed out or was
\* cancelled is gone, and a late response settles nothing (runtime.py:245-251).  When a
\* request's task is over, no reverse call scoped to it is left either, unless the
\* reader or the closer is about to reject it: a cancellation that cuts the task's own
\* finish_request short loses nothing (runtime.py:472-476).
NoOrphanCalls ==
    \A c \in pending :
        /\ InSend(c)
        /\ scope[c] # None =>
              \/ stage[scope[c]] \notin {"done", "gone"}
              \/ \E w \in Workers : /\ target[w] = scope[c]
                                    /\ step[w] \in {"marked", "finish", "finished"}

\* When close() has returned, every accepted request is over and unregistered,
\* none can write, no reverse call is pending and none will be (runtime.py:376-394).
CloseLeavesNothing ==
    step["closer"] = "done" =>
        /\ \A g \in Generations : stage[g] \in {"new", "gone"} /\ Silenced(g)
        /\ \A id \in Ids : requestStates[id] = None
        /\ pending = {}

\* close() returns although the host answers nothing more and handlers are
\* stuck in reverse calls: cancelling and rejecting release them (runtime.py:388-394).
\* The reader always gets back to reading: invalidating a request waits only for
\* a write in progress, never for the request's handler (runtime.py:327-347).
CloseCompletes ==
    /\ dispClosed ~> step["closer"] = "done"
    /\ step["reader"] # "idle" ~> step["reader"] = "idle"

\* A reverse call scoped to a request settles once the request is invalid, with
\* or without an answer of the host (runtime.py:223-230).
ScopedCallsSettle ==
    \A c \in Calls : (InSend(c) /\ scope[c] # None /\ ~active[scope[c]]) ~> at[c] = "ended"

\* A handler's result reaches the writer unless the request was invalidated or
\* the client closed in between: finishing the request, which stops its reverse
\* calls, does not stop its response (runtime.py:466-471).
ResultIsSent ==
    \A g \in Generations :
        (stage[g] = "finish" /\ terminalValid[g]) ~>
            \/ job[g] = "written"
            \/ clientClosed
            \/ stage[g] \in {"finish", "finished", "send"} /\ ~terminalValid[g]

-----------------------------------------------------------------------------
(* Refinement of the contract with the host *)

FrameStarted(s) == job[s] \in {"writing", "written"}
ContractStatus(g) == IF ~Accepted(g) THEN "absent"
                     ELSE IF FrameStarted(g) THEN "answered"
                     ELSE IF Silenced(g) THEN "closed" ELSE "open"

Contract == INSTANCE RequestContract WITH
    status <- [g \in Generations |-> ContractStatus(g)],
    ownerId <- idOf,
    sentFor <- [c \in Calls |-> IF FrameStarted(c) THEN scope[c] ELSE None]

\* The runtime implements the contract: one open generation per id, one answer
\* at most, and parented frames only while their generation is open.
ImplementsContract == Contract!Spec
=============================================================================
