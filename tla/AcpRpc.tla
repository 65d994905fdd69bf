------------------------------- MODULE AcpRpc -------------------------------
(***************************************************************************)
(* The JSON-RPC client of one `kodelet acp` process (agent/rpc.py): its    *)
(* pending requests, the background task that writes each message, the     *)
(* tasks that read stdout and stderr and wait for the process, and the     *)
(* cleanup that transport failures and callers of close() share.           *)
(*                                                                         *)
(* Code between two awaits is one action.  task.cancel() of a write task   *)
(* or of a reading task takes effect in the action that calls it: none of  *)
(* them catches CancelledError or does anything more.  The agent process   *)
(* may answer, ask, fall silent, stop reading or exit at any time.         *)
(***************************************************************************)
CONSTANTS Requests,   \* bound: calls of request() in a behaviour
          Notices,    \* bound: notifications and answers sent in the background
          Replies,    \* bound: agent requests the client does not support
          Closers,    \* bound: calls of close()
          None

ASSUME MessagesAreDisjoint ==
          /\ Requests \cap (Notices \cup Replies) = {}
          /\ Notices \cap Replies = {}
          /\ None \notin Replies

VARIABLES
    req,        \* where each call of request() is
    future,     \* how its future was settled
    pending,    \* keys of _pending
    write,      \* the task that runs _write for a message
    wire,       \* messages given to stdin.write
    task,       \* _stdout_task, _stderr_task, _wait_task
    replying,   \* the reply whose drain() the reader of stdout awaits
    closed,     \* _closed
    cleanup,    \* _close_task, where it is and how it ended
    confirmed,  \* local of _close_process: no exception is being propagated
    closer,     \* each call of close()
    proc        \* the process

reqVars == <<req, future, pending>>
writeVars == <<write, wire>>
taskVars == <<task, replying>>
closeVars == <<closed, cleanup, confirmed>>
vars == <<reqVars, writeVars, taskVars, closeVars, closer, proc>>

Messages == Requests \cup Notices \cup Replies
Tasks == {"stdout", "stderr", "wait"}
Ended == {"confirmed", "failed"}

TypeOK ==
    /\ req \in [Requests -> {"new", "waiting", "done"}]
    /\ future \in [Requests -> {"none", "answered", "rejected", "cancelled"}]
    /\ pending \in SUBSET Requests
    /\ write \in [Messages -> {"none", "created", "draining", "ended"}]
    /\ wire \in SUBSET Messages
    /\ task \in [Tasks -> {"running", "ended"}]
    /\ replying \in Replies \cup {None}
    /\ closed \in BOOLEAN
    /\ cleanup \in {"none", "terminated", "killed", "relay"} \cup Ended
    /\ confirmed \in BOOLEAN
    /\ closer \in [Closers -> {"idle", "waiting", "returned", "failed", "cancelled"}]
    /\ proc \in {"running", "exited"}

\* A process without stdin or stdout fails the transport in the constructor.
Init ==
    /\ req = [r \in Requests |-> "new"]
    /\ future = [r \in Requests |-> "none"]
    /\ pending = {}
    /\ write = [m \in Messages |-> "none"]
    /\ wire = {}
    /\ replying = None
    /\ confirmed = FALSE
    /\ closer = [c \in Closers |-> "idle"]
    /\ proc = "running"
    /\ \/ /\ closed = FALSE /\ cleanup = "none"
          /\ task = [t \in Tasks |-> "running"]
       \/ /\ closed = TRUE /\ cleanup = "terminated"
          /\ \E out \in {"running", "ended"} :
                task = [t \in Tasks |-> IF t = "stdout" THEN out ELSE "running"]

-----------------------------------------------------------------------------
(* Helpers *)

\* _reject_pending: futures not settled yet are rejected, all are forgotten.
RejectPending ==
    /\ future' = [r \in Requests |->
                     IF r \in pending /\ future[r] = "none" THEN "rejected" ELSE future[r]]
    /\ pending' = {}

\* Mutant: the cleanup is left to whoever calls close().
FailTransportOnly ==
    \/ /\ closed
       /\ UNCHANGED <<closed, cleanup, confirmed, future, pending>>
    \/ /\ ~closed
       /\ closed' = TRUE
       /\ RejectPending
       /\ UNCHANGED <<cleanup, confirmed>>

\* _fail_transport: the first of a failure and a close() wins.
FailTransport ==
    \/ /\ closed
       /\ UNCHANGED <<closed, cleanup, confirmed, future, pending>>
    \/ /\ ~closed
       /\ closed' = TRUE
       /\ RejectPending
       /\ cleanup' = IF cleanup = "none" THEN "terminated" ELSE cleanup
       /\ UNCHANGED confirmed

Undisturbed == UNCHANGED <<closed, cleanup, confirmed, future, pending>>

Active(m) == write[m] \in {"created", "draining"}
EndWrite(m) == write' = [write EXCEPT ![m] = IF Active(m) THEN "ended" ELSE write[m]]
EndTask(t) == task' = [task EXCEPT ![t] = "ended"]

\* `while not self._closed`, evaluated after the reader handled a line.
ReadOn == task' = [task EXCEPT !["stdout"] = IF closed THEN "ended" ELSE "running"]

Reading == task["stdout"] = "running" /\ replying = None

-----------------------------------------------------------------------------
(* request() and notify() *)

Request(r) ==
    /\ req[r] = "new" /\ ~closed
    /\ req' = [req EXCEPT ![r] = "waiting"]
    /\ pending' = pending \cup {r}
    /\ write' = [write EXCEPT ![r] = "created"]
    /\ UNCHANGED <<future, wire, taskVars, closeVars, closer, proc>>

\* The caller's task is cancelled, and with it the future, if it is not settled.
CancelCaller(r) ==
    /\ req[r] = "waiting" /\ future[r] = "none"
    /\ future' = [future EXCEPT ![r] = "cancelled"]
    /\ UNCHANGED <<req, pending, writeVars, taskVars, closeVars, closer, proc>>

\* `await future` ends, and the finally block drops the entry and the write.
CallerResumes(r) ==
    /\ req[r] = "waiting" /\ future[r] # "none"
    /\ req' = [req EXCEPT ![r] = "done"]
    /\ pending' = pending \ {r}
    /\ EndWrite(r)
    /\ UNCHANGED <<future, wire, taskVars, closeVars, closer, proc>>

Notify(n) ==
    /\ write[n] = "none" /\ ~closed
    /\ write' = [write EXCEPT ![n] = "created"]
    /\ UNCHANGED <<wire, reqVars, taskVars, closeVars, closer, proc>>

-----------------------------------------------------------------------------
(* _write *)

\* The write task starts: nothing once closed; else the message goes to the
\* stream and drain() may have to wait, or either of them raises.
RunWrite(m) ==
    /\ write[m] = "created"
    /\ \/ /\ closed
          /\ write' = [write EXCEPT ![m] = "ended"]
          /\ UNCHANGED wire /\ Undisturbed
       \/ /\ ~closed
          /\ wire' = wire \cup {m}
          /\ \E next \in {"draining", "ended"} : write' = [write EXCEPT ![m] = next]
          /\ Undisturbed
       \/ /\ ~closed
          /\ wire' \in {wire, wire \cup {m}}
          /\ write' = [write EXCEPT ![m] = "ended"]
          /\ FailTransport
    /\ UNCHANGED <<req, taskVars, closer, proc>>

\* drain() of a background write returns or raises.
Drained(m) ==
    /\ write[m] = "draining" /\ m \notin Replies
    /\ write' = [write EXCEPT ![m] = "ended"]
    /\ Undisturbed \/ FailTransport
    /\ UNCHANGED <<req, wire, taskVars, closer, proc>>

-----------------------------------------------------------------------------
(* _read_stdout and _handle_line, _read_stderr, _wait_for_process *)

\* A response to a registered request; a caller cancelled just before keeps its
\* cancellation.  Responses that find no entry change nothing but ReadOn.
ResponseArrives(r) ==
    /\ Reading /\ r \in pending \cap wire
    /\ pending' = pending \ {r}
    /\ future' = [future EXCEPT ![r] = IF future[r] = "none" THEN "answered" ELSE @]
    /\ ReadOn
    /\ UNCHANGED <<req, replying, writeVars, closeVars, closer, proc>>

\* Anything that settles no request: a notification, an unknown response.
LineArrives ==
    /\ Reading /\ ReadOn
    /\ UNCHANGED <<replying, reqVars, writeVars, closeVars, closer, proc>>

\* A relayed extension frame: accepted or refused, and answered by a task of
\* its own, which _send creates whether or not the client is closed.
FrameArrives(n) ==
    /\ Reading /\ write[n] = "none"
    /\ write' = [write EXCEPT ![n] = "created"]
    /\ ReadOn
    /\ UNCHANGED <<wire, replying, reqVars, closeVars, closer, proc>>

\* Any other request of the agent: the reader itself writes the error.
UnsupportedArrives(p) ==
    /\ Reading /\ write[p] = "none"
    /\ \/ /\ closed
          /\ write' = [write EXCEPT ![p] = "ended"]
          /\ EndTask("stdout")
          /\ UNCHANGED <<wire, replying>> /\ Undisturbed
       \/ /\ ~closed
          /\ wire' = wire \cup {p}
          /\ \/ write' = [write EXCEPT ![p] = "draining"] /\ replying' = p
             \/ write' = [write EXCEPT ![p] = "ended"] /\ UNCHANGED replying
          /\ UNCHANGED task /\ Undisturbed
       \/ /\ ~closed
          /\ wire' \in {wire, wire \cup {p}}
          /\ write' = [write EXCEPT ![p] = "ended"]
          /\ EndTask("stdout")
          /\ UNCHANGED replying /\ FailTransport
    /\ UNCHANGED <<req, closer, proc>>

\* The drain() the reader awaits returns, or raises inside _write.
ReplyDrained(p) ==
    /\ replying = p /\ task["stdout"] = "running"
    /\ replying' = None
    /\ write' = [write EXCEPT ![p] = "ended"]
    /\ \/ ReadOn /\ Undisturbed
       \/ EndTask("stdout") /\ FailTransport
    /\ UNCHANGED <<req, wire, closer, proc>>

\* End of file, a line over the limit, or a handler of a line that raises.
ReadingFails ==
    /\ Reading
    /\ EndTask("stdout") /\ FailTransport
    /\ UNCHANGED <<req, replying, writeVars, closer, proc>>

\* stderr ends quietly, or fails the transport.
StderrEnds ==
    /\ task["stderr"] = "running"
    /\ EndTask("stderr")
    /\ Undisturbed \/ FailTransport
    /\ UNCHANGED <<req, replying, writeVars, closer, proc>>

\* Mutant: the exit is noticed and the requests are left to time out.
ExitNoticedSilently ==
    /\ task["wait"] = "running" /\ proc = "exited"
    /\ EndTask("wait") /\ Undisturbed
    /\ UNCHANGED <<req, replying, writeVars, closer, proc>>

\* process.wait() returns.
ExitNoticed ==
    /\ task["wait"] = "running" /\ proc = "exited"
    /\ EndTask("wait") /\ FailTransport
    /\ UNCHANGED <<req, replying, writeVars, closer, proc>>

\* process.wait() raises.
WaitingFails ==
    /\ task["wait"] = "running"
    /\ EndTask("wait") /\ FailTransport
    /\ UNCHANGED <<req, replying, writeVars, closer, proc>>

ProcessExits ==
    /\ proc = "running"
    /\ proc' = "exited"
    /\ UNCHANGED <<reqVars, writeVars, taskVars, closeVars, closer>>

-----------------------------------------------------------------------------
(* close() and _close_process *)

\* Mutant: a finished cleanup is never started again.
CloseOnce(c) ==
    /\ closer[c] = "idle"
    /\ closed' = TRUE
    /\ RejectPending
    /\ cleanup' = IF cleanup = "none" THEN "terminated" ELSE cleanup
    /\ closer' = [closer EXCEPT ![c] = CASE cleanup = "confirmed" -> "returned"
                                         [] cleanup = "failed" -> "failed"
                                         [] OTHER -> "waiting"]
    /\ UNCHANGED <<confirmed, req, writeVars, taskVars, proc>>

\* A cleanup is started unless one runs or has succeeded; the caller waits for
\* it behind a shield.
Close(c) ==
    /\ closer[c] = "idle"
    /\ closed' = TRUE
    /\ RejectPending
    /\ cleanup' = IF cleanup \in {"none", "failed"} THEN "terminated" ELSE cleanup
    /\ closer' = [closer EXCEPT ![c] = IF cleanup = "confirmed" THEN "returned" ELSE "waiting"]
    /\ UNCHANGED <<confirmed, req, writeVars, taskVars, proc>>

\* Mutant: cancelling a caller cancels the cleanup itself.
CancelCloserUnshielded(c) ==
    /\ closer[c] = "waiting"
    /\ closer' = [closer EXCEPT ![c] = "cancelled"]
    /\ cleanup' = "cancelled"
    /\ UNCHANGED <<closed, confirmed, reqVars, writeVars, taskVars, proc>>

CancelCloser(c) ==
    /\ closer[c] = "waiting"
    /\ closer' = [closer EXCEPT ![c] = "cancelled"]
    /\ UNCHANGED <<reqVars, writeVars, taskVars, closeVars, proc>>

\* wait_for(process.wait(), 1) after terminate(): the exit, or the timeout,
\* after which the process is killed, or an exception.  The finally block is next.
TerminateWaited ==
    /\ cleanup = "terminated"
    /\ \/ /\ proc = "exited"
          /\ cleanup' = "relay" /\ confirmed' = TRUE
       \/ cleanup' = "killed" /\ UNCHANGED confirmed
       \/ cleanup' = "relay" /\ confirmed' = FALSE
    /\ UNCHANGED <<closed, reqVars, writeVars, taskVars, closer, proc>>

\* Mutant: the second timeout is taken for an exit.
KillWaitedOnly ==
    /\ cleanup = "killed"
    /\ cleanup' = "relay" /\ confirmed' = TRUE
    /\ UNCHANGED <<closed, reqVars, writeVars, taskVars, closer, proc>>

\* The second wait_for, after kill(): "cleanup is incomplete" on its timeout.
KillWaited ==
    /\ cleanup = "killed"
    /\ cleanup' = "relay"
    /\ \/ proc = "exited" /\ confirmed' = TRUE
       \/ confirmed' = FALSE
    /\ UNCHANGED <<closed, reqVars, writeVars, taskVars, closer, proc>>

\* The relay is closed, every task is cancelled and joined, and the cleanup
\* ends; whoever waits for it learns how.
CleanupEnds ==
    /\ cleanup = "relay"
    /\ cleanup' = IF confirmed THEN "confirmed" ELSE "failed"
    /\ closer' = [c \in Closers |->
          IF closer[c] = "waiting" THEN IF confirmed THEN "returned" ELSE "failed" ELSE closer[c]]
    /\ task' = [t \in Tasks |-> "ended"]
    /\ replying' = None
    /\ write' = [m \in Messages |-> IF Active(m) THEN "ended" ELSE write[m]]
    /\ UNCHANGED <<wire, closed, confirmed, reqVars, proc>>

-----------------------------------------------------------------------------
CallerNext == \E r \in Requests : Request(r) \/ CancelCaller(r) \/ CallerResumes(r)
WriteNext == \/ \E n \in Notices : Notify(n)
             \/ \E m \in Messages : RunWrite(m) \/ Drained(m)
ReadNext == \/ \E r \in Requests : ResponseArrives(r)
            \/ \E n \in Notices : FrameArrives(n)
            \/ \E p \in Replies : UnsupportedArrives(p) \/ ReplyDrained(p)
            \/ LineArrives \/ ReadingFails
WatchNext == StderrEnds \/ ExitNoticed \/ WaitingFails \/ ProcessExits
CloseNext == \/ \E c \in Closers : Close(c) \/ CancelCloser(c)
             \/ TerminateWaited \/ KillWaited \/ CleanupEnds

Next == CallerNext \/ WriteNext \/ ReadNext \/ WatchNext \/ CloseNext

Spec == Init /\ [][Next]_vars

\* The event loop resumes what is ready, timeouts expire, and the relay's close
\* ends.  Nothing is assumed of the agent: it may never answer, read or exit.
Fairness ==
    /\ \A r \in Requests : WF_vars(CallerResumes(r))
    /\ \A m \in Messages : WF_vars(RunWrite(m))
    /\ WF_vars(ExitNoticed)
    /\ WF_vars(TerminateWaited) /\ WF_vars(KillWaited) /\ WF_vars(CleanupEnds)

FairSpec == Spec /\ Fairness

-----------------------------------------------------------------------------
(* Properties *)

\* Nobody waits for what can no longer come: the future of a waiting caller that
\* is not settled is registered, its message was sent or is about to be, and the
\* tasks that would see an answer or the end of the process are running, in
\* every order of failures, cancellations and closes (rpc.py:235-260).
EveryWaitIsWatched ==
    \A r \in Requests : (req[r] = "waiting" /\ future[r] = "none") =>
        /\ r \in pending /\ ~closed
        /\ r \in wire \/ write[r] = "created"
        /\ task["stdout"] = "running" /\ task["wait"] = "running"

\* A request is settled once, by the first of its answer, its caller's
\* cancellation, a transport failure and a close (rpc.py:368-373, 406-410).
SettledOnce ==
    [][\A r \in Requests : future[r] # "none" => future'[r] = future[r]]_vars

\* After the client was closed or the transport failed nothing more is given to
\* the process, however many messages were queued (rpc.py:272-276).
SilentAfterClose == [][closed => wire' = wire]_vars

\* A close() that returned means the process is gone and nothing of the client
\* is left running or waiting, whatever failed attempts went before it
\* (rpc.py:203-233).
CloseIsComplete ==
    (\E c \in Closers : closer[c] = "returned") =>
        /\ proc = "exited" /\ pending = {}
        /\ \A t \in Tasks : task[t] = "ended"
        /\ \A m \in Messages : ~Active(m)

\* A request ends after the transport failed or the client was closed, and with
\* the process: although the agent answers nothing (rpc.py:329-340).
RequestsEnd ==
    \A r \in Requests :
        (req[r] = "waiting" /\ (closed \/ proc = "exited")) ~> req[r] = "done"

\* A failed transport is cleaned up without anybody calling close(), and no
\* cancelled caller stops a cleanup (rpc.py:186-201, 242-243).
CleanupCompletes == closed ~> cleanup \in Ended

-----------------------------------------------------------------------------
(* Refinement of the shared cleanup *)

CleanupPhase == CASE cleanup = "none" -> "open"
                  [] cleanup \in Ended -> cleanup
                  [] OTHER -> "running"
Knows == [idle |-> "idle", waiting |-> "waiting", returned |-> "ok",
          failed |-> "error", cancelled |-> "gone"]

Shared == INSTANCE SharedCleanup WITH
    Callers <- Closers, phase <- CleanupPhase, caller <- [c \in Closers |-> Knows[closer[c]]]

\* The cleanup is one attempt at a time, shared, and retried after a failure
\* only (rpc.py:183-201).
ImplementsSharedCleanup == Shared!Spec
=============================================================================
