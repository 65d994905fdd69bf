-------------------------------- MODULE Leases --------------------------------
(***************************************************************************)
(* The two lifetime leases that an extension holds at its host             *)
(* (context.py): the browser connection of a tool, whose release() shares  *)
(* one request among its callers, and the background task, whose close()   *)
(* may outlive the handler that acquired it.                               *)
(*                                                                         *)
(* Of the reverse client (ExtensionRuntime) this module keeps that         *)
(* requests of a handler are refused, and pending ones rejected, when the  *)
(* handler has ended, and that requests of the connection go on.           *)
(***************************************************************************)
EXTENDS Naturals, Sequences

CONSTANTS Releasers,   \* bound: calls of release()
          Closers,     \* bound: calls of close()
          MaxSends     \* bound: release requests of either kind

ASSUME LeasesAssumption == MaxSends \in Nat

VARIABLES
    handler,     \* the handler that acquires: "active", "cancelling", "ended"
    browser,     \* acquire(): "idle", "asking", "answered", "held", "raised"
    browserHost, \* the host's side of the browser lease: "none", "leased", "released"
    task,        \* _release_task: "none", "asking", "answered", "failed", "done"
    releaser,    \* each call of release()
    sends,       \* history variable: requests sent, <<browser, background>>
    lease,       \* acquire_background_task(): "idle", "asking", "held", "unneeded", "raised"
    leaseHost,   \* the host's side of that lease
    closed,      \* BackgroundTaskLease._closed
    closer       \* each call of close(): [at, scoped]

browserVars == <<browser, browserHost, task, releaser>>
leaseVars == <<lease, leaseHost, closed, closer>>
vars == <<handler, browserVars, leaseVars, sends>>

HostStates == {"none", "leased", "released"}
CloserStates == [at : {"idle", "asking", "answered", "ok", "error", "gone"}, scoped : BOOLEAN]

TypeOK ==
    /\ handler \in {"active", "cancelling", "ended"}
    /\ browser \in {"idle", "asking", "answered", "held", "raised"}
    /\ browserHost \in HostStates /\ leaseHost \in HostStates
    /\ task \in {"none", "asking", "answered", "failed", "done"}
    /\ releaser \in [Releasers -> {"idle", "waiting", "ok", "error", "gone"}]
    /\ sends \in (0..MaxSends) \X (0..MaxSends)
    /\ lease \in {"idle", "asking", "held", "unneeded", "raised"}
    /\ closed \in BOOLEAN
    /\ closer \in [Closers -> CloserStates]

Init ==
    /\ handler = "active"
    /\ browser = "idle" /\ browserHost = "none" /\ task = "none"
    /\ releaser = [c \in Releasers |-> "idle"]
    /\ lease = "idle" /\ leaseHost = "none" /\ closed = FALSE
    /\ closer = [c \in Closers |-> [at |-> "idle", scoped |-> FALSE]]
    /\ sends = <<0, 0>>

-----------------------------------------------------------------------------
(* The handler *)

Told(know) == [c \in Releasers |-> IF releaser[c] = "waiting" THEN know ELSE releaser[c]]

CancelHandler ==
    /\ handler = "active" /\ handler' = "cancelling"
    /\ UNCHANGED <<browserVars, leaseVars, sends>>

\* The handler's request has ended: what it still waits for is rejected, and the
\* host releases its browser lease.
HandlerEnds ==
    /\ handler # "ended" /\ handler' = "ended"
    /\ browser' = IF browser \in {"asking", "answered"} THEN "raised" ELSE browser
    /\ browserHost' = IF browserHost = "leased" THEN "released" ELSE browserHost
    /\ task' = IF task = "asking" THEN "failed" ELSE task
    /\ lease' = IF lease = "asking" THEN "raised" ELSE lease
    /\ closer' = [c \in Closers |->
          IF closer[c].at = "asking" /\ closer[c].scoped THEN [closer[c] EXCEPT !.at = "error"]
          ELSE closer[c]]
    /\ UNCHANGED <<releaser, leaseHost, closed, sends>>

-----------------------------------------------------------------------------
(* BrowserContext.acquire() *)

Acquire ==
    /\ browser = "idle" /\ handler # "ended"
    /\ browser' = IF handler = "cancelling" THEN "raised" ELSE "asking"
    /\ UNCHANGED <<handler, browserHost, task, releaser, leaseVars, sends>>

HostLeases ==
    /\ browser = "asking"
    /\ \/ browser' = "answered" /\ browserHost' = "leased"
       \/ browser' = "raised" /\ UNCHANGED browserHost
    /\ UNCHANGED <<handler, task, releaser, leaseVars, sends>>

\* A handler that is being cancelled gets no connection; nor does one whose host
\* answers without the details.
Acquired ==
    /\ browser = "answered"
    /\ browser' \in IF handler = "active" THEN {"held", "raised"} ELSE {"raised"}
    /\ UNCHANGED <<handler, browserHost, task, releaser, leaseVars, sends>>

-----------------------------------------------------------------------------
(* BrowserConnection.release() *)

\* _release_done runs a step after the task failed; a call in between joins it.
ReleaseDone ==
    /\ task = "failed"
    /\ task' = "none"
    /\ releaser' = Told("error")
    /\ UNCHANGED <<handler, browser, browserHost, leaseVars, sends>>

\* One request for all who wait; after a failure another.  A handler that has ended
\* cannot ask any more.
Release(c) ==
    /\ browser = "held" /\ releaser[c] = "idle"
    /\ IF task # "none" THEN UNCHANGED <<task, sends>>
       ELSE IF handler = "ended" THEN task' = "failed" /\ UNCHANGED sends
       ELSE sends[1] < MaxSends /\ task' = "asking" /\ sends' = [sends EXCEPT ![1] = @ + 1]
    /\ releaser' = [releaser EXCEPT ![c] = IF task = "done" THEN "ok" ELSE "waiting"]
    /\ UNCHANGED <<handler, browser, browserHost, leaseVars>>

\* The host releases, or refuses, or is not reached.
HostReleases ==
    /\ task = "asking"
    /\ \/ task' = "answered" /\ browserHost' = "released"
       \/ task' = "failed" /\ UNCHANGED browserHost
    /\ UNCHANGED <<handler, browser, releaser, leaseVars, sends>>

Released ==
    /\ task = "answered" /\ task' = "done"
    /\ releaser' = Told("ok")
    /\ UNCHANGED <<handler, browser, browserHost, leaseVars, sends>>

\* Mutant: no shield.
CancelReleaserUnshielded(c) ==
    /\ releaser[c] = "waiting"
    /\ releaser' = [releaser EXCEPT ![c] = "gone"]
    /\ task' = IF task = "asking" THEN "none" ELSE task
    /\ UNCHANGED <<handler, browser, browserHost, leaseVars, sends>>

\* A waiting call is cancelled; the shared request goes on.
CancelReleaser(c) ==
    /\ releaser[c] = "waiting"
    /\ releaser' = [releaser EXCEPT ![c] = "gone"]
    /\ UNCHANGED <<handler, browser, browserHost, task, leaseVars, sends>>

-----------------------------------------------------------------------------
(* acquire_background_task() and BackgroundTaskLease.close() *)

AcquireTask ==
    /\ lease = "idle" /\ handler # "ended"
    /\ lease' \in {"asking", "unneeded", "raised"}   \* no client; not supported
    /\ UNCHANGED <<handler, browserVars, leaseHost, closed, closer, sends>>

\* A host without leases answers "method not found", or no lease.
TaskAcquired ==
    /\ lease = "asking"
    /\ \/ lease' = "held" /\ leaseHost' = "leased"
       \/ lease' \in {"unneeded", "raised"} /\ UNCHANGED leaseHost
    /\ UNCHANGED <<handler, browserVars, closed, closer, sends>>

SetCloser(c, at) == closer' = [closer EXCEPT ![c].at = at]

\* Mutant: closed when asked.
CloseAtOnce(c) ==
    /\ lease \in {"held", "unneeded"} /\ closer[c].at = "idle"
    /\ closed' = TRUE
    /\ IF closed \/ lease = "unneeded"
       THEN SetCloser(c, "ok") /\ UNCHANGED sends
       ELSE /\ sends[2] < MaxSends /\ sends' = [sends EXCEPT ![2] = @ + 1]
            /\ closer' = [closer EXCEPT ![c] = [at |-> "asking", scoped |-> handler # "ended"]]
    /\ UNCHANGED <<handler, browserVars, lease, leaseHost>>

\* request_persistent: for the handler as long as it is active, then for the
\* connection.  Calls that overlap ask twice.
Close(c) ==
    /\ lease \in {"held", "unneeded"} /\ closer[c].at = "idle"
    /\ closed' = (closed \/ lease = "unneeded")
    /\ IF closed'
       THEN SetCloser(c, "ok") /\ UNCHANGED sends
       ELSE /\ sends[2] < MaxSends /\ sends' = [sends EXCEPT ![2] = @ + 1]
            /\ closer' = [closer EXCEPT ![c] = [at |-> "asking", scoped |-> handler # "ended"]]
    /\ UNCHANGED <<handler, browserVars, lease, leaseHost>>

HostEndsLease(c) ==
    /\ closer[c].at = "asking"
    /\ \/ SetCloser(c, "answered") /\ leaseHost' = "released"
       \/ SetCloser(c, "error") /\ UNCHANGED leaseHost
    /\ UNCHANGED <<handler, browserVars, lease, closed, sends>>

Closes(c) ==
    /\ closer[c].at = "answered"
    /\ SetCloser(c, "ok") /\ closed' = TRUE
    /\ UNCHANGED <<handler, browserVars, lease, leaseHost, sends>>

CancelCloser(c) ==
    /\ closer[c].at \in {"asking", "answered"}
    /\ SetCloser(c, "gone")
    /\ UNCHANGED <<handler, browserVars, lease, leaseHost, closed, sends>>

-----------------------------------------------------------------------------
BrowserNext ==
    \/ Acquire \/ HostLeases \/ Acquired \/ HostReleases \/ Released \/ ReleaseDone
    \/ \E c \in Releasers : Release(c) \/ CancelReleaser(c)

LeaseNext ==
    \/ AcquireTask \/ TaskAcquired
    \/ \E c \in Closers : Close(c) \/ HostEndsLease(c) \/ Closes(c) \/ CancelCloser(c)

Next == CancelHandler \/ HandlerEnds \/ BrowserNext \/ LeaseNext

Spec == Init /\ [][Next]_vars

\* The handler of a tool ends, at the latest when the host cancels it, and the event
\* loop goes on; nothing is assumed of the host's answers.
Fairness == WF_vars(HandlerEnds) /\ WF_vars(Released) /\ WF_vars(ReleaseDone)

FairSpec == Spec /\ Fairness

-----------------------------------------------------------------------------
(* Properties *)

\* A call of release() that returned, or of close() on a lease that the host gave,
\* means that the host released it (context.py:299-318, 397-413).
ReturnedMeansReleased ==
    /\ (\E c \in Releasers : releaser[c] = "ok") => browserHost = "released"
    /\ (closed /\ lease = "held") => leaseHost = "released"

\* The answers of release() and close() agree with what the host did
\* (context.py:252-318, 367-413).
LeaseInv == TypeOK /\ ReturnedMeansReleased

\* Once a close() has returned, the host is not asked again, whatever calls overlapped
\* or failed before (context.py:397-413).
NothingSentAfterClose == (\E c \in Closers : closer[c].at = "ok") => sends'[2] = sends[2]

\* "Concurrent calls share one request" (context.py:302-306): release() refines the
\* shared cleanup, also while the callback that forgets a failed task is due.
ReleasePhase ==
    IF task = "none" THEN IF \E c \in Releasers : releaser[c] # "idle" THEN "failed" ELSE "open"
    ELSE IF task = "done" THEN "confirmed" ELSE "running"
Shared == INSTANCE SharedCleanup WITH Callers <- Releasers, phase <- ReleasePhase, caller <- releaser

\* Nobody waits in release() for ever, though the host never answers: the end of the
\* handler ends it (context.py:299-318).
ReleasersReturn == \A c \in Releasers : releaser[c] = "waiting" ~> releaser[c] # "waiting"

\* "Repeated calls are harmless" (context.py:398), and so are concurrent ones, of
\* either lease.
RepeatedCallsAreHarmless == Shared!Spec /\ [][NothingSentAfterClose]_vars /\ ReleasersReturn
=============================================================================
