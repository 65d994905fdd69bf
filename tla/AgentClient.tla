----------------------------- MODULE AgentClient -----------------------------
(***************************************************************************)
(* The agent client (agent/client.py): which connections it owns, from the *)
(* spawn of a process in create_session() until the cleanup of that        *)
(* process is confirmed, with the close() of the client and of its         *)
(* sessions (agent/session.py).                                            *)
(*                                                                         *)
(* The connection itself is what SharedCleanup says of it, which AcpRpc    *)
(* implements: close() joins the attempt in progress, begins one if there  *)
(* is none, or returns once one has succeeded.  A caller that is told the  *)
(* end of an attempt goes on in a step of its own.                         *)
(***************************************************************************)
CONSTANTS Conns,     \* bound: calls of create_session(), each with its connection
          Users,     \* bound: calls of Session.close() by the program
          Closers,   \* bound: calls of Client.close()
          Creator    \* the call of create_session() as a caller of rpc.close()

ASSUME CallersAreDistinct ==
    LET children == Closers \X {"session", "rpc"} IN
    Creator \notin Users \cup children /\ Users \cap children = {}

VARIABLES
    create,     \* where each create_session() is
    phase,      \* the cleanup of its connection
    knows,      \* what each caller of its close() knows of that cleanup
    rpcs,       \* _rpcs
    sessions,   \* _sessions
    closing     \* each call of Client.close()

vars == <<create, phase, knows, rpcs, sessions, closing>>

\* The coroutines that Client.close() gathers, for each connection it found.
Kinds == {"session", "rpc"}
Children == Closers \X Kinds
Callers == {Creator} \cup Users \cup Children

TypeOK ==
    /\ create \in [Conns -> {"idle", "spawning", "asking", "answered", "cleaning",
                             "returned", "raised"}]
    /\ phase \in [Conns -> {"none", "open", "running", "confirmed", "failed"}]
    /\ knows \in [Conns -> [Callers ->
                    {"idle", "created", "waiting", "ok", "error", "gone", "done"}]]
    /\ rpcs \in SUBSET Conns
    /\ sessions \in SUBSET Conns
    /\ closing \in [Closers -> {"idle", "gathering", "returned", "failed", "cancelled"}]

Init ==
    /\ create = [c \in Conns |-> "idle"]
    /\ phase = [c \in Conns |-> "none"]
    /\ knows = [c \in Conns |-> [x \in Callers |-> "idle"]]
    /\ rpcs = {} /\ sessions = {}
    /\ closing = [k \in Closers |-> "idle"]

-----------------------------------------------------------------------------
(* Helpers *)

\* rpc.close() up to its await.
Ask(c, x) ==
    /\ phase' = [phase EXCEPT ![c] = IF @ = "confirmed" THEN @ ELSE "running"]
    /\ knows' = [knows EXCEPT ![c][x] = IF phase[c] = "confirmed" THEN "ok" ELSE "waiting"]

\* The coroutines of `list(self._sessions)` and `list(self._rpcs)` that k gathers.
Found(kind) == IF kind = "session" THEN sessions ELSE rpcs
Asked(k) == {c \in Conns : \E kind \in Kinds : knows[c][<<k, kind>>] # "idle"}
ChildStates(k) == {knows[c][<<k, kind>>] : c \in Conns, kind \in Kinds}

\* The task of x was not cancelled with the close() that gathers it.
Allowed(x) == \A k \in Closers : x \in {k} \X Kinds => closing[k] # "cancelled"

\* _delete_session
DeleteSession(c) == sessions' = sessions \ {c} /\ rpcs' = rpcs \ {c}

-----------------------------------------------------------------------------
(* create_session() *)

\* Options that do not validate raise before anything is spawned.
Create(c) ==
    /\ create[c] = "idle"
    /\ \E next \in {"spawning", "raised"} : create' = [create EXCEPT ![c] = next]
    /\ UNCHANGED <<phase, knows, rpcs, sessions, closing>>

\* The process is there: its connection is owned before anything is asked of it.
Spawned(c) ==
    /\ create[c] = "spawning"
    /\ create' = [create EXCEPT ![c] = "asking"]
    /\ phase' = [phase EXCEPT ![c] = "open"]
    /\ rpcs' = rpcs \cup {c}
    /\ UNCHANGED <<knows, sessions, closing>>

\* No process was spawned, or the caller was cancelled meanwhile.
SpawnFails(c) ==
    /\ create[c] = "spawning"
    /\ create' = [create EXCEPT ![c] = "raised"]
    /\ UNCHANGED <<phase, knows, rpcs, sessions, closing>>

\* The answer to session/new or session/load, after that to initialize; a closed
\* connection answers nothing more.
Answered(c) ==
    /\ create[c] = "asking" /\ phase[c] = "open"
    /\ create' = [create EXCEPT ![c] = "answered"]
    /\ UNCHANGED <<phase, knows, rpcs, sessions, closing>>

\* create_session() resumes with the answer, whatever became of the connection.
Created(c) ==
    /\ create[c] = "answered"
    /\ create' = [create EXCEPT ![c] = "returned"]
    /\ sessions' = sessions \cup {c}
    /\ UNCHANGED <<phase, knows, rpcs, closing>>

\* Mutant: `except Exception`, which a cancellation passes by.
CreateFailsUncleaned(c) ==
    /\ create[c] \in {"asking", "answered"}
    /\ \/ create' = [create EXCEPT ![c] = "cleaning"] /\ Ask(c, Creator)
       \/ create' = [create EXCEPT ![c] = "raised"] /\ UNCHANGED <<phase, knows>>
    /\ UNCHANGED <<rpcs, sessions, closing>>

\* `except BaseException`: an error, a refused negotiation, a cancellation.
CreateFails(c) ==
    /\ create[c] \in {"asking", "answered"}
    /\ create' = [create EXCEPT ![c] = "cleaning"]
    /\ Ask(c, Creator)
    /\ UNCHANGED <<rpcs, sessions, closing>>

\* Mutant: the cleanup is tried again until it is confirmed, by nobody.
CreateCleanedOnly(c) ==
    /\ create[c] = "cleaning" /\ knows[c][Creator] \in {"ok", "done"}
    /\ create' = [create EXCEPT ![c] = "raised"]
    /\ rpcs' = IF knows[c][Creator] = "ok" THEN rpcs \ {c} ELSE rpcs
    /\ UNCHANGED <<phase, knows, sessions, closing>>

\* `await rpc.close()` returns, and only then the connection is discarded; when
\* it raises, or this task is cancelled again, the connection stays owned.
CreateCleaned(c) ==
    /\ create[c] = "cleaning" /\ knows[c][Creator] \in {"ok", "error", "gone", "done"}
    /\ create' = [create EXCEPT ![c] = "raised"]
    /\ rpcs' = IF knows[c][Creator] = "ok" THEN rpcs \ {c} ELSE rpcs
    /\ UNCHANGED <<phase, knows, sessions, closing>>

-----------------------------------------------------------------------------
(* The connection and whoever waits for it *)

\* The transport fails and cleans up by itself.
TransportFails(c) ==
    /\ phase[c] = "open"
    /\ phase' = [phase EXCEPT ![c] = "running"]
    /\ UNCHANGED <<create, knows, rpcs, sessions, closing>>

\* The attempt ends, and those who wait for it are told.
CleanupEnds(c) ==
    /\ phase[c] = "running"
    /\ \E end \in {"confirmed", "failed"} :
          /\ phase' = [phase EXCEPT ![c] = end]
          /\ knows' = [knows EXCEPT ![c] = [x \in Callers |->
                IF knows[c][x] # "waiting" THEN knows[c][x]
                ELSE IF end = "confirmed" THEN "ok" ELSE "error"]]
    /\ UNCHANGED <<create, rpcs, sessions, closing>>

\* Mutant: cancelling a caller cancels the attempt it waits for.
CancelWaiterUnshielded(c, x) ==
    /\ x \in {Creator} \cup Users /\ knows[c][x] = "waiting"
    /\ knows' = [knows EXCEPT ![c][x] = "gone"]
    /\ phase' = [phase EXCEPT ![c] = "failed"]
    /\ UNCHANGED <<create, rpcs, sessions, closing>>

\* A caller of its own task is cancelled, behind the shield or just after it.
CancelWaiter(c, x) ==
    /\ x \in {Creator} \cup Users /\ knows[c][x] \in {"waiting", "ok"}
    /\ knows' = [knows EXCEPT ![c][x] = IF @ = "ok" THEN "done" ELSE "gone"]
    /\ UNCHANGED <<create, phase, rpcs, sessions, closing>>

-----------------------------------------------------------------------------
(* Session.close() *)

UserCloses(u, c) ==
    /\ create[c] = "returned" /\ \A d \in Conns : knows[d][u] = "idle"
    /\ Ask(c, u)
    /\ UNCHANGED <<create, rpcs, sessions, closing>>

\* `await self._rpc.close()` returned, to the program or to a gathered coroutine.
SessionClosed(c, x) ==
    /\ x \in Users \cup (Closers \X {"session"}) /\ knows[c][x] = "ok" /\ Allowed(x)
    /\ knows' = [knows EXCEPT ![c][x] = "done"]
    /\ DeleteSession(c)
    /\ UNCHANGED <<create, phase, closing>>

-----------------------------------------------------------------------------
(* Client.close() *)

\* gather() makes a task for each coroutine.
Close(k) ==
    /\ closing[k] = "idle"
    /\ closing' = [closing EXCEPT ![k] = "gathering"]
    /\ knows' = [c \in Conns |-> [x \in Callers |->
          IF \E kind \in Kinds : x = <<k, kind>> /\ c \in Found(kind) THEN "created"
          ELSE knows[c][x]]]
    /\ UNCHANGED <<create, phase, rpcs, sessions>>

ChildStarts(c, x) ==
    /\ knows[c][x] = "created" /\ Allowed(x)
    /\ Ask(c, x)
    /\ UNCHANGED <<create, rpcs, sessions, closing>>

\* rpc.close() returned to a gathered coroutine.
RpcClosed(c, k) ==
    /\ knows[c][<<k, "rpc">>] = "ok" /\ Allowed(<<k, "rpc">>)
    /\ knows' = [knows EXCEPT ![c][<<k, "rpc">>] = "done"]
    /\ UNCHANGED <<create, phase, rpcs, sessions, closing>>

\* Mutant: gather(..., return_exceptions=True).
GatheredAnyhow(k) ==
    /\ closing[k] = "gathering" /\ ChildStates(k) \subseteq {"idle", "done", "error"}
    /\ closing' = [closing EXCEPT ![k] = "returned"]
    /\ rpcs' = {} /\ sessions' = {}
    /\ UNCHANGED <<create, phase, knows>>

\* Every gathered coroutine returned; both sets are cleared.
Gathered(k) ==
    /\ closing[k] = "gathering" /\ ChildStates(k) \subseteq {"idle", "done"}
    /\ closing' = [closing EXCEPT ![k] = "returned"]
    /\ rpcs' = {} /\ sessions' = {}
    /\ UNCHANGED <<create, phase, knows>>

\* One of them raised; the others go on.
GatherFails(k) ==
    /\ closing[k] = "gathering" /\ "error" \in ChildStates(k)
    /\ closing' = [closing EXCEPT ![k] = "failed"]
    /\ UNCHANGED <<create, phase, knows, rpcs, sessions>>

\* The caller of close() is cancelled: it raises, now or when a coroutine has,
\* and gather() cancels what it gathered.
CancelClose(k) ==
    /\ closing[k] = "gathering"
    /\ closing' = [closing EXCEPT ![k] = "cancelled"]
    /\ UNCHANGED <<create, phase, knows, rpcs, sessions>>

\* The cancellation reaches one of them, before it started, while it waited for
\* an attempt that goes on, or after it was told of its success.
ChildCancelled(c, x) ==
    /\ ~Allowed(x) /\ knows[c][x] \in {"created", "waiting", "ok"}
    /\ knows' = [knows EXCEPT ![c][x] = IF @ = "created" THEN "idle"
                                        ELSE IF @ = "waiting" THEN "gone" ELSE "done"]
    /\ UNCHANGED <<create, phase, rpcs, sessions, closing>>

-----------------------------------------------------------------------------
CreateNext == \E c \in Conns :
    \/ Create(c) \/ Spawned(c) \/ SpawnFails(c) \/ Answered(c) \/ Created(c)
    \/ CreateFails(c) \/ CreateCleaned(c)
ConnNext == \E c \in Conns :
    \/ TransportFails(c) \/ CleanupEnds(c)
    \/ \E x \in Callers : \/ CancelWaiter(c, x) \/ SessionClosed(c, x)
                          \/ ChildStarts(c, x) \/ ChildCancelled(c, x)
    \/ \E u \in Users : UserCloses(u, c)
    \/ \E k \in Closers : RpcClosed(c, k)
CloseNext == \E k \in Closers : Close(k) \/ Gathered(k) \/ GatherFails(k) \/ CancelClose(k)

Next == CreateNext \/ ConnNext \/ CloseNext

Spec == Init /\ [][Next]_vars

\* The event loop resumes what is ready, and an attempt at a cleanup ends.
\* Nothing is assumed of the spawn or of the answers of the agent.
Fairness ==
    /\ \A c \in Conns : /\ WF_vars(CreateCleaned(c)) /\ WF_vars(CleanupEnds(c))
                        /\ \A x \in Callers : /\ WF_vars(SessionClosed(c, x))
                                              /\ WF_vars(ChildStarts(c, x))
                        /\ \A k \in Closers : WF_vars(RpcClosed(c, k))
    /\ \A k \in Closers : WF_vars(Gathered(k)) /\ WF_vars(GatherFails(k))

FairSpec == Spec /\ Fairness

-----------------------------------------------------------------------------
(* Properties *)

\* A process whose session nobody was given is being cleaned up, or was: the
\* creation may fail or be cancelled at any of its awaits, the cleanup's own
\* included (client.py:146-150).
AbandonedIsCleanedUp ==
    \A c \in Conns : create[c] = "raised" => phase[c] # "open"

\* What holds of every connection at all times: its fields are of their types, and it
\* is cleaned up when its creation failed (client.py:139-150).
ClientInv == TypeOK /\ AbandonedIsCleanedUp

\* Whoever stops owning a connection knows its cleanup to be confirmed, except
\* that a Client.close() clears what was added while it awaited its own
\* (client.py:146-150, 162-167, 188-190).
DropsOnlyConfirmed ==
    \A c \in rpcs \ rpcs' :
        \/ phase[c] = "confirmed"
        \/ \E k \in Closers : /\ closing[k] = "gathering" /\ closing'[k] = "returned"
                              /\ c \notin Asked(k)

\* When Client.close() returns, every connection owned when it was called is
\* cleaned up, those still initializing included, and whoever failed or was
\* cancelled before: a retry reaches them (client.py:158-167).
CloseConfirms ==
    \A k \in Closers : (closing[k] = "gathering" /\ closing'[k] = "returned") =>
        \A c \in Asked(k) : phase[c] = "confirmed"

\* Every Client.close() that begins asks every owned connection to close, so
\* that a failed or cancelled one can be retried (client.py:162-165).
CloseAsksAll ==
    \A k \in Closers : (closing[k] = "idle" /\ closing'[k] = "gathering") =>
        rpcs \subseteq Asked(k)'

\* "Their shielded RPC cleanup remains owned until confirmed"
\* (client.py:160-161), in the three respects above.
OwnershipIsKept == [][DropsOnlyConfirmed /\ CloseConfirms /\ CloseAsksAll]_vars

\* Client.close() ends, one way or another, although agents may never answer,
\* and so does a creation that failed (client.py:146-167).
ClosesEnd ==
    /\ \A k \in Closers : closing[k] = "gathering" ~> closing[k] # "gathering"
    /\ \A c \in Conns : create[c] = "cleaning" ~> create[c] = "raised"

\* What this module assumes of each connection is what AcpRpc implements
\* (rpc.py:183-201): the same abstract cleanup, for the callers listed here.
Phase(c) == IF phase[c] = "none" THEN "open" ELSE phase[c]
Shown(know) == IF know = "created" THEN "idle" ELSE IF know = "done" THEN "ok" ELSE know
Knows(c) == [x \in Callers |-> Shown(knows[c][x])]
Shared(c) == INSTANCE SharedCleanup WITH phase <- Phase(c), caller <- Knows(c)
UsesSharedCleanup ==
    /\ \A c \in Conns : Shared(c)!Init
    /\ [][\A c \in Conns : Shared(c)!Next \/ UNCHANGED <<Phase(c), Knows(c)>>]_vars
=============================================================================
