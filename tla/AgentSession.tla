----------------------------- MODULE AgentSession -----------------------------
(***************************************************************************)
(* One agent session (agent/session.py): its runs, the updates that the    *)
(* agent streams during a turn and the events that each run collects,      *)
(* steering, cancellation, close, and listeners that raise.                *)
(*                                                                         *)
(* The connection is AcpRpc's, of which this module keeps that both        *)
(* streams are in order, that a request is answered or rejected, and that  *)
(* an exception in a notification handler ends the reader and with it the  *)
(* connection.  The agent is external.                                     *)
(***************************************************************************)
EXTENDS Naturals, Sequences, SequencesExt

CONSTANTS Runs,        \* bound: calls of run_and_wait()
          Steers,      \* bound: calls of steer()
          Kinds,       \* kinds of updates that the agent sends
          MaxUpdates,  \* bound: updates of the agent
          MaxRaises,   \* bound: listeners that raise
          None

ASSUME SessionAssumption ==
    /\ None \notin Runs /\ MaxUpdates \in Nat /\ MaxRaises \in Nat
    /\ Kinds \subseteq {"text", "thought", "progress", "result", "compaction"}

VARIABLES
    rpc,         \* the connection is open
    closed, running,   \* _closed, _running
    handlers,    \* runs whose notification handler is subscribed
    phase,       \* of each run
    events,      \* of each run
    thinking,    \* thinking_active of each run
    seen,        \* _seen_compactions, for the one marker of the model
    steer,       \* each call of steer(): [run, at, turn]
    raises,      \* listeners that raised
    toAgent, fromAgent,   \* the streams
    turns,       \* the agent: its turns that are not answered, the latest last
    log          \* history variable: the updates that the agent sent

runVars == <<running, handlers, phase, events, thinking>>
agentVars == <<turns, log>>
vars == <<rpc, closed, runVars, seen, steer, raises, toAgent, fromAgent, agentVars>>

InFlight == {"prompting", "answered", "rejected", "cancelling"}

\* The types of the events that do not come from the agent.
OwnTypes == {"agent.start", "user.message", "thinking_start", "thinking_end", "content_end",
             "assistant.message", "agent.end", "agent.error"}

TypeOK ==
    /\ rpc \in BOOLEAN /\ closed \in BOOLEAN /\ running \in BOOLEAN
    /\ handlers \subseteq Runs
    /\ phase \in [Runs -> {"idle", "returned", "failed", "cancelled"} \cup InFlight]
    /\ events \in [Runs -> Seq([type : Kinds \cup OwnTypes, turn : Runs \cup {None},
                               n : 0..MaxUpdates])]
    /\ thinking \in [Runs -> BOOLEAN] /\ seen \in BOOLEAN
    /\ steer \in [Steers -> [run : Runs \cup {None}, at : {"idle", "waiting", "returned", "failed"},
                             turn : Runs \cup {None}]]
    /\ raises \in 0..MaxRaises
    /\ toAgent \in Seq([type : {"prompt", "cancel"}, of : Runs] \cup [type : {"steer"}, of : Steers])
    /\ fromAgent \in Seq([type : Kinds \cup {"answer"}, turn : Runs, n : 0..MaxUpdates])
    /\ turns \in Seq(Runs)
    /\ log \in Seq([type : Kinds, turn : Runs, n : 1..MaxUpdates])

Init ==
    /\ rpc = TRUE /\ closed = FALSE /\ running = FALSE
    /\ handlers = {}
    /\ phase = [r \in Runs |-> "idle"]
    /\ events = [r \in Runs |-> <<>>]
    /\ thinking = [r \in Runs |-> FALSE] /\ seen = FALSE
    /\ steer = [s \in Steers |-> [run |-> None, at |-> "idle", turn |-> None]]
    /\ raises = 0
    /\ toAgent = <<>> /\ fromAgent = <<>> /\ turns = <<>> /\ log = <<>>

-----------------------------------------------------------------------------
(* Events *)

Event(type) == [type |-> type, turn |-> None, n |-> 0]
Types(r) == {events[r][i].type : i \in 1..Len(events[r])}
Emit(r, new) == events' = [events EXCEPT ![r] = @ \o new]

Raise == raises < MaxRaises /\ raises' = raises + 1

\* The connection ends: what waits is rejected.
Rejected == [r \in Runs |-> IF phase[r] = "prompting" THEN "rejected" ELSE phase[r]]
SteersRejected == [s \in Steers |->
    IF steer[s].at = "waiting" THEN [steer[s] EXCEPT !.at = "failed"] ELSE steer[s]]

-----------------------------------------------------------------------------
(* run_and_wait() *)

\* From the checks to the prompt.
Start(r) ==
    /\ phase[r] = "idle" /\ ~closed /\ ~running
    /\ running' = TRUE
    /\ handlers' = handlers \cup {r}
    /\ Emit(r, <<Event("agent.start"), Event("user.message")>>)
    /\ phase' = [phase EXCEPT ![r] = IF rpc THEN "prompting" ELSE "rejected"]
    /\ toAgent' = IF rpc THEN Append(toAgent, [type |-> "prompt", of |-> r]) ELSE toAgent
    /\ UNCHANGED <<rpc, closed, thinking, seen, steer, raises, fromAgent, agentVars>>

\* A listener of the first events raises: that is before the try.
StartRaises(r) ==
    /\ phase[r] = "idle" /\ ~closed /\ ~running
    /\ Raise
    /\ running' = TRUE
    /\ handlers' = handlers \cup {r}
    /\ Emit(r, <<Event("agent.start")>>)
    /\ phase' = [phase EXCEPT ![r] = "failed"]
    /\ UNCHANGED <<rpc, closed, thinking, seen, steer, toAgent, fromAgent, agentVars>>

\* What the finally does.
Leave(r, outcome) ==
    /\ phase' = [phase EXCEPT ![r] = outcome]
    /\ handlers' = handlers \ {r}
    /\ running' = FALSE

Ending(r) ==
    (IF thinking[r] THEN <<Event("thinking_end")>> ELSE <<>>) \o <<Event("content_end")>>
    \o (IF "text" \in Types(r) THEN <<Event("assistant.message")>> ELSE <<>>)

LastEvents(r) == Ending(r) \o <<Event("agent.end")>>

\* The answer is taken up: the last events, and the response.
Return(r) ==
    /\ phase[r] = "answered"
    /\ Emit(r, LastEvents(r))
    /\ thinking' = [thinking EXCEPT ![r] = FALSE]
    /\ Leave(r, "returned")
    /\ UNCHANGED <<rpc, closed, seen, steer, raises, toAgent, fromAgent, agentVars>>

\* A listener of one of these events raises.
ReturnRaises(r) ==
    /\ phase[r] = "answered"
    /\ Raise
    /\ \E i \in DOMAIN LastEvents(r) :
          Emit(r, SubSeq(LastEvents(r), 1, i) \o <<Event("agent.error")>>)
    /\ thinking' = [thinking EXCEPT ![r] = FALSE]
    /\ Leave(r, "failed")
    /\ UNCHANGED <<rpc, closed, seen, steer, toAgent, fromAgent, agentVars>>

\* The request was rejected.
Fail(r) ==
    /\ phase[r] = "rejected"
    /\ Emit(r, <<Event("agent.error")>>)
    /\ Leave(r, "failed")
    /\ UNCHANGED <<rpc, closed, thinking, seen, steer, raises, toAgent, fromAgent, agentVars>>

\* The caller is cancelled, perhaps after the answer came.  A prompt that is not
\* written yet never is.
Cancel(r) ==
    /\ phase[r] \in InFlight \ {"cancelling"}
    /\ phase' = [phase EXCEPT ![r] = "cancelling"]
    /\ \/ UNCHANGED toAgent
       \/ \E i \in DOMAIN toAgent : /\ toAgent[i] = [type |-> "prompt", of |-> r]
                                   /\ toAgent' = RemoveAt(toAgent, i)
    /\ UNCHANGED <<rpc, closed, running, handlers, events, thinking, seen, steer, raises, fromAgent,
                   agentVars>>

\* The agent is told, if the connection is open.
Cancelled(r) ==
    /\ phase[r] = "cancelling"
    /\ toAgent' = IF rpc THEN Append(toAgent, [type |-> "cancel", of |-> r]) ELSE toAgent
    /\ Emit(r, <<Event("agent.error")>>)
    /\ Leave(r, "cancelled")
    /\ UNCHANGED <<rpc, closed, thinking, seen, steer, raises, fromAgent, agentVars>>

-----------------------------------------------------------------------------
(* _handle_session_update(), called for the handler of the run in progress *)

\* Mutant: the chunk that starts the thinking is not shown.
EmittedShort(r, u) ==
    IF u.type = "compaction" /\ seen THEN <<>>
    ELSE IF u.type = "thought" /\ ~thinking[r] THEN <<Event("thinking_start")>> ELSE <<u>>

\* The events of an update; of a marker only the first counts.
Emitted(r, u) ==
    IF u.type = "compaction" /\ seen THEN <<>>
    ELSE (IF u.type = "thought" /\ ~thinking[r] THEN <<Event("thinking_start")>> ELSE <<>>) \o <<u>>

\* A snapshot of a tool replaces the earlier one.
Snapshots(s) == {i \in DOMAIN s : s[i].type = "progress"}
Kept(r, u) ==
    IF u.type = "progress" /\ Snapshots(events[r]) # {}
    THEN RemoveAt(events[r], Min(Snapshots(events[r]))) ELSE events[r]

\* Mutant: markers are not remembered.
NoteUnseen(K, u) ==
    /\ thinking' = [r \in Runs |-> thinking[r] \/ (r \in K /\ u.type = "thought")]
    /\ UNCHANGED seen

Note(K, u) ==
    /\ thinking' = [r \in Runs |-> thinking[r] \/ (r \in K /\ u.type = "thought")]
    /\ seen' = (seen \/ (K # {} /\ u.type = "compaction"))

Update ==
    /\ rpc /\ fromAgent # <<>> /\ Head(fromAgent).type # "answer"
    /\ LET u == Head(fromAgent) IN
       /\ events' = [r \in Runs |->
             IF r \in handlers THEN Kept(r, u) \o Emitted(r, u) ELSE events[r]]
       /\ Note(handlers, u)
    /\ fromAgent' = Tail(fromAgent)
    /\ UNCHANGED <<rpc, closed, running, handlers, phase, steer, raises, toAgent, agentVars>>

\* A listener of the update raises, and with it the reader: the connection ends.
UpdateRaises ==
    /\ rpc /\ fromAgent # <<>> /\ Head(fromAgent).type # "answer"
    /\ Raise
    /\ LET u == Head(fromAgent) IN
       /\ \E r \in handlers : \E i \in 1..Len(Emitted(r, u)) :
             events' = [events EXCEPT ![r] = Kept(r, u) \o SubSeq(Emitted(r, u), 1, i)]
       /\ Note(handlers, u)
    /\ rpc' = FALSE /\ fromAgent' = <<>> /\ toAgent' = <<>>
    /\ phase' = Rejected /\ steer' = SteersRejected
    /\ UNCHANGED <<closed, running, handlers, agentVars>>

\* The answer to a prompt; the run takes it up a little later.
Answered ==
    /\ rpc /\ fromAgent # <<>> /\ Head(fromAgent).type = "answer"
    /\ LET r == Head(fromAgent).turn IN
       phase' = [phase EXCEPT ![r] = IF @ = "prompting" THEN "answered" ELSE @]
    /\ fromAgent' = Tail(fromAgent)
    /\ UNCHANGED <<rpc, closed, running, handlers, events, thinking, seen, steer, raises, toAgent,
                   agentVars>>

-----------------------------------------------------------------------------
(* steer(), close(), and the end of the connection *)

\* Mutant: whether a run is in progress is not asked.
SteerAnytime(s) ==
    /\ steer[s].at = "idle" /\ ~closed /\ rpc
    /\ \E r \in Runs \cup {None} :
          /\ IF handlers = {} THEN r = None ELSE r \in handlers
          /\ steer' = [steer EXCEPT ![s] = [run |-> r, at |-> "waiting", turn |-> None]]
    /\ toAgent' = Append(toAgent, [type |-> "steer", of |-> s])
    /\ UNCHANGED <<rpc, closed, runVars, seen, raises, fromAgent, agentVars>>

Steer(s) ==
    /\ steer[s].at = "idle" /\ ~closed /\ running /\ rpc
    /\ \E r \in handlers : steer' = [steer EXCEPT ![s] = [run |-> r, at |-> "waiting", turn |-> None]]
    /\ toAgent' = Append(toAgent, [type |-> "steer", of |-> s])
    /\ UNCHANGED <<rpc, closed, runVars, seen, raises, fromAgent, agentVars>>

\* Mutant: a transport that fails keeps the prompt waiting.
ConnectionEndsQuietly(byUser) ==
    /\ rpc /\ rpc' = FALSE
    /\ closed' = (closed \/ byUser)
    /\ steer' = SteersRejected
    /\ fromAgent' = <<>> /\ toAgent' = <<>>
    /\ UNCHANGED <<running, handlers, phase, events, thinking, seen, raises, agentVars>>

\* close() of the session, or the transport fails.
ConnectionEnds(byUser) ==
    /\ rpc /\ rpc' = FALSE
    /\ closed' = (closed \/ byUser)
    /\ phase' = Rejected /\ steer' = SteersRejected
    /\ fromAgent' = <<>> /\ toAgent' = <<>>
    /\ UNCHANGED <<running, handlers, events, thinking, seen, raises, agentVars>>

-----------------------------------------------------------------------------
(* The agent: it reads in order, streams updates of its turns, and answers *)

AgentReads ==
    LET m == Head(toAgent) IN
    /\ rpc /\ toAgent # <<>> /\ toAgent' = Tail(toAgent)
    /\ turns' = IF m.type = "prompt" THEN Append(turns, m.of) ELSE turns
    /\ steer' = IF m.type # "steer" THEN steer
                ELSE [steer EXCEPT ![m.of].at = "returned",
                                   ![m.of].turn = IF turns = <<>> THEN None ELSE Last(turns)]
    /\ UNCHANGED <<rpc, closed, runVars, seen, raises, fromAgent, log>>

AgentSends(r, kind) ==
    LET u == [type |-> kind, turn |-> r, n |-> Len(log) + 1] IN
    /\ rpc /\ Contains(turns, r) /\ Len(log) < MaxUpdates
    /\ fromAgent' = Append(fromAgent, u)
    /\ log' = Append(log, u)
    /\ UNCHANGED <<rpc, closed, runVars, seen, steer, raises, toAgent, turns>>

AgentAnswers(r) ==
    /\ rpc /\ \E i \in DOMAIN turns : turns[i] = r /\ turns' = RemoveAt(turns, i)
    /\ fromAgent' = Append(fromAgent, [type |-> "answer", turn |-> r, n |-> 0])
    /\ UNCHANGED <<rpc, closed, runVars, seen, steer, raises, toAgent, log>>

-----------------------------------------------------------------------------
Next ==
    \/ \E r \in Runs : \/ Start(r) \/ StartRaises(r) \/ Return(r) \/ ReturnRaises(r) \/ Fail(r)
                       \/ Cancel(r) \/ Cancelled(r) \/ AgentAnswers(r)
                       \/ \E kind \in Kinds : AgentSends(r, kind)
    \/ Update \/ UpdateRaises \/ Answered \/ AgentReads
    \/ \E s \in Steers : Steer(s)
    \/ \E byUser \in BOOLEAN : ConnectionEnds(byUser)

Spec == Init /\ [][Next]_vars

\* The event loop runs what is ready, the streams are read; nothing is assumed of
\* the agent's answers.
Fairness ==
    /\ \A r \in Runs : WF_vars(Return(r)) /\ WF_vars(Fail(r)) /\ WF_vars(Cancelled(r))
    /\ WF_vars(AgentReads) /\ WF_vars(Update) /\ WF_vars(Answered)

FairSpec == Spec /\ Fairness

-----------------------------------------------------------------------------
(* Properties *)

\* The updates of its turn that a run must show: of the snapshots of a tool the
\* last, of the markers the first.
Due(r) ==
    LET sent == {i \in DOMAIN log : log[i].turn = r}
        later(i) == \E j \in sent : i < j /\ log[j].type = "progress"
    IN {log[i] : i \in {j \in sent : /\ log[j].type = "progress" => ~later(j)
                                    /\ log[j].type # "compaction"}}

\* The updates of a run stand in the order in which they were sent.
Ascending(s) == \A i, j \in DOMAIN s : (i < j /\ s[i].n > 0 /\ s[j].n > 0) => s[i].n < s[j].n

\* A run that returned collected every update of its turn, in the order in which
\* they were sent, although it took up the answer later than the reader, and
\* whatever an abandoned turn still sends (session.py:105-138, 195-269).
UpdatesReachTheirRun ==
    \A r \in Runs : phase[r] = "returned" =>
        /\ \A u \in Due(r) : u.type # "progress" => Contains(events[r], u)
        /\ Ascending(events[r])

\* Updates of another run's turn reach a run only after that run was cancelled or
\* failed, never after it returned (session.py:105-115, 139-149).
ForeignOnlyAfterAbandon ==
    \A r \in Runs : \A i \in DOMAIN events[r] :
        LET other == events[r][i].turn IN
        other \notin {r, None} => phase[other] \in {"cancelled", "failed"}

\* "retaining only the latest snapshot for each tool call" (types.py:238-239): at
\* most one, and none that a later one of the run replaced (session.py:292-309).
LatestSnapshotOnly ==
    \A r \in Runs :
        /\ \A i, j \in Snapshots(events[r]) : i = j
        /\ phase[r] = "returned" => \A u \in Due(r) : u.type = "progress" =>
              \E i \in Snapshots(events[r]) : events[r][i].n >= u.n

\* A marker is announced once in a session, in whichever run it arrives, although
\* the agent repeats it (session.py:197-203).
CompactedOnce ==
    \A q, r \in Runs : \A i \in DOMAIN events[q], j \in DOMAIN events[r] :
        (events[q][i].type = "compaction" /\ events[r][j].type = "compaction") => q = r /\ i = j

\* In a run that returned, what the agent thought is between one start and one end
\* (session.py:122-124, 211-220).
ThinkingBracketed ==
    \A r \in Runs : (phase[r] = "returned" /\ "thought" \in Types(r)) =>
        LET at(type) == {i \in 1..Len(events[r]) : events[r][i].type = type} IN
        \E a, b \in 1..Len(events[r]) :
            /\ at("thinking_start") = {a} /\ at("thinking_end") = {b}
            /\ \A i \in at("thought") : a < i /\ i < b

\* A steering message gets into the turn of the run that was in progress when
\* steer() was called, or into none, or into a turn that was abandoned before
\* (session.py:156-166).
SteersTheRunMeant ==
    \A s \in Steers : LET run == steer[s].run turn == steer[s].turn IN
        turn # None => /\ run # None
                       /\ turn = run \/ phase[turn] \in {"cancelling", "cancelled", "failed"}

\* "Cannot run a Kodelet session while another run is in progress" (session.py:92):
\* the session refuses runs only while one is in progress, except that it refuses
\* them for ever once a listener of the first events of a run raised
\* (session.py:91-117).
RefusesOnlyWhileRunning ==
    running => \E r \in handlers : phase[r] \in InFlight \/ (phase[r] = "failed" /\ raises > 0)

\* What holds of a session at all times: whose updates its runs take, what it keeps of
\* them, and when it refuses a run (session.py:79-177).
SessionInv ==
    /\ TypeOK
    /\ ForeignOnlyAfterAbandon /\ LatestSnapshotOnly /\ CompactedOnce /\ ThinkingBracketed
    /\ RefusesOnlyWhileRunning

\* When the session closes or the transport fails, every run ends, and so does a
\* run that is cancelled; the agent learns that the run of a turn was cancelled, or
\* has answered it, unless the connection ends (session.py:119-149, 168-174).
RunsEnd == \A r \in Runs :
    /\ (phase[r] \in InFlight /\ ~rpc) ~> phase[r] \notin InFlight
    /\ phase[r] = "cancelling" ~> phase[r] = "cancelled"
    /\ (phase[r] = "cancelling" /\ Contains(turns, r)) ~>
         (~rpc \/ ~Contains(turns, r) \/ Contains(toAgent, [type |-> "cancel", of |-> r]))
=============================================================================
