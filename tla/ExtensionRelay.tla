---------------------------- MODULE ExtensionRelay ----------------------------
(***************************************************************************)
(* The relay of inline extensions (agent/relay.py): the channels that a    *)
(* runner opens on one ACP session connection, the worker, the tool and    *)
(* the local UI interaction of each, and how a channel and the relay end.  *)
(*                                                                         *)
(* A channel's key is its run and extension.  Its dispatcher and reverse   *)
(* client are those of ExtensionRuntime; of them this module keeps that    *)
(* closing them cancels the tools and waits for their end.                 *)
(***************************************************************************)
EXTENDS Naturals, Sequences

CONSTANTS Keys, Sessions, None

ASSUME RelayAssumption == None \notin Sessions

VARIABLES
    rpc,        \* the connection: "open", "closed"
    creation,   \* session/new or session/load: "idle", "asked", "created", "failed"
    bound,      \* _session_id
    created,    \* history variable: the session that creation returned
    relay,      \* close(): "open", "gathering", "closed"
    channels, retired,   \* _channels, _retired
    starts,     \* history variable: channels made for a key
    session,    \* envelope["sessionId"] of the channel
    messages,   \* _messages
    worker, tool, ui,    \* the channel's tasks
    dispose,    \* its _dispose task
    notify,     \* the argument of that task
    told,       \* history variable: how often the host was told that the channel ended
    hostClosed  \* history variable: the host closed the channel

bindVars == <<creation, bound, created>>
taskVars == <<worker, tool, ui>>
endVars == <<channels, retired, dispose, notify>>
historyVars == <<starts, session, told, hostClosed>>
vars == <<rpc, bindVars, relay, messages, taskVars, endVars, historyVars>>

ToolActive == {"running", "asking", "sending", "answering"}

TypeOK ==
    /\ rpc \in {"open", "closed"}
    /\ creation \in {"idle", "asked", "created", "failed"}
    /\ bound \in Sessions \cup {None} /\ created \in Sessions \cup {None}
    /\ relay \in {"open", "gathering", "closed"}
    /\ channels \subseteq Keys /\ retired \subseteq Keys
    /\ starts \in [Keys -> Nat] /\ told \in [Keys -> Nat]
    /\ session \in [Keys -> Sessions \cup {None}]
    /\ messages \in [Keys -> Seq({"initialize", "call"})]
    /\ worker \in [Keys -> {"none", "starting", "waiting", "cancelled", "ended"}]
    /\ tool \in [Keys -> {"none"} \cup ToolActive \cup {"cleaning", "ended"}]
    /\ ui \in [Keys -> {"none", "shown", "cleaning", "ended"}]
    /\ dispose \in [Keys -> {"none", "created", "dispatcher", "joining", "telling", "ended"}]
    /\ notify \in [Keys -> BOOLEAN] /\ hostClosed \in [Keys -> BOOLEAN]

Init ==
    /\ rpc = "open" /\ relay = "open"
    /\ creation = "idle" /\ bound = None /\ created = None
    /\ channels = {} /\ retired = {}
    /\ starts = [k \in Keys |-> 0] /\ told = [k \in Keys |-> 0]
    /\ session = [k \in Keys |-> None]
    /\ messages = [k \in Keys |-> <<>>]
    /\ worker = [k \in Keys |-> "none"]
    /\ tool = [k \in Keys |-> "none"]
    /\ ui = [k \in Keys |-> "none"]
    /\ dispose = [k \in Keys |-> "none"]
    /\ notify = [k \in Keys |-> FALSE] /\ hostClosed = [k \in Keys |-> FALSE]

-----------------------------------------------------------------------------
(* The session of the connection *)

MayBind(s) == bound \in {None, s}

\* session/load binds the session it asks for; session/new learns it from the answer.
AskSession(s) ==
    /\ creation = "idle" /\ rpc = "open"
    /\ creation' = "asked"
    /\ bound' \in {None, s}
    /\ UNCHANGED <<rpc, created, relay, messages, taskVars, endVars, historyVars>>

\* Mutant: the pinned session is not compared with the answer.
SessionAnsweredUnchecked(s) ==
    /\ creation = "asked" /\ rpc = "open"
    /\ creation' = "created" /\ created' = s /\ bound' = s
    /\ UNCHANGED <<rpc, relay, messages, taskVars, endVars, historyVars>>

\* The answer must name the session that a runner pinned meanwhile.
SessionAnswered(s) ==
    /\ creation = "asked" /\ rpc = "open"
    /\ IF MayBind(s)
       THEN creation' = "created" /\ created' = s /\ bound' = s
       ELSE creation' = "failed" /\ UNCHANGED <<created, bound>>
    /\ UNCHANGED <<rpc, relay, messages, taskVars, endVars, historyVars>>

-----------------------------------------------------------------------------
(* How a channel ends *)

Closed(k) == k \notin channels

\* Mutant: the key is not remembered.
RetireForgotten(K, n) ==
    /\ channels' = channels \ K
    /\ retired' = retired
    /\ dispose' = [k \in Keys |-> IF k \in K \cap channels THEN "created" ELSE dispose[k]]
    /\ notify' = [k \in Keys |-> IF k \in K \cap channels THEN n ELSE notify[k]]

\* _retire: only a channel still registered is disposed of.
Retire(K, n) ==
    /\ channels' = channels \ K
    /\ retired' = retired \cup K
    /\ dispose' = [k \in Keys |-> IF k \in K \cap channels THEN "created" ELSE dispose[k]]
    /\ notify' = [k \in Keys |-> IF k \in K \cap channels THEN n ELSE notify[k]]

\* _failed
Fails(k) == Retire({k}, TRUE)

-----------------------------------------------------------------------------
(* accept(): a frame that breaks a rule is refused and changes nothing *)

Admitted(s) == relay = "open" /\ rpc = "open" /\ creation \in {"asked", "created"} /\ MayBind(s)

\* The first frame of a channel pins the session if nothing has yet.
AcceptInitialize(k, s) ==
    /\ Admitted(s) /\ k \notin retired \cup channels
    /\ bound' = s
    /\ channels' = channels \cup {k}
    /\ starts' = [starts EXCEPT ![k] = @ + 1]
    /\ session' = [session EXCEPT ![k] = s]
    /\ messages' = [messages EXCEPT ![k] = <<"initialize">>]
    /\ worker' = [worker EXCEPT ![k] = "starting"]
    /\ UNCHANGED <<rpc, creation, created, relay, tool, ui, retired, dispose, notify, told, hostClosed>>

\* bound: one tool call per channel.
AcceptCall(k, s) ==
    /\ Admitted(s) /\ k \in channels
    /\ tool[k] = "none" /\ \A i \in 1..Len(messages[k]) : messages[k][i] # "call"
    /\ messages' = [messages EXCEPT ![k] = Append(@, "call")]
    /\ UNCHANGED <<rpc, bindVars, relay, taskVars, endVars, historyVars>>

\* The host ends a channel, or one that is retired already.
AcceptClose(k, s) ==
    /\ Admitted(s) /\ k \in channels \cup retired
    /\ Retire({k}, FALSE)
    /\ hostClosed' = [hostClosed EXCEPT ![k] = @ \/ k \in channels]
    /\ UNCHANGED <<rpc, bindVars, relay, messages, taskVars, starts, session, told>>

-----------------------------------------------------------------------------
(* The worker *)

\* The entrypoint has registered the extension, or raised.
WorkerStarts(k) ==
    /\ worker[k] = "starting"
    /\ \/ worker' = [worker EXCEPT ![k] = "waiting"] /\ UNCHANGED endVars
       \/ worker' = [worker EXCEPT ![k] = "ended"] /\ Fails(k)
    /\ UNCHANGED <<rpc, bindVars, relay, messages, tool, ui, historyVars>>

\* The next frame is dispatched: a call starts its tool in a task of its own.  The
\* frame that the worker waited for is dispatched even if the channel closed since.
WorkerTakes(k) ==
    /\ worker[k] = "waiting" /\ messages[k] # <<>>
    /\ messages' = [messages EXCEPT ![k] = Tail(@)]
    /\ tool' = [tool EXCEPT ![k] = IF Head(messages[k]) = "call" THEN "running" ELSE @]
    /\ worker' = [worker EXCEPT ![k] = IF Closed(k) THEN "ended" ELSE @]
    /\ UNCHANGED <<rpc, bindVars, relay, ui, endVars, historyVars>>

WorkerEnds(k) ==
    /\ worker[k] = "cancelled"
    /\ worker' = [worker EXCEPT ![k] = "ended"]
    /\ UNCHANGED <<rpc, bindVars, relay, messages, tool, ui, endVars, historyVars>>

-----------------------------------------------------------------------------
(* The tool, its requests to the host, and the local UI *)

SetTool(k, x) == tool' = [tool EXCEPT ![k] = x]
SetUI(k, x) == ui' = [ui EXCEPT ![k] = x]

\* A request of the tool, or its result, goes out in a frame and waits for the ACK.
\* A closed channel refuses, and the tool ends.
ToolSends(k, x) ==
    /\ tool[k] = "running" /\ x \in {"sending", "answering"}
    /\ SetTool(k, IF Closed(k) \/ rpc = "closed" THEN "ended" ELSE x)
    /\ IF ~Closed(k) /\ rpc = "closed" THEN Fails(k) ELSE UNCHANGED endVars
    /\ UNCHANGED <<rpc, bindVars, relay, messages, worker, ui, historyVars>>

FrameAcked(k) ==
    /\ tool[k] \in {"sending", "answering"} /\ rpc = "open"
    /\ SetTool(k, IF tool[k] = "sending" THEN "running" ELSE "ended")
    /\ UNCHANGED <<rpc, bindVars, relay, messages, worker, ui, endVars, historyVars>>

\* The host refuses the frame, or the connection ends: the channel has failed.
FrameFails(k) ==
    /\ tool[k] \in {"sending", "answering"}
    /\ \E x \in {"running", "ended"} : (tool[k] = "answering" => x = "ended") /\ SetTool(k, x)
    /\ Fails(k)
    /\ UNCHANGED <<rpc, bindVars, relay, messages, worker, ui, historyVars>>

\* A UI request with a local handler does not leave the process.
ToolAsksUI(k) ==
    /\ tool[k] = "running" /\ ui[k] = "none" /\ ~Closed(k)
    /\ SetTool(k, "asking") /\ SetUI(k, "shown")
    /\ UNCHANGED <<rpc, bindVars, relay, messages, worker, endVars, historyVars>>

\* The user answers; a closed channel drops the answer.
UIAnswers(k) ==
    /\ ui[k] = "shown"
    /\ SetUI(k, "ended")
    /\ SetTool(k, IF tool[k] = "asking" /\ ~Closed(k) THEN "running" ELSE tool[k])
    /\ UNCHANGED <<rpc, bindVars, relay, messages, worker, endVars, historyVars>>

\* The request that the interaction is for has ended: done callback of its future.
UIUnlinked(k) ==
    /\ ui[k] = "shown" /\ tool[k] # "asking"
    /\ SetUI(k, "cleaning")
    /\ UNCHANGED <<rpc, bindVars, relay, messages, worker, tool, endVars, historyVars>>

\* The cleanup of the interaction may wait for the end of the tool.
UICleaned(k) ==
    /\ ui[k] = "cleaning" /\ tool[k] = "ended"
    /\ SetUI(k, "ended")
    /\ UNCHANGED <<rpc, bindVars, relay, messages, worker, tool, endVars, historyVars>>

\* $/cancelRequest, or the tool's own timeout.
ToolCancelled(k) ==
    /\ tool[k] \in ToolActive
    /\ SetTool(k, "cleaning")
    /\ UNCHANGED <<rpc, bindVars, relay, messages, worker, ui, endVars, historyVars>>

ToolCleaned(k) ==
    /\ tool[k] = "cleaning"
    /\ SetTool(k, "ended")
    /\ UNCHANGED <<rpc, bindVars, relay, messages, worker, ui, endVars, historyVars>>

-----------------------------------------------------------------------------
(* _dispose() and the channel's close() *)

SetDispose(k, x) == dispose' = [dispose EXCEPT ![k] = x]

\* close(): the worker and the interactions are cancelled.
DisposeStarts(k) ==
    /\ dispose[k] = "created"
    /\ SetDispose(k, "dispatcher")
    /\ worker' = [worker EXCEPT ![k] = IF @ = "ended" THEN @ ELSE "cancelled"]
    /\ SetUI(k, IF ui[k] = "shown" THEN "cleaning" ELSE ui[k])
    /\ UNCHANGED <<rpc, bindVars, relay, messages, tool, channels, retired, notify, historyVars>>

\* Mutant: the interactions are joined before the tools are cancelled.
CancelToolLate(k) ==
    /\ dispose[k] = "dispatcher" /\ tool[k] \in ToolActive
    /\ ui[k] \in {"none", "ended"}
    /\ SetTool(k, "cleaning")
    /\ UNCHANGED <<rpc, bindVars, relay, messages, worker, ui, endVars, historyVars>>

\* The dispatcher's close() cancels the tools and waits for their end.
CancelTool(k) ==
    /\ dispose[k] = "dispatcher" /\ tool[k] \in ToolActive
    /\ SetTool(k, "cleaning")
    /\ UNCHANGED <<rpc, bindVars, relay, messages, worker, ui, endVars, historyVars>>

DispatcherClosed(k) ==
    /\ dispose[k] = "dispatcher" /\ tool[k] \in {"none", "ended"}
    /\ SetDispose(k, "joining")
    /\ UNCHANGED <<rpc, bindVars, relay, messages, taskVars, channels, retired, notify, historyVars>>

\* Mutant: the interactions are cancelled, and not waited for.
ChannelClosedEarly(k) ==
    /\ dispose[k] = "joining" /\ worker[k] = "ended"
    /\ IF notify[k] /\ relay = "open" /\ rpc = "open"
       THEN SetDispose(k, "telling") /\ told' = [told EXCEPT ![k] = @ + 1]
       ELSE SetDispose(k, "ended") /\ UNCHANGED told
    /\ UNCHANGED <<rpc, bindVars, relay, messages, taskVars, channels, retired, notify, starts,
                   session, hostClosed>>

\* Worker and interactions are joined; then the host is told of a failure, unless
\* the relay is closing or the connection cannot take it.
ChannelClosed(k) ==
    /\ dispose[k] = "joining" /\ worker[k] = "ended" /\ ui[k] \in {"none", "ended"}
    /\ IF notify[k] /\ relay = "open" /\ rpc = "open"
       THEN SetDispose(k, "telling") /\ told' = [told EXCEPT ![k] = @ + 1]
       ELSE SetDispose(k, "ended") /\ UNCHANGED told
    /\ UNCHANGED <<rpc, bindVars, relay, messages, taskVars, channels, retired, notify, starts,
                   session, hostClosed>>

\* The host's answer, or the rejection when the connection closes.
ToldHost(k) ==
    /\ dispose[k] = "telling"
    /\ SetDispose(k, "ended")
    /\ UNCHANGED <<rpc, bindVars, relay, messages, taskVars, channels, retired, notify, historyVars>>

-----------------------------------------------------------------------------
(* The connection closes, and then the relay *)

RpcCloses ==
    /\ rpc = "open" /\ rpc' = "closed"
    /\ creation' = IF creation = "asked" THEN "failed" ELSE creation
    /\ UNCHANGED <<bound, created, relay, messages, taskVars, endVars, historyVars>>

CloseRelay ==
    /\ rpc = "closed" /\ relay = "open"
    /\ relay' = "gathering"
    /\ Retire(channels, FALSE)
    /\ UNCHANGED <<rpc, bindVars, messages, taskVars, historyVars>>

RelayClosed ==
    /\ relay = "gathering" /\ \A k \in Keys : dispose[k] \in {"none", "ended"}
    /\ relay' = "closed" /\ retired' = {}
    /\ UNCHANGED <<rpc, bindVars, messages, taskVars, channels, dispose, notify, historyVars>>

-----------------------------------------------------------------------------
SessionNext == \E s \in Sessions :
    \/ AskSession(s) \/ SessionAnswered(s)
    \/ \E k \in Keys : AcceptInitialize(k, s) \/ AcceptCall(k, s) \/ AcceptClose(k, s)

TaskNext == \E k \in Keys :
    \/ WorkerStarts(k) \/ WorkerTakes(k) \/ WorkerEnds(k)
    \/ \E x \in {"sending", "answering"} : ToolSends(k, x)
    \/ FrameAcked(k) \/ FrameFails(k) \/ ToolAsksUI(k) \/ ToolCancelled(k) \/ ToolCleaned(k)
    \/ UIAnswers(k) \/ UIUnlinked(k) \/ UICleaned(k)

EndNext ==
    \/ \E k \in Keys : DisposeStarts(k) \/ CancelTool(k) \/ DispatcherClosed(k) \/ ChannelClosed(k)
                       \/ ToldHost(k)
    \/ RpcCloses \/ CloseRelay \/ RelayClosed

Next == SessionNext \/ TaskNext \/ EndNext

Spec == Init /\ [][Next]_vars

\* The event loop goes on, and the close of a connection closes its relay.  A tool
\* that is cancelled ends, and a UI whose tool has ended; the host acknowledges the
\* notice of a failure or the connection ends.  No user has to answer.
Fairness ==
    /\ \A k \in Keys :
          /\ WF_vars(WorkerEnds(k)) /\ WF_vars(ToolCleaned(k)) /\ WF_vars(UICleaned(k))
          /\ WF_vars(UIUnlinked(k)) /\ WF_vars(DisposeStarts(k)) /\ WF_vars(CancelTool(k))
          /\ WF_vars(DispatcherClosed(k)) /\ WF_vars(ChannelClosed(k)) /\ WF_vars(ToldHost(k))
          /\ WF_vars(rpc = "closed" /\ FrameFails(k))
    /\ WF_vars(CloseRelay) /\ WF_vars(RelayClosed)

FairSpec == Spec /\ Fairness

-----------------------------------------------------------------------------
(* Properties *)

\* Every channel carries the session that the program got, also one that a runner
\* opened before session/new had answered (relay.py:46-51, 91; rpc.py:112-118).
ChannelsAreOfTheSession ==
    \A k \in Keys : (starts[k] > 0 /\ created # None) => session[k] = created

\* A channel that ended, by the host or by a failure, is never started again, not
\* even after the relay has forgotten it (relay.py:83-93, 100, 123).
NeverRestarts == \A k \in Keys : starts[k] <= 1

\* The host is told at most once that a channel failed, and not of a channel that
\* it had closed itself (relay.py:98-115).
ToldOfFailuresOnce == \A k \in Keys : told[k] <= 1 /\ (hostClosed[k] => told[k] = 0)

\* A channel lives once: it is not started again after its end, and its end is told
\* once (relay.py:74-115).
RelayInv == TypeOK /\ NeverRestarts /\ ToldOfFailuresOnce

\* When a channel is disposed of, and so when the relay is closed, none of its tasks
\* goes on: no tool, no interaction, no worker (relay.py:117-125, 230-243).
NothingOutlivesTheChannel ==
    \A k \in Keys : (dispose[k] \in {"telling", "ended"} \/ (relay = "closed" /\ starts[k] > 0)) =>
        /\ worker[k] = "ended"
        /\ tool[k] \in {"none", "ended"} /\ ui[k] \in {"none", "ended"}

\* Closing ends although an interaction waits for its tool, and the tool for the
\* interaction (relay.py:234-242).  The host learns of a failed channel unless it
\* closed the channel first, or the connection ends (relay.py:110-115, 163-167,
\* 203-209).
ChannelsEnd ==
    /\ relay = "gathering" ~> relay = "closed"
    /\ \A k \in Keys : (dispose[k] = "created" /\ notify[k]) ~> (told[k] = 1 \/ rpc = "closed")
=============================================================================
