--------------------------- MODULE EventAggregation ---------------------------
(***************************************************************************)
(* The event handlers of an extension (api.py): their registration with    *)
(* on(), the subscriptions that initialize() tells the host, and           *)
(* handle_event(), which runs the handlers of an event one after another   *)
(* and folds what they return into one answer.                             *)
(*                                                                         *)
(* A value is the object it stands for: who made it, whether it carries    *)
(* machine data, and who changed it in place since.  Two fields that hold  *)
(* values of the same maker hold the same object.                          *)
(***************************************************************************)
EXTENDS Integers, Sequences, SequencesExt, FiniteSetsExt

CONSTANTS
    EventNames, OutputEvents,   \* event names; tool.result and tool.update
    Priorities, Timeouts, None,
    Results,               \* what a handler may return, other than None
    MaxHandlers            \* bound on registrations

ToolFields == {"input", "output"}
Replaced == ToolFields \cup {"message", "systemPrompt", "resources"}
Appended == {"disable", "enable", "followUpMessages", "followUps"}
Blocks == {"absent", "falsy", "truthy"}
Value == [by : Nat, data : BOOLEAN, edits : SUBSET Nat]

ASSUME EventAssumption ==
    /\ OutputEvents \subseteq EventNames /\ Priorities \subseteq Int
    /\ Timeouts \subseteq Nat \cup {None} /\ None \notin Nat
    /\ Results \subseteq [sets : SUBSET Replaced, adds : SUBSET Appended,
                         data : BOOLEAN, block : Blocks]
    /\ None \notin Value /\ None \notin EventNames
    /\ None \notin [priority : Priorities, timeout : Timeouts]

VARIABLES
    handlers,      \* _handlers; the index of a handler is its order
    subscribed,    \* the subscriptions told to the host
    told,          \* history variable: the number of handlers at that time
    state,         \* "idle", "running", "answered", "failed"
    event,         \* the name of the event
    queue,         \* the handlers left to run
    tool,          \* the fields of event.tool, None in an event without a tool
    aggregate,
    log,           \* history variable: the handlers that returned and what
    known          \* history variable: the number of handlers when the event came

callVars == <<state, event, queue, tool, aggregate, log, known>>
eventVars == <<handlers, subscribed, told, callVars>>

EventTypeOK ==
    /\ handlers \in Seq([event : EventNames, priority : Priorities, timeout : Timeouts])
    /\ subscribed = None \/
          subscribed \in [EventNames -> [priority : Priorities, timeout : Timeouts] \cup {None}]
    /\ told \in Nat /\ known \in 0 .. Len(handlers)
    /\ state \in {"idle", "running", "answered", "failed"}
    /\ event \in EventNames \cup {None}
    /\ queue \in Seq(DOMAIN handlers)
    /\ tool \in [ToolFields -> Value \cup {None}]
    /\ DOMAIN aggregate = Replaced \cup Appended
    /\ \A f \in Replaced : aggregate[f] \in Value \cup {None}
    /\ \A f \in Appended : aggregate[f] \in Seq(1 .. Len(handlers))
    /\ \A i \in DOMAIN log : log[i].handler \in 1 .. Len(handlers)

NoAggregate == [f \in Replaced \cup Appended |-> IF f \in Replaced THEN None ELSE <<>>]

EventInit ==
    /\ handlers = <<>> /\ subscribed = None /\ told = 0
    /\ state = "idle" /\ event = None /\ queue = <<>>
    /\ tool = [f \in ToolFields |-> None]
    /\ aggregate = NoAggregate /\ log = <<>> /\ known = 0

-----------------------------------------------------------------------------
(* Registration and subscriptions *)

On(e, p, t) ==
    /\ Len(handlers) < MaxHandlers
    /\ handlers' = Append(handlers, [event |-> e, priority |-> p, timeout |-> t])
    /\ UNCHANGED <<subscribed, told, callVars>>

\* Mutant: 0 is taken for no hint.
MergeZeroAsNone(current, next) ==
    IF current \in {None, 0} THEN next
    ELSE IF next \in {None, 0} THEN current
    ELSE IF current > next THEN current ELSE next

\* A timeout of 0 is none at all, and no hint yields to any.
MergeTimeout(current, next) ==
    IF 0 \in {current, next} THEN 0
    ELSE IF current = None THEN next
    ELSE IF next = None THEN current
    ELSE IF current > next THEN current ELSE next

Merge(subscription, h) ==
    IF subscription = None THEN [priority |-> h.priority, timeout |-> h.timeout]
    ELSE [priority |-> IF subscription.priority > h.priority
                       THEN subscription.priority ELSE h.priority,
          timeout |-> MergeTimeout(subscription.timeout, h.timeout)]

Subscriptions ==
    FoldLeft(LAMBDA byEvent, h : [byEvent EXCEPT ![h.event] = Merge(@, h)],
             [e \in EventNames |-> None], handlers)

\* The host asks once, when it starts the extension.
Initialize ==
    /\ subscribed = None
    /\ subscribed' = Subscriptions /\ told' = Len(handlers)
    /\ UNCHANGED <<handlers, callVars>>

-----------------------------------------------------------------------------
(* Handling an event *)

Precedes(h, k) ==
    \/ handlers[h].priority > handlers[k].priority
    \/ handlers[h].priority = handlers[k].priority /\ h < k

\* The handlers of a set in the order of Precedes.
Sorted(S) ==
    CHOOSE q \in SeqOf(S, Len(handlers)) :
        ToSet(q) = S /\ \A i, j \in DOMAIN q : i < j => Precedes(q[i], q[j])

\* The host sends the events that were subscribed to, one of them with a tool.
\* The handlers are sorted into a list of their own.
HandleEvent(e, withTool) ==
    /\ state # "running"
    /\ subscribed # None /\ subscribed[e] # None
    /\ state' = "running" /\ event' = e
    /\ queue' = Sorted({h \in DOMAIN handlers : handlers[h].event = e})
    /\ tool' = [f \in ToolFields |->
                   IF withTool THEN [by |-> 0, data |-> TRUE, edits |-> {}] ELSE None]
    /\ aggregate' = NoAggregate /\ log' = <<>> /\ known' = Len(handlers)
    /\ UNCHANGED <<handlers, subscribed, told>>

Running == state = "running" /\ queue # <<>>

\* The running handler changes the contents of event.tool[f] in place: when it is
\* the object that a former handler returned, the aggregate holds it too.
Edit(f) ==
    /\ Running /\ tool[f] # None
    /\ LET h == Head(queue)
           same == aggregate[f] # None /\ aggregate[f] = tool[f]
       IN /\ tool' = [tool EXCEPT ![f].edits = @ \cup {h}]
          /\ aggregate' = IF same THEN [aggregate EXCEPT ![f].edits = @ \cup {h}] ELSE aggregate
    /\ UNCHANGED <<handlers, subscribed, told, state, event, queue, log, known>>

\* The running handler assigns event.tool[f] instead.
Assign(f) ==
    /\ Running /\ tool[f] # None
    /\ tool' = [tool EXCEPT ![f] = [by |-> Head(queue), data |-> TRUE, edits |-> {}]]
    /\ UNCHANGED <<handlers, subscribed, told, state, event, queue, aggregate, log, known>>

\* The returned value of f.  The output of a tool-output event loses its data.
Plain(h, f, r) ==
    [by |-> h, edits |-> {},
     data |-> r.data /\ ~ (f = "output" /\ event \in OutputEvents)]

Fold(h, r) ==
    [f \in Replaced \cup Appended |->
        IF f \in Replaced THEN IF f \in r.sets THEN Plain(h, f, r) ELSE aggregate[f]
        ELSE IF f \in r.adds THEN Append(aggregate[f], h) ELSE aggregate[f]]

\* Mutant: later handlers see the payload that came.
ShownPayload(h, r) == tool

Shown(h, r) ==
    [f \in ToolFields |-> IF f \in r.sets /\ tool[f] # None THEN Plain(h, f, r) ELSE tool[f]]

Stops(r) == r.block = "truthy"

\* The running handler returns r.
Returns(r) ==
    /\ Running
    /\ LET h == Head(queue) IN
          /\ aggregate' = Fold(h, r) /\ tool' = Shown(h, r)
          /\ log' = Append(log, [handler |-> h, result |-> r])
          /\ queue' = Tail(queue)
          /\ state' = IF Stops(r) THEN "answered" ELSE "running"
    /\ UNCHANGED <<handlers, subscribed, told, event, known>>

Nothing == [sets |-> {}, adds |-> {}, data |-> FALSE, block |-> "absent"]

\* It raises: the request fails and what the former ones returned is dropped.
Raises ==
    /\ Running
    /\ state' = "failed" /\ aggregate' = NoAggregate
    /\ UNCHANGED <<handlers, subscribed, told, event, queue, tool, log, known>>

Answer ==
    /\ state = "running" /\ queue = <<>>
    /\ state' = "answered"
    /\ UNCHANGED <<handlers, subscribed, told, event, queue, tool, aggregate, log, known>>

Registers == \E e \in EventNames, p \in Priorities, t \in Timeouts : On(e, p, t)

Handles ==
    \/ \E e \in EventNames, withTool \in BOOLEAN : HandleEvent(e, withTool)
    \/ \E f \in ToolFields : Edit(f) \/ Assign(f)
    \/ \E r \in Results \cup {Nothing} : Returns(r)
    \/ Raises
    \/ Answer

-----------------------------------------------------------------------------
(* Properties *)

\* The subscription that the host was told bounds every handler it stands for: its
\* priority is at least theirs and reached by one, and it gives each the time that
\* the handler asked for, without a limit when one asked for none (api.py:1048-1078).
SubscriptionsCoverHandlers ==
    subscribed # None =>
        \A e \in EventNames :
            LET mine == {h \in 1 .. told : handlers[h].event = e} IN
            /\ (subscribed[e] = None) = (mine = {})
            /\ \A h \in mine :
                  /\ handlers[h].priority =< subscribed[e].priority
                  /\ handlers[h].timeout # None =>
                        /\ subscribed[e].timeout # None
                        /\ \/ subscribed[e].timeout = 0
                           \/ handlers[h].timeout \in 1 .. subscribed[e].timeout
            /\ mine # {} =>
                  /\ \E h \in mine : handlers[h].priority = subscribed[e].priority
                  /\ \E h \in mine : handlers[h].timeout = subscribed[e].timeout

\* Handlers ran by falling priority and, among equals, in the order they registered;
\* one that registers while the event is handled waits for the next one
\* (api.py:944-947).
RunInPriorityOrder ==
    /\ \A i \in DOMAIN log : log[i].handler =< known
    /\ \A i, j \in DOMAIN log : i < j =>
          LET h == log[i].handler  k == log[j].handler IN
          /\ handlers[h].priority >= handlers[k].priority
          /\ handlers[h].priority = handlers[k].priority => h < k

\* An answered event ran every handler that was registered when it came, unless one
\* blocked it; nobody runs after a block (api.py:993-997).
OnlyABlockStops ==
    /\ \A i \in DOMAIN log : log[i].result.block = "truthy" =>
          i = Len(log) /\ state = "answered"
    /\ state = "answered" =>
          \/ log # <<>> /\ Last(log).result.block = "truthy"
          \/ \A h \in 1 .. known : handlers[h].event = event =>
                \E i \in DOMAIN log : log[i].handler = h

\* What is answered is what the handlers returned: of a field that is replaced, the
\* value of the last one that gave it, of a list, the items of all that gave some in
\* the order they ran (api.py:964-992).
LastWriterWins ==
    state = "answered" =>
        /\ \A f \in Replaced :
              LET givers == {i \in DOMAIN log : f \in log[i].result.sets} IN
              IF givers = {} THEN aggregate[f] = None
              ELSE aggregate[f].by = log[Max(givers)].handler
        /\ \A f \in Appended :
              LET givers == {i \in DOMAIN log : f \in log[i].result.adds} IN
              /\ ToSet(aggregate[f]) = {log[i].handler : i \in givers}
              /\ \A j, k \in DOMAIN aggregate[f] : j < k =>
                    \E i, l \in givers : /\ i < l
                                        /\ aggregate[f][j] = log[i].handler
                                        /\ aggregate[f][k] = log[l].handler

\* A later handler sees the very input and output that the host will be answered,
\* changes made in place included, until one assigns the field of its own
\* (api.py:964-974, 1190-1193).
LaterHandlersSeeTheAnswer ==
    \A f \in ToolFields :
        aggregate[f] # None /\ tool[f] # None =>
            \/ tool[f] = aggregate[f]
            \/ tool[f].by > 0 /\ tool[f].by # aggregate[f].by

\* Once a handler replaced the output of tool.result or tool.update, neither the
\* answer nor a later handler has the machine data that came with an older output or
\* with the replacement (api.py:967-974, README.md:307).
ReplacedOutputHasNoData ==
    event \in OutputEvents /\ (\E i \in DOMAIN log : "output" \in log[i].result.sets) =>
        /\ aggregate["output"] # None => ~ aggregate["output"].data
        /\ tool["output"] # None /\ tool["output"].data =>
              /\ tool["output"].by > 0
              /\ aggregate["output"] # None => tool["output"].by # aggregate["output"].by

\* The answer to an event is the fold of its handlers' answers in the order of their
\* priorities (api.py:926-993).
AnswerInv ==
    /\ EventTypeOK
    /\ RunInPriorityOrder /\ OnlyABlockStops /\ LastWriterWins
    /\ LaterHandlersSeeTheAnswer /\ ReplacedOutputHasNoData
=============================================================================
