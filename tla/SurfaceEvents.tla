---------------------------- MODULE SurfaceEvents ----------------------------
(***************************************************************************)
(* The host's events of one interactive surface (context.py): the input    *)
(* and resize notifications that the handle routes to its handlers, from   *)
(* the request to open it until it is closed.  UISurface has the opening,  *)
(* the frames and the closing of surfaces.                                 *)
(*                                                                         *)
(* The host numbers its events; what it wrote may come late or twice.      *)
(***************************************************************************)
EXTENDS Integers, Sequences

CONSTANTS
    InputHandlers, ResizeHandlers,
    MaxEvents     \* bound on the events of the host

VARIABLES
    emitted,      \* history variable: the kinds of the host's events, by number
    phase,        \* "opening", "active", "closed": _active and _closed
    loop,         \* the connection's read loop: "running", "failed"
    latest,       \* _latest_event_sequence
    handlers,     \* _input_handlers and _resize_handlers
    focus,        \* _pending_focus_event: its number, or 0
    resize,       \* _pending_resize_event
    size,         \* _current_size: the number of the event it came with
    accepted,     \* history variable: the events that were routed
    since,        \* history variable: the latest event when a handler was added
    seen          \* history variable: what a handler was called with

pendingVars == <<focus, resize>>
vars == <<emitted, phase, loop, latest, handlers, pendingVars, size, accepted, since, seen>>

Handlers == InputHandlers \cup ResizeHandlers
InputKinds == {"key", "focus", "blur"}
Kinds == InputKinds \cup {"resize"}
For(kind) == IF kind = "resize" THEN ResizeHandlers ELSE InputHandlers

TypeOK ==
    /\ emitted \in Seq(Kinds) /\ accepted \in Seq(DOMAIN emitted)
    /\ phase \in {"opening", "active", "closed"} /\ loop \in {"running", "failed"}
    /\ {latest, size} \subseteq 0 .. Len(emitted)
    /\ handlers \subseteq Handlers
    /\ focus = 0 \/ emitted[focus] \in {"focus", "blur"}
    /\ resize = 0 \/ emitted[resize] = "resize"
    /\ since \in [Handlers -> Nat]
    /\ \A h \in Handlers : seen[h] \in Seq(DOMAIN emitted)

Init ==
    /\ emitted = <<>> /\ phase = "opening" /\ loop = "running"
    /\ latest = 0 /\ handlers = {} /\ focus = 0 /\ resize = 0 /\ size = 0
    /\ accepted = <<>>
    /\ since = [h \in Handlers |-> 0] /\ seen = [h \in Handlers |-> <<>>]

Emit(kind) ==
    /\ Len(emitted) < MaxEvents
    /\ emitted' = Append(emitted, kind)
    /\ UNCHANGED <<phase, loop, latest, handlers, pendingVars, size, accepted, since, seen>>

\* open_surface() returns the handle.
Activate ==
    /\ phase = "opening" /\ loop = "running"
    /\ phase' = "active"
    /\ UNCHANGED <<emitted, loop, latest, handlers, pendingVars, size, accepted, since, seen>>

\* Mutant: a repeated event is routed.
FreshAgain(n) == n >= latest

\* The sequence guard.
Fresh(n) == n > latest

\* While the surface opens, the latest resize and the latest change of focus wait for
\* a handler; a resize that nobody takes afterwards drops the one that waits.
PendingResize(n) ==
    IF emitted[n] # "resize" THEN resize
    ELSE IF phase = "active" THEN 0 ELSE n
PendingFocus(n) ==
    IF emitted[n] \in {"focus", "blur"} /\ phase # "active" THEN n ELSE focus

Calls(called, n) ==
    seen' = [h \in Handlers |-> IF h \in called THEN Append(seen[h], n) ELSE seen[h]]

\* The handle takes event n.  A handler that raises keeps it from the ones behind it
\* and ends the read loop of the connection.
Route(n, raises) ==
    LET called == handlers \cap For(emitted[n]) IN
    /\ phase # "closed" /\ loop = "running"
    /\ n \in DOMAIN emitted /\ Fresh(n)
    /\ latest' = n /\ accepted' = Append(accepted, n)
    /\ size' = IF emitted[n] = "resize" THEN n ELSE size
    /\ resize' = IF called = {} THEN PendingResize(n) ELSE resize
    /\ focus' = IF called = {} THEN PendingFocus(n) ELSE focus
    /\ IF raises
       THEN \E first \in SUBSET called \ {{}} : Calls(first, n) /\ loop' = "failed"
       ELSE Calls(called, n) /\ UNCHANGED loop
    /\ UNCHANGED <<emitted, phase, handlers, since>>

\* on_input() and on_resize(): what waits goes to the handler at once.
Subscribe(h) ==
    LET pending == IF h \in InputHandlers THEN focus ELSE resize IN
    /\ phase # "opening" /\ h \notin handlers
    /\ handlers' = handlers \cup {h}
    /\ since' = [since EXCEPT ![h] = latest]
    /\ seen' = IF pending = 0 THEN seen ELSE [seen EXCEPT ![h] = Append(@, pending)]
    /\ focus' = IF h \in InputHandlers THEN 0 ELSE focus
    /\ resize' = IF h \in ResizeHandlers THEN 0 ELSE resize
    /\ UNCHANGED <<emitted, phase, loop, latest, size, accepted>>

Unsubscribe(h) ==
    /\ h \in handlers
    /\ handlers' = handlers \ {h}
    /\ UNCHANGED <<emitted, phase, loop, latest, pendingVars, size, accepted, since, seen>>

\* close(), a closed notification, or the end of the connection.
Close ==
    /\ phase # "closed"
    /\ phase' = "closed" /\ handlers' = {} /\ focus' = 0 /\ resize' = 0
    /\ UNCHANGED <<emitted, loop, latest, size, accepted, since, seen>>

Next ==
    \/ \E kind \in Kinds : Emit(kind)
    \/ Activate
    \/ \E n \in 1 .. MaxEvents, raises \in BOOLEAN : Route(n, raises)
    \/ \E h \in Handlers : Subscribe(h) \/ Unsubscribe(h)
    \/ Close

Spec == Init /\ [][Next]_vars

-----------------------------------------------------------------------------
(* Properties *)

\* A handler sees events of its kind in the host's order, none of them twice, also
\* over a new subscription and with the one that waited for it ("ordered key, mouse,
\* focus, and blur events", context.py:1157; 1312-1315).
SeenInOrder ==
    \A h \in Handlers : \A i, j \in DOMAIN seen[h] :
        /\ h \in For(emitted[seen[h][i]])
        /\ i < j => seen[h][i] < seen[h][j]

\* A subscribed handler saw every event that the handle routed since, unless a handler
\* raised (context.py:1323-1325, 1339-1340).
SubscribersSeeAll ==
    loop = "running" =>
        \A h \in handlers : \A i \in DOMAIN accepted :
            accepted[i] > since[h] /\ h \in For(emitted[accepted[i]])
                => \E j \in DOMAIN seen[h] : seen[h][j] = accepted[i]

\* The size that waits for a handler is the one that the handle reports
\* (context.py:1335-1338).
ReplayedSizeIsCurrent == resize # 0 => resize = size

\* What the handlers of one surface were called with, against what the host sent
\* (context.py:1153-1180, 1309-1345).
EventsInv == TypeOK /\ SeenInOrder /\ SubscribersSeeAll /\ ReplayedSizeIsCurrent

\* No handler is called for a closed surface, a new one included
\* (context.py:1206-1212, 1280-1286).
NothingAfterClose == phase = "closed" => seen' = seen
=============================================================================
