------------------------------ MODULE UISurface ------------------------------
(***************************************************************************)
(* Interactive surfaces of one id on one host connection (context.py):     *)
(* the handles that open_surface() makes for it one after the other, their *)
(* frames, close(), and the host that accepts, refuses or closes by itself.*)
(*                                                                         *)
(* Code between two awaits is one action.  Frames, requests and answers    *)
(* travel in the order in which they were sent: the connection's write     *)
(* lock is fair, and both ends read one stream.                            *)
(***************************************************************************)
EXTENDS Naturals, Sequences

CONSTANTS Handles,      \* bound: calls of open_surface()
          Closers,      \* bound: calls of close() on a handle
          MaxUpdates,   \* bound: update() per handle
          None

ASSUME SurfaceAssumption ==
    None \notin Handles \cup Closers /\ Handles \cap Closers = {} /\ MaxUpdates \in Nat

VARIABLES
    connected,   \* the host client is open
    registry,    \* state.surfaces[key]
    sequence,    \* state.surface_sequences[key]
    opening,     \* each call of open_surface()
    openSeq,     \* _open_sequence
    closed, closing,           \* _closed, _closing
    version,     \* history variable: updates that the handle took
    pending,     \* _pending_lines: the version it holds, or 0
    scheduled,   \* _frame_scheduled
    flight,      \* the frame task: [version, at]
    sent,        \* history variable: the last version given to the host
    closer,      \* each call of close(): [of, at]
    toHost, fromHost,          \* the streams
    hostOpen     \* the host: sequence that opened the surface it shows, or 0

handleVars == <<opening, openSeq, closed, closing, version, pending, scheduled, flight, sent>>
hostVars == <<toHost, fromHost, hostOpen>>
vars == <<connected, registry, sequence, handleVars, closer, hostVars>>

NoFrame == [version |-> 0, at |-> "none"]

Frames == [version : 0..MaxUpdates, at : {"none", "created", "sending"}]
CloseCalls == [of : Handles \cup {None},
               at : {"idle", "locking", "asking", "returned", "failed", "cancelled"}]
Requests == [type : {"open", "frame", "close"}, of : Handles \cup Closers, sequence : Nat]
Replies == [type : {"opened", "refused", "closed"}, of : Handles \cup Closers \cup {None},
            sequence : Nat]

TypeOK ==
    /\ connected \in BOOLEAN
    /\ registry \in Handles \cup {None}
    /\ sequence \in Nat /\ hostOpen \in Nat
    /\ opening \in [Handles -> {"new", "opening", "active", "failed", "abandoned"}]
    /\ openSeq \in [Handles -> Nat]
    /\ closed \in [Handles -> BOOLEAN] /\ closing \in [Handles -> BOOLEAN]
    /\ scheduled \in [Handles -> BOOLEAN]
    /\ version \in [Handles -> 0..MaxUpdates] /\ sent \in [Handles -> 0..MaxUpdates]
    /\ pending \in [Handles -> 0..MaxUpdates]
    /\ flight \in [Handles -> Frames]
    /\ closer \in [Closers -> CloseCalls]
    /\ toHost \in Seq(Requests) /\ fromHost \in Seq(Replies)

Init ==
    /\ connected = TRUE /\ registry = None /\ sequence = 0
    /\ opening = [h \in Handles |-> "new"]
    /\ openSeq = [h \in Handles |-> 0]
    /\ closed = [h \in Handles |-> FALSE] /\ closing = [h \in Handles |-> FALSE]
    /\ version = [h \in Handles |-> 0] /\ sent = [h \in Handles |-> 0]
    /\ pending = [h \in Handles |-> 0]
    /\ scheduled = [h \in Handles |-> FALSE]
    /\ flight = [h \in Handles |-> NoFrame]
    /\ closer = [c \in Closers |-> [of |-> None, at |-> "idle"]]
    /\ toHost = <<>> /\ fromHost = <<>> /\ hostOpen = 0

-----------------------------------------------------------------------------
(* Helpers *)

Message(type, of, n) == [type |-> type, of |-> of, sequence |-> n]

\* _next_sequence, and the message it is for.
Send(type, of) ==
    /\ sequence' = sequence + 1
    /\ toHost' = Append(toHost, Message(type, of, sequence + 1))

\* The next message of the host is the answer to x.
Answer(x) == fromHost # <<>> /\ Head(fromHost).of = x
TakeAnswer == fromHost' = Tail(fromHost) /\ UNCHANGED <<toHost, hostOpen>>

\* `if state.surfaces.get(key) is self: pop`
Unregister(h) == registry' = IF registry = h THEN None ELSE registry

\* _clear_local_state
Clear(h) == closed' = [closed EXCEPT ![h] = TRUE] /\ pending' = [pending EXCEPT ![h] = 0]

\* _schedule_frame_flush, with the flags as they will be.
Schedule(h, isClosing, lines, frame) ==
    scheduled' = [scheduled EXCEPT
        ![h] = @ \/ (~closed[h] /\ ~isClosing /\ frame = NoFrame /\ lines # 0)]

LockFree(h) == \A c \in Closers : closer[c].of = h => closer[c].at # "asking"

-----------------------------------------------------------------------------
(* open_surface() *)

\* The handle is registered, under an id that is free, before the host is asked.
Open(h) ==
    /\ opening[h] = "new" /\ connected
    /\ IF registry # None
       THEN /\ opening' = [opening EXCEPT ![h] = "failed"]
            /\ UNCHANGED <<registry, openSeq, sequence, toHost>>
       ELSE /\ opening' = [opening EXCEPT ![h] = "opening"]
            /\ registry' = h
            /\ Send("open", h)
            /\ openSeq' = [openSeq EXCEPT ![h] = sequence + 1]
    /\ UNCHANGED <<connected, closed, closing, version, pending, scheduled, flight, sent, closer,
                   fromHost, hostOpen>>

\* The host accepted or refused, or closed the surface while it was opening; an
\* answer to a call that was cancelled is dropped.
OpenAnswered(h) ==
    /\ Answer(h) /\ TakeAnswer
    /\ LET next == IF Head(fromHost).type = "opened" /\ ~closed[h] THEN "active" ELSE "failed"
       IN opening' = [opening EXCEPT ![h] = IF @ = "opening" THEN next ELSE @]
    /\ IF opening[h] = "opening" /\ Head(fromHost).type = "refused"
       THEN Unregister(h) ELSE UNCHANGED registry
    /\ UNCHANGED <<connected, sequence, openSeq, closed, closing, version, pending, scheduled, flight,
                   sent, closer>>

\* open_surface() is cancelled while it waits; the host is not told.
CancelOpen(h) ==
    /\ opening[h] = "opening"
    /\ opening' = [opening EXCEPT ![h] = "abandoned"]
    /\ Unregister(h)
    /\ UNCHANGED <<connected, sequence, openSeq, closed, closing, version, pending, scheduled, flight,
                   sent, closer, hostVars>>

-----------------------------------------------------------------------------
(* Frames *)

\* update(): the latest lines win; ignored once closed or while closing.
Update(h) ==
    /\ opening[h] = "active" /\ ~closed[h] /\ ~closing[h] /\ version[h] < MaxUpdates
    /\ version' = [version EXCEPT ![h] = @ + 1]
    /\ pending' = [pending EXCEPT ![h] = version[h] + 1]
    /\ Schedule(h, FALSE, version[h] + 1, flight[h])
    /\ UNCHANGED <<connected, registry, sequence, opening, openSeq, closed, closing, flight, sent,
                   closer, hostVars>>

\* _start_frame_flush, called soon after it was scheduled.
StartFrame(h) ==
    /\ scheduled[h]
    /\ scheduled' = [scheduled EXCEPT ![h] = FALSE]
    /\ IF closed[h] \/ closing[h] \/ flight[h] # NoFrame \/ pending[h] = 0
       THEN UNCHANGED <<pending, flight>>
       ELSE /\ flight' = [flight EXCEPT ![h] = [version |-> pending[h], at |-> "created"]]
            /\ pending' = [pending EXCEPT ![h] = 0]
    /\ UNCHANGED <<connected, registry, sequence, opening, openSeq, closed, closing, version, sent,
                   closer, hostVars>>

\* _flush_frame up to its await: a frame that meets a close puts its lines back,
\* unless newer ones wait; otherwise it takes its sequence and is sent.
RunFrame(h) ==
    /\ flight[h].at = "created"
    /\ IF closed[h] \/ closing[h] \/ ~connected
       THEN /\ flight' = [flight EXCEPT ![h] = NoFrame]
            /\ pending' = [pending EXCEPT ![h] =
                  IF ~closed[h] /\ closing[h] /\ @ = 0 THEN flight[h].version ELSE @]
            /\ Schedule(h, closing[h], pending[h], NoFrame)
            /\ UNCHANGED <<sequence, toHost, sent>>
       ELSE /\ flight' = [flight EXCEPT ![h].at = "sending"]
            /\ sent' = [sent EXCEPT ![h] = flight[h].version]
            /\ Send("frame", h)
            /\ UNCHANGED <<pending, scheduled>>
    /\ UNCHANGED <<connected, registry, opening, openSeq, closed, closing, version, closer,
                   fromHost, hostOpen>>

\* notify() returned; lines that came meanwhile are next.
FrameSent(h) ==
    /\ flight[h].at = "sending"
    /\ flight' = [flight EXCEPT ![h] = NoFrame]
    /\ Schedule(h, closing[h], pending[h], NoFrame)
    /\ UNCHANGED <<connected, registry, sequence, opening, openSeq, closed, closing, version, pending,
                   sent, closer, hostVars>>

-----------------------------------------------------------------------------
(* close() *)

Close(c, h) ==
    /\ closer[c].at = "idle" /\ opening[h] = "active"
    /\ closer' = [closer EXCEPT ![c] = [of |-> h, at |-> "locking"]]
    /\ UNCHANGED <<connected, registry, sequence, handleVars, hostVars>>

\* Mutant: no lock.
LockCloseUnlocked(c) ==
    LET h == closer[c].of IN
    /\ closer[c].at = "locking" /\ connected
    /\ IF closed[h]
       THEN /\ closer' = [closer EXCEPT ![c].at = "returned"]
            /\ UNCHANGED <<closing, sequence, toHost>>
       ELSE /\ closer' = [closer EXCEPT ![c].at = "asking"]
            /\ closing' = [closing EXCEPT ![h] = TRUE]
            /\ Send("close", c)
    /\ UNCHANGED <<connected, registry, opening, openSeq, closed, version, pending, scheduled, flight,
                   sent, fromHost, hostOpen>>

\* The lock is acquired; after a disconnection the request raises at once.
LockClose(c) ==
    LET h == closer[c].of IN
    /\ closer[c].at = "locking" /\ LockFree(h)
    /\ IF closed[h] \/ ~connected
       THEN /\ closer' = [closer EXCEPT ![c].at = IF closed[h] THEN "returned" ELSE "failed"]
            /\ UNCHANGED <<closing, sequence, toHost>>
       ELSE /\ closer' = [closer EXCEPT ![c].at = "asking"]
            /\ closing' = [closing EXCEPT ![h] = TRUE]
            /\ Send("close", c)
    /\ UNCHANGED <<connected, registry, opening, openSeq, closed, version, pending, scheduled, flight,
                   sent, fromHost, hostOpen>>

\* Mutant: after a refusal nobody sends the lines that were put back.
CloseAnsweredForgetting(c) ==
    LET h == closer[c].of IN
    /\ Answer(c) /\ TakeAnswer
    /\ IF closer[c].at # "asking"
       THEN UNCHANGED <<registry, closer, closed, closing, pending, scheduled>>
       ELSE /\ closing' = [closing EXCEPT ![h] = FALSE]
            /\ \/ /\ Head(fromHost).type = "closed"
                  /\ closer' = [closer EXCEPT ![c].at = "returned"]
                  /\ Clear(h) /\ Unregister(h)
               \/ /\ Head(fromHost).type = "refused"
                  /\ closer' = [closer EXCEPT ![c].at = "failed"]
                  /\ UNCHANGED <<registry, closed, pending>>
            /\ UNCHANGED scheduled
    /\ UNCHANGED <<connected, sequence, opening, openSeq, version, flight, sent>>

\* The host closed the surface, or refused to: then the handle goes on, with the
\* frame that was put back.  An answer to a call that was cancelled is dropped.
CloseAnswered(c) ==
    LET h == closer[c].of IN
    /\ Answer(c) /\ TakeAnswer
    /\ IF closer[c].at # "asking"
       THEN UNCHANGED <<registry, closer, closed, closing, pending, scheduled>>
       ELSE /\ closing' = [closing EXCEPT ![h] = FALSE]
            /\ \/ /\ Head(fromHost).type = "closed"
                  /\ closer' = [closer EXCEPT ![c].at = "returned"]
                  /\ Clear(h) /\ Unregister(h)
                  /\ UNCHANGED scheduled
               \/ /\ Head(fromHost).type = "refused"
                  /\ closer' = [closer EXCEPT ![c].at = "failed"]
                  /\ Schedule(h, FALSE, pending[h], flight[h])
                  /\ UNCHANGED <<registry, closed, pending>>
    /\ UNCHANGED <<connected, sequence, opening, openSeq, version, flight, sent>>

\* A call of close() is cancelled while it waits for the lock, or for the host.
CancelClose(c) ==
    LET h == closer[c].of IN
    /\ closer[c].at \in {"locking", "asking"}
    /\ closer' = [closer EXCEPT ![c].at = "cancelled"]
    /\ IF closer[c].at = "asking"
       THEN /\ closing' = [closing EXCEPT ![h] = FALSE]
            /\ Schedule(h, FALSE, pending[h], flight[h])
       ELSE UNCHANGED <<closing, scheduled>>
    /\ UNCHANGED <<connected, registry, sequence, opening, openSeq, closed, version, pending, flight,
                   sent, hostVars>>

-----------------------------------------------------------------------------
(* Notices of the host, and the end of the connection *)

\* Mutant: a notice closes whatever handle has the id now.
ClosedNoticeUnchecked ==
    /\ fromHost # <<>> /\ Head(fromHost).of = None
    /\ TakeAnswer
    /\ IF registry # None THEN Clear(registry) /\ registry' = None
       ELSE UNCHANGED <<registry, closed, pending>>
    /\ UNCHANGED <<connected, sequence, opening, openSeq, closing, version, scheduled, flight, sent, closer>>

\* The notice that an opening was closed by the host is routed by id to the
\* registered handle, which ignores it unless the opening is its own.
ClosedNotice ==
    /\ fromHost # <<>> /\ Head(fromHost).of = None
    /\ TakeAnswer
    /\ IF registry # None /\ openSeq[registry] = Head(fromHost).sequence
       THEN Clear(registry) /\ registry' = None
       ELSE UNCHANGED <<registry, closed, pending>>
    /\ UNCHANGED <<connected, sequence, opening, openSeq, closing, version, scheduled, flight, sent, closer>>

\* The client closes: pending requests raise, the registered handle is cleared and
\* its frame task cancelled, and the sequences are forgotten.
Disconnect ==
    /\ connected /\ connected' = FALSE
    /\ registry' = None /\ sequence' = 0
    /\ opening' = [h \in Handles |-> IF opening[h] = "opening" THEN "failed" ELSE opening[h]]
    /\ closer' = [c \in Closers |->
          IF closer[c].at = "asking" THEN [closer[c] EXCEPT !.at = "failed"] ELSE closer[c]]
    /\ closing' = [h \in Handles |-> FALSE]
    /\ closed' = [h \in Handles |-> closed[h] \/ registry = h]
    /\ pending' = [h \in Handles |-> IF registry = h THEN 0 ELSE pending[h]]
    /\ flight' = [h \in Handles |-> IF registry = h THEN NoFrame ELSE flight[h]]
    /\ toHost' = <<>> /\ fromHost' = <<>> /\ hostOpen' = 0
    /\ UNCHANGED <<openSeq, version, scheduled, sent>>

-----------------------------------------------------------------------------
(* The host: it answers in order, as it likes, and may close by itself *)

Reply(type, of, n) == fromHost' = Append(fromHost, Message(type, of, n))

HostReads ==
    LET m == Head(toHost) IN
    /\ toHost # <<>> /\ toHost' = Tail(toHost)
    /\ \/ /\ m.type = "open" /\ hostOpen' = m.sequence
          /\ Reply("opened", m.of, m.sequence)
       \/ /\ m.type = "close" /\ hostOpen' = 0
          /\ Reply("closed", m.of, m.sequence)
       \/ /\ m.type # "frame" /\ UNCHANGED hostOpen
          /\ Reply("refused", m.of, m.sequence)
       \/ m.type = "frame" /\ UNCHANGED <<hostOpen, fromHost>>
    /\ UNCHANGED <<connected, registry, sequence, handleVars, closer>>

HostCloses ==
    /\ hostOpen # 0 /\ hostOpen' = 0
    /\ Reply("closed", None, hostOpen)
    /\ UNCHANGED <<connected, registry, sequence, handleVars, closer, toHost>>

-----------------------------------------------------------------------------
\* What the connection's read loop does.
ReadNext ==
    \/ \E h \in Handles : OpenAnswered(h)
    \/ \E c \in Closers : CloseAnswered(c)
    \/ ClosedNotice
CallNext ==
    \/ \E h \in Handles : \/ Open(h) \/ CancelOpen(h)
                          \/ Update(h) \/ StartFrame(h) \/ RunFrame(h) \/ FrameSent(h)
                          \/ \E c \in Closers : Close(c, h)
    \/ \E c \in Closers : LockClose(c) \/ CancelClose(c)
HostNext == Disconnect \/ HostReads \/ HostCloses

Next == ReadNext \/ CallNext \/ HostNext

Spec == Init /\ [][Next]_vars

-----------------------------------------------------------------------------
(* Properties *)

\* A handle the program may use owns its id, so that the host's notices reach it
\* and no other handle is opened under it (context.py:1036-1072, 1121-1151).
UsableHandleOwnsId ==
    \A h \in Handles : (opening[h] = "active" /\ ~closed[h]) => registry = h

\* The surface that the host shows has its handle registered here, unless the call
\* that opened it was cancelled: not lost by refusals, retries of close(), or late
\* notices about earlier surfaces of the id (context.py:1036-1072, 1279-1296).
HostSurfaceIsOwned ==
    hostOpen # 0 => \E h \in Handles : /\ openSeq[h] = hostOpen
                                       /\ registry = h \/ opening[h] = "abandoned"

\* A handle that is closed is closed at the host too: neither a refused close nor
\* a notice about another surface of the same id closes it (context.py:1138-1148,
\* 1288-1296).
ClosedAtHost ==
    \A h \in Handles : (closed[h] /\ connected) => hostOpen # openSeq[h]

\* While a close() asks the host, and after it succeeded, no frame is sent: however
\* many calls of close() were made, refused or cancelled (context.py:1123-1151,
\* 1249-1254).
NoFrameAfterClose ==
    \A h \in Handles : sent'[h] # sent[h] =>
        ~closed[h] /\ \A c \in Closers : closer[c].of = h => closer[c].at # "asking"

\* Everything sent about an id is numbered in the order in which it is sent, and a
\* frame never takes the place of a newer one (context.py:1192-1199, 1247-1271).
SentInOrder ==
    /\ \A i \in 1..Len(toHost) - 1 : toHost[i].sequence < toHost[i + 1].sequence
    /\ \A h \in Handles : flight[h].at = "created" => flight[h].version > sent[h]

\* The host, the registry of the client and the handles agree on which opening of an id
\* is the present one (context.py:1094-1151, 1280-1298).
SurfaceInv == TypeOK /\ UsableHandleOwnsId /\ HostSurfaceIsOwned /\ ClosedAtHost /\ SentInOrder

\* The lines of an update are sent, or newer ones are, unless the surface closes or
\* a close() waits for the host for ever: a refused close loses none
\* (context.py:1149-1151, 1226-1277).
UpdatesAreSent ==
    \A h \in Handles : \A n \in 1..MaxUpdates :
        version[h] = n ~> (sent[h] >= n \/ closed[h] \/ [](closing[h]))
=============================================================================
