-------------------------- MODULE PersistentSurface --------------------------
(***************************************************************************)
(* The surfaces of one id (UISurface) with the host's events for one of    *)
(* their handles (SurfaceEvents): whether that handle is opening, active   *)
(* or closed is what UISurface says of it, and both are served by one read *)
(* loop, which a handler that raises ends.                                 *)
(***************************************************************************)
EXTENDS UISurface

CONSTANTS Watched,        \* the handle whose events are modelled
          InputHandlers, ResizeHandlers, MaxEvents

ASSUME WatchedAssumption == Watched \in Handles /\ MaxEvents \in Nat

VARIABLES emitted, loop, latest, handlers, focus, resize, size, accepted, since, seen

eventVars == <<emitted, loop, latest, handlers, focus, resize, size, accepted, since, seen>>
surfaceVars == <<vars, eventVars>>

\* _active and _closed; a handle whose opening failed is nobody's.
EventPhase ==
    IF closed[Watched] \/ opening[Watched] \in {"failed", "abandoned"} THEN "closed"
    ELSE IF opening[Watched] = "active" THEN "active" ELSE "opening"

Events == INSTANCE SurfaceEvents WITH phase <- EventPhase

SurfaceInit == Init /\ Events!Init

-----------------------------------------------------------------------------
\* A step of the surfaces, and what it does to the handlers of the watched one.
Joint(Step) ==
    /\ Step
    /\ \/ EventPhase' = EventPhase /\ UNCHANGED eventVars
       \/ Events!Activate
       \/ Events!Close

\* The host sends events of the surface it shows.
HostEmits == /\ hostOpen # 0 /\ hostOpen = openSeq[Watched]
             /\ UNCHANGED vars
             /\ \E kind \in Events!Kinds : Events!Emit(kind)

\* They are routed by id to the registered handle.
Routed == /\ connected /\ registry = Watched
          /\ UNCHANGED vars
          /\ \E n \in 1 .. MaxEvents, raises \in BOOLEAN : Events!Route(n, raises)

\* Only open_surface() gives out the handle.
Subscriptions == /\ opening[Watched] = "active"
                 /\ UNCHANGED vars
                 /\ \E h \in Events!Handlers : Events!Subscribe(h) \/ Events!Unsubscribe(h)

SurfaceNext ==
    \/ loop = "running" /\ Joint(ReadNext)
    \/ Joint(CallNext) \/ Joint(HostNext)
    \/ HostEmits \/ Routed \/ Subscriptions

SurfaceSpec == SurfaceInit /\ [][SurfaceNext]_surfaceVars

FrameStep(h) == StartFrame(h) \/ RunFrame(h) \/ FrameSent(h)

\* The event loop runs what is ready and the writer writes; the messages of the
\* host are read.  Nothing is assumed of the host's answers.
Fairness ==
    /\ \A h \in Handles : WF_surfaceVars(FrameStep(h) /\ UNCHANGED eventVars)
    /\ \A c \in Closers : WF_surfaceVars(LockClose(c) /\ UNCHANGED eventVars)
    /\ WF_surfaceVars(loop = "running" /\ Joint(ReadNext))

FairSpec == SurfaceSpec /\ Fairness

-----------------------------------------------------------------------------
(* Properties *)

\* What the handlers of the watched handle see while it is opened, used and closed, by
\* the program or by the host (context.py:1157-1345): events in the host's order, none
\* twice, all that are routed, and the size that the handle reports.
EventsAreSeen == Events!EventsInv

\* After a close neither side of a surface goes on: no frame is sent to the host, and
\* no handler is called with an event of it, although other handles of the same id may
\* be open (context.py:1123-1151, 1206-1212, 1249-1254, 1280-1286).
QuietAfterClose == [][NoFrameAfterClose /\ Events!NothingAfterClose]_surfaceVars
=============================================================================
