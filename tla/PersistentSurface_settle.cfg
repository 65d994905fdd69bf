CONSTANTS
    Handles = {h1, h2}
    Closers = {c1, c2}
    MaxUpdates = 2
    None = None
    Watched = h1
    InputHandlers = {i1, i2}
    ResizeHandlers = {r1}
    MaxEvents = 2
SPECIFICATION FairSpec
CONSTRAINT OneThing
INVARIANTS SurfaceInv EventsAreSeen
PROPERTIES QuietAfterClose UpdatesAreSent
CHECK_DEADLOCK FALSE
