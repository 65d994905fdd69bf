SPECIFICATION Spec
CONSTANTS
    Ids = {i1}
    Generations = {g1, g2}
    Calls = {c1}
    Notices = {}
    None = None
SYMMETRY Symmetry
CONSTRAINT CallOrClose
CHECK_DEADLOCK FALSE
INVARIANTS
    TypeOK
    SupersededIsSilent
    LatestIsReachable
    NoOrphanCalls
    CloseLeavesNothing
PROPERTIES
    ImplementsContract
