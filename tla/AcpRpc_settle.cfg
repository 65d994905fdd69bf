SPECIFICATION FairSpec
CONSTANTS
    Requests = {r1}
    Notices = {n1}
    Replies = {p1}
    Closers = {k1, k2}
    None = None
CHECK_DEADLOCK FALSE
INVARIANTS
    TypeOK
    CloseIsComplete
PROPERTIES
    ImplementsSharedCleanup
    RequestsEnd
    CleanupCompletes
