CONSTANTS
    Conns = {c1, c2}
    Users = {u1}
    Closers = {k1}
    Creator = Creator
SPECIFICATION FairSpec
INVARIANT ClientInv
PROPERTIES OwnershipIsKept UsesSharedCleanup ClosesEnd
CHECK_DEADLOCK FALSE
