CONSTANTS
    Releasers = {r1, r2, r3}
    Closers = {c1, c2}
    MaxSends = 3
SPECIFICATION FairSpec
INVARIANT LeaseInv
PROPERTY RepeatedCallsAreHarmless
CHECK_DEADLOCK FALSE
