CONSTANTS
    Ids = {a1, a2}
    Callers = {w1, w2}
    Cancellable = {w1}
    MaxRevision = 3
    MaxSucceeded = 2
    MaxFailed = 1
    MaxRunning = 1
SPECIFICATION FairSpec
INVARIANT ProgressInv
PROPERTIES SnapshotsKeepTheirOrder ChangesAreShown
CHECK_DEADLOCK FALSE
