CONSTANTS
    Ids = {a1}
    Callers = {w1}
    Cancellable = {w1}
    MaxRevision = 2
    MaxSucceeded = 2
    MaxFailed = 1
    MaxRunning = 1
SPECIFICATION FairSpec

PROPERTY ProgressIsPublished
CHECK_DEADLOCK FALSE
