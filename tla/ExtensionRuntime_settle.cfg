SPECIFICATION FairSpec
CONSTANTS
    Ids = {i1}
    Generations = {g1}
    Calls = {c1}
    Notices = {n1}
    None = None
CONSTRAINT CallOrNotice
CHECK_DEADLOCK FALSE
PROPERTIES
    ScopedCallsSettle
    CloseCompletes
    ResultIsSent
