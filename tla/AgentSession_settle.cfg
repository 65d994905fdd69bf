CONSTANTS
    Runs = {r1, r2}
    Steers = {s1}
    Kinds = {"text", "thought", "progress", "compaction"}
    MaxUpdates = 2
    MaxRaises = 1
    None = None
SPECIFICATION FairSpec
CONSTRAINT OneThing
INVARIANTS SessionInv UpdatesReachTheirRun SteersTheRunMeant
PROPERTY RunsEnd
CHECK_DEADLOCK FALSE
