CONSTANTS
    Keys = {k1, k2}
    Sessions = {s1, s2}
    First = s1
    None = None
SPECIFICATION FairSpec
CONSTRAINT OneSession
INVARIANTS RelayInv ChannelsAreOfTheSession NothingOutlivesTheChannel
PROPERTY ChannelsEnd
CHECK_DEADLOCK FALSE
