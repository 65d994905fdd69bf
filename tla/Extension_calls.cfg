SPECIFICATION ExtensionSpec
CONSTANTS
    None = None
    Mixes <- MCMixes
    EventNames = {"tool.call", "tool.result"}
    OutputEvents <- MCOutputEvents
    Priorities <- MCPriorities
    Timeouts <- MCTimeouts
    Results <- MCResults
    MaxHandlers = 3
    Tools = {"t"}
    Words = {"a", None}
    Forms = {"bare", "slash", "slashBlank"}
    Signatures <- MCSignatures
    Shortcuts <- MCShortcuts
    Letters = {"a", "i"}
    Digits = {"5"}
    FunctionKeys = {"f5"}
    MaxCommands = 2
    MaxShortcuts = 2
CONSTRAINT OneThing
INVARIANTS
    AnswerInv
    SubscriptionsCoverHandlers
    RegisteredIsReached
CHECK_DEADLOCK FALSE
