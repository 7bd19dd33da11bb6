CONSTANTS
    JIDs <- MCJIDs
    Priorities <- MCPriorities
    Types = {"ptAvailable", "ptSubscribed", "ptUnavailable", "ptError"}
    None = None
SPECIFICATION Spec
INVARIANT ListsAreSound
PROPERTY ImplementsLatestPresence
