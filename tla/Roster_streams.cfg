CONSTANTS
    JIDs <- MCSingle
    ItemJIDs <- MCItemJIDs
    Agents <- MCAgents
    Named <- MCOneGroup
    Priorities = {0, 1}
    Types = {"ptAvailable", "ptUnavailable", "ptError"}
    None = None
    Habits = {"early", "end"}
    MaxList = 1
SPECIFICATION Spec
INVARIANT ToldIsKnown
