CONSTANTS
    JIDs <- MCJIDs
    ItemJIDs <- MCItemJIDs
    Agents <- MCAgents
    Named <- MCNamed
    Priorities = {0}
    Types = {"ptAvailable", "ptUnavailable", "ptError"}
    None = None
    Habits = {}
    MaxList = 2
SPECIFICATION Spec
INVARIANTS IndexIsExact OnlineIsTruth
