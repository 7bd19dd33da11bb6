CONSTANTS
    Habits = {"linger"}
    Faults = {}
    MaxQueries <- MCMaxQueries
    MaxStreams <- MCMaxStreams
SPECIFICATION Spec
CHECK_DEADLOCK FALSE
INVARIANT AssertionsHold
