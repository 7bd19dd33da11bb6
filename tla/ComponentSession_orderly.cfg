CONSTANTS
    Habits = {"unregister"}
    Faults = {"garbage"}
    MaxQueries <- MCMaxQueries
    MaxStreams <- MCMaxStreams
SPECIFICATION FairSpec
CHECK_DEADLOCK FALSE
INVARIANTS AssertionsHold RegisteredComeFirst
PROPERTY ConnectIsAnswered
