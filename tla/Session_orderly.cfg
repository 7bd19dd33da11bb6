CONSTANTS
    AuthTypes = {"atAutoAuth", "atPlaintextAuth"}
    Habits = {"newuser", "noauth", "query"}
    Faults = {"refuse", "hangup", "garbage"}
    MaxID <- MCMaxID
    MaxStreams <- MCMaxStreams
SPECIFICATION FairSpec
CHECK_DEADLOCK FALSE
INVARIANTS LoginIsUnderWay StreamIsTracked
PROPERTIES DisconnectHolds AttemptIsAnswered
