CONSTANTS
    AuthTypes = {"atAutoAuth", "atPlaintextAuth", "at0kAuth"}
    Habits = {"again", "newuser", "noauth", "linger", "reentrant"}
    Faults = {"refuse", "emptyError", "hangup", "garbage"}
    MaxID = 2
    MaxStreams <- MCMaxStreams
SPECIFICATION Spec
CHECK_DEADLOCK FALSE
INVARIANTS AnswersFindTheirRequest ConnectedIsAccepted
