CONSTANTS
    MaxElements <- MCMaxElements
    MaxDepth <- MCMaxDepth
    MidStanza = FALSE
    InCallback = FALSE
SPECIFICATION Spec
CHECK_DEADLOCK FALSE
INVARIANTS StackTracksDocument DeliveredIsComplete TreeIsDocument AbortsOnlyAfterEnd
PROPERTY ImplementsStanzaStream
