CONSTANTS
    InitBufferSize = 4
    Unwritten = "?"
    PieceSizes = {1, 3}
    LongPieceSizes = {4, 7}
    LongText = 24
    Words = {""}
    InitGroupSize = 2
    MaxLevel = 3
    PushSizes = {1, 2, 3, 5}
    MaxBytes = 11
SPECIFICATION Spec
INVARIANTS PiecesDoNotMatter DocumentIsReported PrologIsTheGrammar GroupsAreTracked
PROPERTIES GroupsGoOn StreamIsReadOn
CHECK_DEADLOCK FALSE
