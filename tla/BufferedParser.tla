--------------------------- MODULE BufferedParser ---------------------------
(***************************************************************************)
(* A parser of xmlparse.c under an ElementStream, as far as its buffer is   *)
(* concerned: what is pushed goes to the processor, which takes as much of  *)
(* it as it likes, or refuses it.  A byte is its place in the stream.       *)
(***************************************************************************)
EXTENDS ParserBuffer

CONSTANTS
    PushSizes,  \* how many bytes a push may have
    MaxBytes    \* bound: bytes pushed to one parser

ASSUME BufferedParserAssumption ==
    /\ PushSizes \subseteq Nat \ {0}
    /\ MaxBytes \in Nat

VARIABLES
    buffer,     \* of the parser
    failed,     \* the processor is errorProcessor
    given,      \* history: what the processor was last given
    pushed,     \* history: how many bytes were pushed
    taken       \* history: how many of them the processor has taken

bufferVars == <<buffer, failed, given, pushed, taken>>

\* The bytes behind the first m up to the n-th.
Places(m, n) == [i \in 1..(n - m) |-> m + i]

BufferInit ==
    /\ buffer = NoBuffer
    /\ failed = FALSE
    /\ given = <<>>
    /\ pushed = 0
    /\ taken = 0

Parses(bytes) ==
    /\ pushed' = pushed + Len(bytes)
    /\ given' = Given(buffer, bytes)

\* XML_Parse(), which the processor returns from without an error.
PushPiece ==
    \E size \in PushSizes :
        LET bytes == Places(pushed, pushed + size)
        IN /\ ~failed
           /\ pushed + size <= MaxBytes
           /\ Parses(bytes)
           /\ \E n \in 0..Len(given') : /\ buffer' = Parsed(buffer, bytes, n)
                                        /\ taken' = taken + n
           /\ UNCHANGED failed

\* XML_Parse(), which the processor returns from with an error, as it does ever after.
PieceFails ==
    \E size \in PushSizes :
        LET bytes == Places(pushed, pushed + size)
        IN /\ pushed + size <= MaxBytes
           /\ Parses(bytes)
           /\ buffer' = Refused(buffer, bytes)
           /\ failed' = TRUE
           /\ UNCHANGED taken

\* ElementStream::reset(): another parser.
NewParserBuffer ==
    /\ buffer' = NoBuffer
    /\ failed' = FALSE
    /\ given' = <<>>
    /\ pushed' = 0
    /\ taken' = 0

BufferNext == PushPiece \/ PieceFails \/ NewParserBuffer

BufferSpec == BufferInit /\ [][BufferNext]_bufferVars

-----------------------------------------------------------------------------

\* bufferPtr and bufferEnd are within the block, and between them is what was pushed and
\* not taken, all of it and in its order, however the pieces and the buffer were, until
\* there is an error (xmlparse.c XML_Parse, XML_GetBuffer).
NothingIsLost ==
    /\ 0 <= buffer.ptr /\ buffer.ptr <= buffer.end /\ buffer.end <= Len(buffer.mem)
    /\ ~failed => Unparsed(buffer) = Places(taken, pushed)

\* Each call gives the processor the bytes that follow the last one it took, up to the
\* last one that was pushed: it reads the stream as though it came in one piece.
StreamIsReadOn ==
    [][~failed /\ pushed' > pushed => given' = Places(taken, pushed')]_bufferVars
=============================================================================
