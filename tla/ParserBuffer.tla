---------------------------- MODULE ParserBuffer ----------------------------
(***************************************************************************)
(* The buffer of xmlparse.c, in which XML_Parse() keeps the bytes that the  *)
(* processor has left until there are more.  A buffer is a record: mem, the *)
(* bytes from `buffer' to `bufferLim'; ptr and end, how many of them are    *)
(* before `bufferPtr' and before `bufferEnd'.                               *)
(*                                                                         *)
(* XML_CONTEXT_BYTES is not defined: winconfig.h, which would, is included  *)
(* only under COMPILED_FROM_DSP, and no project or makefile defines that.   *)
(***************************************************************************)
EXTENDS Integers, Sequences

CONSTANTS
    InitBufferSize,
    Unwritten       \* what is in memory that nothing was written to

ASSUME BufferAssumption == InitBufferSize \in Nat \ {0}

NoBuffer == [mem |-> <<>>, ptr |-> 0, end |-> 0]

\* From bufferPtr to bufferEnd: what has not been parsed.
Unparsed(b) == SubSeq(b.mem, b.ptr + 1, b.end)

\* A block of memory that begins with bytes.
Block(size, bytes) == [k \in 1..size |-> IF k <= Len(bytes) THEN bytes[k] ELSE Unwritten]

\* bytes are written behind the first n of a block.
Overwritten(mem, n, bytes) ==
    [k \in 1..Len(mem) |-> IF k > n /\ k <= n + Len(bytes) THEN bytes[k - n] ELSE mem[k]]

\* The size is doubled once, and then until it is enough.
Doubled(size, needed) ==
    LET doubled[k \in 0..needed] ==
            IF k = 0 THEN 2 * size
            ELSE LET last == doubled[k - 1] IN IF last >= needed THEN last ELSE 2 * last
    IN doubled[needed]

\* XML_GetBuffer(): room for len bytes behind bufferEnd.
GetBuffer(b, len) ==
    LET left == Unparsed(b)
        room == Len(b.mem) - b.ptr
    IN IF len <= Len(b.mem) - b.end THEN b
       ELSE [ptr |-> 0, end |-> Len(left),
             mem |-> IF len + Len(left) <= Len(b.mem) THEN Overwritten(b.mem, 0, left)
                     ELSE Block(Doubled(IF room = 0 THEN InitBufferSize ELSE room,
                                        len + Len(left)), left)]

\* The bytes are copied to where XML_GetBuffer() has made room, and bufferEnd advances.
Copied(b, bytes) ==
    LET room == GetBuffer(b, Len(bytes))
    IN [ptr |-> room.ptr, end |-> room.end + Len(bytes),
        mem |-> Overwritten(room.mem, room.end, bytes)]

-----------------------------------------------------------------------------
(* XML_Parse(): bytes are parsed where they are if nothing is left of those  *)
(* before, and in the buffer otherwise.                                      *)

\* What the processor is given.
Given(b, bytes) == IF b.ptr = b.end THEN bytes ELSE Unparsed(Copied(b, bytes))

\* Mutant of KeptBack: a block that is large enough is taken for the one with the bytes.
KeptBack_NotMoved(b, bytes, n) ==
    LET left == SubSeq(bytes, n + 1, Len(bytes))
    IN IF Len(left) <= Len(b.mem) THEN b
       ELSE [ptr |-> 0, end |-> Len(left), mem |-> Block(2 * Len(bytes), left)]

\* What the processor leaves of bytes that it was given where they are, n of which it took.
KeptBack(b, bytes, n) ==
    LET left == SubSeq(bytes, n + 1, Len(bytes))
    IN IF left = <<>> THEN b
       ELSE [ptr |-> 0, end |-> Len(left),
             mem |-> IF Len(left) > Len(b.mem) THEN Block(2 * Len(bytes), left)
                     ELSE Overwritten(b.mem, 0, left)]

\* The processor has taken n of what it was given.
Parsed(b, bytes, n) ==
    IF b.ptr = b.end THEN KeptBack(b, bytes, n)
    ELSE LET all == Copied(b, bytes) IN [ptr |-> all.ptr + n, end |-> all.end, mem |-> all.mem]

\* The processor has found an error: bufferPtr stays.
Refused(b, bytes) == IF b.ptr = b.end THEN b ELSE Copied(b, bytes)
=============================================================================
