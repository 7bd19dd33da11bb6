---------------------------- MODULE StanzaStream ----------------------------
(***************************************************************************)
(* What ElementStream (libjudo) promises to its ElementStreamEventListener: *)
(* the notifications of one stream are onDocumentStart, then onElement for  *)
(* one complete packet-level element after the other, then onDocumentEnd,   *)
(* and nothing after that or after a parse error until the next reset().    *)
(* Session and ComponentSession are written against this contract.          *)
(***************************************************************************)
EXTENDS Naturals

VARIABLES
    phase,      \* what the listener has been told of the current stream
    newest      \* the newest packet-level element handed out, 0 for none

vars == <<phase, newest>>

Phases == {"fresh", "open", "ended", "failed"}

Init ==
    /\ phase = "fresh"
    /\ newest = 0

\* onDocumentStart: the root start tag of the stream.
DocumentStart ==
    /\ phase = "fresh"
    /\ phase' = "open"
    /\ UNCHANGED newest

\* onElement: a packet-level element, begun later than any handed out before.
Element ==
    /\ phase = "open"
    /\ newest' > newest
    /\ UNCHANGED phase

\* onDocumentEnd: the root end tag of the stream.
DocumentEnd ==
    /\ phase = "open"
    /\ phase' = "ended"
    /\ UNCHANGED newest

\* push() throws ParserError.
ParserError ==
    /\ phase' = "failed"
    /\ UNCHANGED newest

\* reset(): the next stream.
Reset ==
    /\ phase' = "fresh"
    /\ UNCHANGED newest

Next ==
    \/ DocumentStart
    \/ Element
    \/ DocumentEnd
    \/ ParserError
    \/ Reset

Spec == Init /\ [][Next]_vars
=============================================================================
