------------------------------ MODULE MCSession ------------------------------
(* Session with the bounds its configurations share. *)
EXTENDS Session

\* Two streams, so that what is left over from the first meets the second; ids
\* for two complete logins on the first of them.
MCMaxID      == 5
MCMaxStreams == 2
=============================================================================
