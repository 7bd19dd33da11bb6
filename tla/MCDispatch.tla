----------------------------- MODULE MCDispatch -----------------------------
(* Dispatch with the bounds its configurations share. *)
EXTENDS Dispatch

\* Two ids, so that one is the next of the other; a query that selects iqs and one
\* that selects everything.
MCIds        == {1, 2}
MCSelections == {{"iq"}, {"iq", "packet"}}
MCMaxNodes   == 3
MCMaxDepth   == 3
=============================================================================
