------------------------- MODULE MCComponentSession -------------------------
(* ComponentSession with the bounds its configurations share. *)
EXTENDS ComponentSession

\* A first, a middle and a last query; a second stream after the first.
MCMaxQueries == 4
MCMaxStreams == 2
=============================================================================
