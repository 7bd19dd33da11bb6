--------------------------- MODULE MCElementStream ---------------------------
(* ElementStream with the bounds its configurations share. *)
EXTENDS ElementStream

\* Two packet-level elements with a child and a grandchild, over two streams.
MCMaxElements == 6
MCMaxDepth    == 4
=============================================================================
