------------------------------- MODULE Lists -------------------------------
(* Lists that lose some of their elements while the others keep their order. *)
EXTENDS Naturals, Sequences

\* What is left of c when only the elements in K are kept.  As a recursive function
\* of how much of c was seen: theorems are proved about it, and SelectSeq has no
\* definition that the provers know.
Kept(c, K) ==
    LET f[n \in 0..Len(c)] ==
          IF n = 0 THEN <<>>
          ELSE IF c[n] \in K THEN Append(f[n - 1], c[n]) ELSE f[n - 1]
    IN f[Len(c)]
=============================================================================
