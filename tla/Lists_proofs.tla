---------------------------- MODULE Lists_proofs ----------------------------
(***************************************************************************)
(* What is left of a list: the elements that are kept, all of them, in      *)
(* their order.                                                             *)
(***************************************************************************)
EXTENDS Lists, WellFoundedInduction, NaturalsInduction, SequenceTheorems, TLAPS

\* A set of naturals that is not empty has a least element.  The inductions below
\* are about the least natural for which what they claim does not hold.
LEMMA LeastNatural ==
    ASSUME NEW S, S \subseteq Nat, S # {}
    PROVE  \E m \in S : \A n \in S : m <= n
<1>1. PICK m \in S : \A n \in S : ~ (<<n, m>> \in OpToRel(<, Nat))
  BY NatLessThanWellFounded, WFMin
<1>2. ASSUME NEW n \in S PROVE m <= n
  <2>1. ~ (n < m)
    BY <1>1, <1>2, Zenon DEF OpToRel
  <2> QED  BY <2>1
<1> QED  BY <1>2

\* Induction up to n.
LEMMA UpTo ==
    ASSUME NEW n \in Nat, NEW Q, 0 \in Q, \A i \in 1..n : i - 1 \in Q => i \in Q
    PROVE  \A i \in 0..n : i \in Q
<1> DEFINE Bad == {i \in 0..n : i \notin Q}
<1>1. SUFFICES ASSUME Bad # {} PROVE FALSE
  OBVIOUS
<1>2. PICK m \in Bad : \A i \in Bad : m <= i
  <2>1. Bad \subseteq Nat
    OBVIOUS
  <2> HIDE DEF Bad
  <2> QED  BY <1>1, <2>1, LeastNatural
<1>3. m \in 1..n /\ m - 1 \in 0..n /\ m - 1 \notin Bad
  BY <1>2
<1> QED  BY <1>2, <1>3

\* The table F of a recursion from a leads from G[i - 1] to G[i], for i up to n.
LeadsOn(F, a, G, n) ==
    /\ a \in G[0]
    /\ \A i \in 1..n : \A x \in G[i - 1] : F[<<x, i>>] \in G[i]

\* What a recursive function with this table has been, up to n.
Follows(f, F, a, G, n) ==
    \A i \in 0..n : /\ f[i] = IF i = 0 THEN a ELSE F[<<f[i - 1], i>>]
                    /\ f[i] \in G[i]

LEMMA RecursionIsDefined ==
    ASSUME NEW n \in Nat, NEW G, NEW F, NEW a, LeadsOn(F, a, G, n)
    PROVE  \E f : Follows(f, F, a, G, n)
<1> USE DEF LeadsOn
<1> DEFINE Up(f, m) == \A i \in 0..m : /\ f[i] = IF i = 0 THEN a ELSE F[<<f[i - 1], i>>]
                                       /\ f[i] \in G[i]
           Q == {m \in 0..n : \E f : Up(f, m)}
<1>1. 0 \in Q
  <2>1. Up([i \in 0..0 |-> a], 0)
    OBVIOUS
  <2> HIDE DEF Up
  <2> QED  BY <2>1
<1>2. ASSUME NEW m \in 1..n, m - 1 \in Q PROVE m \in Q
  <2>1. PICK g : Up(g, m - 1)
    BY <1>2
  <2> DEFINE f == [i \in 0..m |-> IF i = m THEN F[<<g[m - 1], m>>] ELSE g[i]]
  <2>2. ASSUME NEW i \in 0..m
        PROVE  /\ f[i] = IF i = 0 THEN a ELSE F[<<f[i - 1], i>>]
               /\ f[i] \in G[i]
    <3>1. g[m - 1] \in G[m - 1]
      <4>1. m - 1 \in 0..(m - 1)
        OBVIOUS
      <4> QED  BY <2>1, <4>1
    <3>2. CASE i = m
      <4>1. f[i] = F[<<g[m - 1], m>>] /\ f[i - 1] = g[m - 1]
        BY <3>2
      <4>2. F[<<g[m - 1], m>>] \in G[m]
        BY <3>1
      <4>3. i # 0 /\ f[i] = F[<<f[i - 1], i>>]
        BY <3>2, <4>1
      <4> HIDE DEF f
      <4> QED  BY <3>2, <4>1, <4>2, <4>3
    <3>3. CASE i # m
      <4>1. i \in 0..(m - 1)
        BY <3>3
      <4>2. f[i] = g[i] /\ (i # 0 => f[i - 1] = g[i - 1])
        BY <3>3
      <4> QED  BY <2>1, <4>1, <4>2
    <3> QED  BY <3>2, <3>3
  <2>3. Up(f, m)
    BY <2>2
  <2> HIDE DEF Up
  <2> QED  BY <2>3
<1> HIDE DEF Up
<1>3. n \in Q
  <2> HIDE DEF Q
  <2> QED  BY <1>1, <1>2, UpTo
<1> QED  BY <1>3 DEF Up, Follows

\* One step of Kept, as a function of what is left of the part before.
LeftOf(c, K, n, before) ==
    IF n = 0 THEN <<>>
    ELSE IF c[n] \in K THEN Append(before, c[n]) ELSE before

\* A function that says what is left of the first n elements, for n up to m.
KeepsUpTo(f, c, K, m) == \A n \in 0..m : f[n] = LeftOf(c, K, n, f[n - 1])

\* The recursion of Kept defines such a function.
LEMMA KeptIsDefined ==
    ASSUME NEW S, NEW c \in Seq(S), NEW K
    PROVE  \E f : /\ f = [n \in 0..Len(c) |-> LeftOf(c, K, n, f[n - 1])]
                  /\ Kept(c, K) = f[Len(c)]
<1> DEFINE N == Len(c)
           Missing == {m \in 0..N :
                          ~ \E f : DOMAIN f = 0..m /\ KeepsUpTo(f, c, K, m)}
<1>0. N \in Nat
  BY LenProperties
<1>1. Missing = {}
  <2>1. SUFFICES ASSUME Missing # {} PROVE FALSE
    OBVIOUS
  <2>2. Missing \subseteq Nat
    BY <1>0
  <2>3. PICK m \in Missing : \A n \in Missing : m <= n
    BY <2>1, <2>2, LeastNatural
  <2>4. CASE m = 0
    <3>1. KeepsUpTo([n \in 0..0 |-> <<>>], c, K, 0)
      BY DEF KeepsUpTo, LeftOf
    <3> QED  BY <2>4, <3>1
  <2>5. CASE m # 0
    <3>1. m - 1 \in 0..N /\ m \in 1..N /\ m - 1 \notin Missing
      BY <1>0, <2>3, <2>5
    <3>2. PICK g : DOMAIN g = 0..(m - 1) /\ KeepsUpTo(g, c, K, m - 1)
      BY <3>1
    <3> DEFINE f == [n \in 0..m |-> IF n = m THEN LeftOf(c, K, m, g[m - 1]) ELSE g[n]]
    <3>3. ASSUME NEW n \in 0..m PROVE f[n] = LeftOf(c, K, n, f[n - 1])
      <4>1. CASE n = m
        BY <3>1, <4>1
      <4>2. CASE n = 0
        BY <3>1, <3>2, <4>2 DEF KeepsUpTo, LeftOf
      <4>3. CASE n # m /\ n # 0
        <5>1. n \in 0..(m - 1) /\ n - 1 \in 0..(m - 1) /\ n - 1 # m
          BY <3>1, <4>3
        <5>2. f[n] = g[n] /\ f[n - 1] = g[n - 1]
          BY <3>1, <4>3, <5>1
        <5> QED  BY <3>2, <5>1, <5>2 DEF KeepsUpTo
      <4> QED  BY <4>1, <4>2, <4>3
    <3>4. DOMAIN f = 0..m /\ KeepsUpTo(f, c, K, m)
      BY <3>3 DEF KeepsUpTo
    <3> QED  BY <3>4
  <2> QED  BY <2>4, <2>5
<1>2. PICK g : DOMAIN g = 0..N /\ KeepsUpTo(g, c, K, N)
  BY <1>0, <1>1
<1> DEFINE f == [n \in 0..N |-> g[n]]
<1>3. f = [n \in 0..N |-> LeftOf(c, K, n, f[n - 1])]
  <2>1. ASSUME NEW n \in 0..N PROVE f[n] = LeftOf(c, K, n, f[n - 1])
    <3>1. CASE n = 0
      BY <1>0, <1>2, <3>1 DEF KeepsUpTo, LeftOf
    <3>2. CASE n # 0
      <4>1. n - 1 \in 0..N
        BY <1>0, <3>2
      <4> QED  BY <1>2, <4>1 DEF KeepsUpTo
    <3> QED  BY <3>1, <3>2
  <2> QED  BY <2>1
<1> DEFINE h == CHOOSE f_1 : f_1 = [n \in 0..N |->
                 IF n = 0 THEN <<>>
                 ELSE IF c[n] \in K THEN Append(f_1[n - 1], c[n]) ELSE f_1[n - 1]]
<1>4. h = [n \in 0..N |-> LeftOf(c, K, n, h[n - 1])]
  BY <1>3 DEF LeftOf
<1>5. Kept(c, K) = h[N]
  BY DEF Kept
<1> QED  BY <1>4, <1>5

\* What is left of the first n elements of c, and where in c it was: h is the
\* position in c of each element that is left.
LeftFrom(r, c, K, n, h) ==
    /\ h \in [1..Len(r) -> 1..n]
    /\ \A j \in 1..Len(r) : r[j] = c[h[j]] /\ c[h[j]] \in K
    /\ \A j, k \in 1..Len(r) : j < k => h[j] < h[k]
    /\ \A i \in 1..n : c[i] \in K => \E j \in 1..Len(r) : h[j] = i

\* Kept keeps the elements of K, all of them, in their order.
LEMMA KeptProperties ==
    ASSUME NEW S, NEW c \in Seq(S), NEW K
    PROVE  /\ Kept(c, K) \in Seq(S)
           /\ Len(Kept(c, K)) <= Len(c)
           /\ \E h : LeftFrom(Kept(c, K), c, K, Len(c), h)
<1>1. PICK f : /\ f = [n \in 0..Len(c) |-> LeftOf(c, K, n, f[n - 1])]
               /\ Kept(c, K) = f[Len(c)]
  BY KeptIsDefined
<1> DEFINE Good(n) == /\ f[n] \in Seq(S)
                      /\ Len(f[n]) <= n
                      /\ \E h : LeftFrom(f[n], c, K, n, h)
           Bad == {n \in 0..Len(c) : ~ Good(n)}
<1>2. Len(c) \in Nat /\ \A i \in 1..Len(c) : c[i] \in S
  BY LenProperties, ElementOfSeq
<1>3. Good(0)
  <2>1. f[0] = <<>>
    BY <1>1, <1>2 DEF LeftOf
  <2>2. LeftFrom(<<>>, c, K, 0, [j \in 1..0 |-> 0])
    BY DEF LeftFrom
  <2> QED  BY <2>1, <2>2
<1>4. ASSUME NEW n \in 1..Len(c), Good(n - 1) PROVE Good(n)
  <2> DEFINE b == f[n - 1]
             r == f[n]
  <2>1. /\ b \in Seq(S) /\ Len(b) <= n - 1 /\ Len(b) \in Nat
        /\ r = IF c[n] \in K THEN Append(b, c[n]) ELSE b
    <3>1. n \in 0..Len(c) /\ n # 0
      BY <1>2
    <3>2. r = LeftOf(c, K, n, b)
      BY <1>1, <3>1, Zenon
    <3>3. b \in Seq(S) /\ Len(b) <= n - 1
      BY <1>4, Zenon
    <3> HIDE DEF b, r
    <3> QED  BY <3>1, <3>2, <3>3, LenProperties DEF LeftOf
  <2>2. PICK g : LeftFrom(b, c, K, n - 1, g)
    BY <1>4
  <2> HIDE DEF b, r
  <2>3. CASE c[n] \in K
    <3> DEFINE m == Len(b) + 1
               h == [j \in 1..m |-> IF j = m THEN n ELSE g[j]]
    <3>1. /\ r \in Seq(S) /\ Len(r) = m /\ r[m] = c[n]
          /\ \A j \in 1..Len(b) : r[j] = b[j]
      BY <1>2, <2>1, <2>3, AppendProperties
    <3>2. h \in [1..m -> 1..n]
      BY <1>2, <2>1, <2>2 DEF LeftFrom
    <3>3. \A j \in 1..m : r[j] = c[h[j]] /\ c[h[j]] \in K
      BY <1>2, <2>1, <2>2, <2>3, <3>1 DEF LeftFrom
    <3>4. \A j, k \in 1..m : j < k => h[j] < h[k]
      <4> SUFFICES ASSUME NEW j \in 1..m, NEW k \in 1..m, j < k PROVE h[j] < h[k]
        OBVIOUS
      <4>1. j \in 1..Len(b) /\ g[j] \in 1..(n - 1)
        <5>1. j \in 1..Len(b)
          BY <2>1
        <5> QED  BY <2>2, <5>1 DEF LeftFrom
      <4>2. CASE k = m
        BY <2>1, <4>1, <4>2
      <4>3. CASE k # m
        BY <2>1, <2>2, <4>1, <4>3 DEF LeftFrom
      <4> QED  BY <4>2, <4>3
    <3>5. \A i \in 1..n : c[i] \in K => \E j \in 1..m : h[j] = i
      <4> SUFFICES ASSUME NEW i \in 1..n, c[i] \in K
                   PROVE  \E j \in 1..m : h[j] = i
        OBVIOUS
      <4>1. CASE i = n
        BY <2>1, <4>1
      <4>2. CASE i # n
        <5>1. PICK j \in 1..Len(b) : g[j] = i
          BY <2>2, <4>2 DEF LeftFrom
        <5> QED  BY <2>1, <5>1
      <4> QED  BY <4>1, <4>2
    <3>6. LeftFrom(r, c, K, n, h)
      BY <3>1, <3>2, <3>3, <3>4, <3>5 DEF LeftFrom
    <3> QED  BY <2>1, <3>1, <3>6 DEF r
  <2>4. CASE c[n] \notin K
    <3>1. r = b
      BY <2>1, <2>4
    <3>2. g \in [1..Len(r) -> 1..n]
      BY <1>2, <2>1, <2>2, <3>1 DEF LeftFrom
    <3>3. \A i \in 1..n : c[i] \in K => \E j \in 1..Len(r) : g[j] = i
      <4> SUFFICES ASSUME NEW i \in 1..n, c[i] \in K
                   PROVE  \E j \in 1..Len(r) : g[j] = i
        OBVIOUS
      <4>1. i \in 1..(n - 1)
        BY <2>4
      <4> QED  BY <2>2, <3>1, <4>1 DEF LeftFrom
    <3>4. LeftFrom(r, c, K, n, g)
      BY <2>2, <3>1, <3>2, <3>3 DEF LeftFrom
    <3> QED  BY <2>1, <3>1, <3>4 DEF r
  <2> QED  BY <2>3, <2>4
<1>5. Bad = {}
  <2>1. SUFFICES ASSUME Bad # {} PROVE FALSE
    OBVIOUS
  <2> HIDE DEF Good
  <2>2. Bad \subseteq Nat
    BY <1>2
  <2>3. PICK n \in Bad : \A m \in Bad : n <= m
    BY <2>1, <2>2, LeastNatural
  <2>4. n \in 1..Len(c) /\ n - 1 \in 0..Len(c) /\ n - 1 \notin Bad
    BY <1>2, <1>3, <2>3
  <2> QED  BY <1>4, <2>3, <2>4
<1> HIDE DEF Good
<1>6. Good(Len(c))
  BY <1>2, <1>5
<1> QED  BY <1>1, <1>6 DEF Good
=============================================================================
