-------------------------- MODULE Dispatch_proofs --------------------------
(***************************************************************************)
(* Theorems about Dispatch.  They have two inductive invariants: how the    *)
(* containers are ordered, whatever callbacks do, and with it what each     *)
(* loop knows of its container, for callbacks without habits.               *)
(***************************************************************************)
EXTENDS Dispatch, Lists_proofs, FiniteSetTheorems, TLAPS

-----------------------------------------------------------------------------
(* The containers. *)

\* A multimap in the order of ids; each node is in it once and was numbered.
ByIds(c, next) ==
    /\ \A i, j \in DOMAIN c : i < j => c[i].id <= c[j].id
    /\ \A i, j \in DOMAIN c : c[i].node = c[j].node => i = j
    /\ \A i \in DOMAIN c : c[i].node < next

\* A list of queries: registerXPath() puts the latest in front.
LatestFirst(c, next) ==
    /\ \A i, j \in DOMAIN c : i < j => c[j].node < c[i].node
    /\ \A i \in DOMAIN c : c[i].node < next

\* The inductive invariant of the containers.
ContainerInv ==
    /\ callbacks \in Seq(Entries)
    /\ incoming \in Seq(Queries)
    /\ outgoing \in Seq(Queries)
    /\ nextNode \in 1..(MaxNodes + 1)
    /\ ByIds(callbacks, nextNode)
    /\ LatestFirst(incoming, nextNode)
    /\ LatestFirst(outgoing, nextNode)

-----------------------------------------------------------------------------
(* The loops. *)

\* A loop over queries ends at the end.  It is at a node older than itself, has
\* called newer ones than that, and those it still has to call are no newer.
QueryLoop(f, c) ==
    /\ f.stop = End
    /\ Live(c, f.at)
    /\ f.at < f.since
    /\ \A k \in DOMAIN f.called : f.at < f.called[k] /\ f.called[k] < f.since
    /\ \A k, l \in DOMAIN f.called : k < l => f.called[l] < f.called[k]
    /\ \A d \in f.due : /\ d <= f.at
                        /\ \E j \in DOMAIN c : c[j].node = d /\ Fires(f, c[j])

\* The loop of handleIQ(): what waits for the id that is answered is older than
\* the loop and stands between the loop's iterator and its end.
AnswerLoop(f, c) ==
    /\ Live(c, f.at)
    /\ Live(c, f.stop)
    /\ f.at # f.stop => \E j \in DOMAIN c : c[j].node = f.at /\ c[j].id = f.elem.id
    /\ \A j \in DOMAIN c : c[j].id = f.elem.id =>
          /\ c[j].node < f.since
          /\ f.at # f.stop
          /\ \A i \in DOMAIN c : c[i].node = f.at => i <= j
          /\ \A i \in DOMAIN c : c[i].node = f.stop => j < i
    /\ \A k \in DOMAIN f.called : f.called[k] < f.since /\ f.called[k] \notin NodesOf(c)
    /\ \A k, l \in DOMAIN f.called : f.called[k] = f.called[l] => k = l
    /\ \A d \in f.due : \E j \in DOMAIN c : c[j].node = d /\ c[j].id = f.elem.id

\* The handlers of signals run in no loop.
Handlers(f) == f.called = <<>>

\* What is true of a frame.  When an iq has come to the signals, nothing waits for its
\* id.
FrameIsSound(f, cs, ins, outs, next) ==
    /\ f.since <= next
    /\ f.run = "iq"  => AnswerLoop(f, cs)
    /\ f.run = "in"  => QueryLoop(f, ins)
    /\ f.run = "out" => QueryLoop(f, outs)
    /\ f.run = "signal" => Handlers(f)
    /\ f.run \in {"signal", "in"} => \A j \in DOMAIN cs : cs[j].id # f.elem.id

\* What is true of a frame f and one within a callback of it: a loop of handleIQ()
\* does not erase what another stands on, or where that ends.
LeavesIterators(g, f, cs) ==
    f.run = "iq" /\ g.run = "iq" =>
        \A j \in DOMAIN cs : cs[j].node \in {f.at, f.stop} => cs[j].id # g.elem.id

FramesAreSound(s, cs, ins, outs, next) ==
    /\ s \in Seq(Frames)
    /\ \A i \in DOMAIN s : FrameIsSound(s[i], cs, ins, outs, next)
    /\ \A i, k \in DOMAIN s : i < k => LeavesIterators(s[k], s[i], cs)

\* The inductive invariant of the loops.
LoopInv ==
    /\ fault = "none"
    /\ FramesAreSound(frames, callbacks, incoming, outgoing, nextNode)

Inv == ContainerInv /\ LoopInv

-----------------------------------------------------------------------------
(* Lemmas about containers and iterators. *)

LEMMA LeastIs ==
    ASSUME NEW S, S \subseteq Nat, S # {}
    PROVE  Least(S) \in S /\ \A y \in S : Least(S) <= y
  BY LeastNatural DEF Least

\* An initial part of an interval, by the number of its elements.
LEMMA InitialPart ==
    ASSUME NEW n \in Nat, NEW D, D \subseteq 1..n,
           \A i \in D : \A j \in 1..n : j < i => j \in D
    PROVE  D = 1..Cardinality(D) /\ Cardinality(D) \in 0..n
<1> DEFINE Out == {m \in 0..n : m + 1 \notin D}
<1>1. n \in Out
  OBVIOUS
<1>2. PICK m \in Out : \A k \in Out : m <= k
  <2>1. Out \subseteq Nat /\ Out # {}
    BY <1>1
  <2> HIDE DEF Out
  <2> QED  BY <2>1, LeastNatural
<1>3. ASSUME NEW i \in 1..m PROVE i \in D
  BY <1>2
<1>4. ASSUME NEW i \in D PROVE i \in 1..m
  BY <1>2
<1>5. D = 1..m
  BY <1>3, <1>4
<1>6. Cardinality(1..m) = m
  BY <1>2, FS_Interval
<1> QED  BY <1>2, <1>5, <1>6

\* An iterator is where its node is.
LEMMA PositionIs ==
    ASSUME NEW c, NEW i \in DOMAIN c, c[i].node # End,
           \A j, k \in DOMAIN c : c[j].node = c[k].node => j = k
    PROVE  PositionOf(c, c[i].node) = i
  BY DEF PositionOf

\* How what is left of a container lies in it.
WhatIsLeft(r, c, gone, h) ==
    /\ h \in [DOMAIN r -> DOMAIN c]
    /\ \A j \in DOMAIN r : r[j] = c[h[j]] /\ r[j].node \notin gone
    /\ \A j, k \in DOMAIN r : j < k => h[j] < h[k]
    /\ \A i \in DOMAIN c : c[i].node \notin gone => \E j \in DOMAIN r : h[j] = i

LEMMA ErasedIs ==
    ASSUME NEW S, NEW c \in Seq(S), NEW gone
    PROVE  /\ Erased(c, gone) \in Seq(S)
           /\ \E h : WhatIsLeft(Erased(c, gone), c, gone, h)
<1> DEFINE K == {c[i] : i \in {j \in DOMAIN c : c[j].node \notin gone}}
           r == Kept(c, K)
<1>1. r \in Seq(S) /\ \E h : LeftFrom(r, c, K, Len(c), h)
  BY KeptProperties
<1>2. PICK h : LeftFrom(r, c, K, Len(c), h)
  BY <1>1
<1>3. DOMAIN r = 1..Len(r) /\ DOMAIN c = 1..Len(c)
  BY <1>1, LenProperties
<1>4. \A i \in DOMAIN c : c[i] \in K <=> c[i].node \notin gone
  OBVIOUS
<1> HIDE DEF K, r
<1>5. WhatIsLeft(r, c, gone, h)
  BY <1>2, <1>3, <1>4 DEF LeftFrom, WhatIsLeft
<1> QED  BY <1>1, <1>5 DEF Erased, r, K

\* What is left is in order as before.
LEMMA ErasedByIds ==
    ASSUME NEW c \in Seq(Entries), NEW gone, NEW next, ByIds(c, next)
    PROVE  ByIds(Erased(c, gone), next)
<1> DEFINE r == Erased(c, gone)
<1>1. PICK h : WhatIsLeft(r, c, gone, h)
  BY ErasedIs
<1>2. r \in Seq(Entries)
  BY ErasedIs
<1>3. DOMAIN r \subseteq Nat /\ DOMAIN c \subseteq Nat
  BY <1>2, LenProperties
<1> HIDE DEF r
<1>4. ASSUME NEW i \in DOMAIN r, NEW j \in DOMAIN r, r[i].node = r[j].node PROVE i = j
  <2>1. h[i] = h[j]
    BY <1>1, <1>4 DEF WhatIsLeft, ByIds
  <2>2. ~ (i < j) /\ ~ (j < i)
    BY <2>1, <1>1, <1>3 DEF WhatIsLeft
  <2> QED  BY <2>2, <1>3
<1>5. \A i, j \in DOMAIN r : i < j => r[i].id <= r[j].id
  BY <1>1 DEF WhatIsLeft, ByIds
<1>6. \A i \in DOMAIN r : r[i].node < next
  BY <1>1 DEF WhatIsLeft, ByIds
<1> QED  BY <1>4, <1>5, <1>6 DEF ByIds, r

LEMMA ErasedLatestFirst ==
    ASSUME NEW c \in Seq(Queries), NEW gone, NEW next, LatestFirst(c, next)
    PROVE  LatestFirst(Erased(c, gone), next)
<1> DEFINE r == Erased(c, gone)
<1>1. PICK h : WhatIsLeft(r, c, gone, h)
  BY ErasedIs
<1> HIDE DEF r
<1>2. \A i, j \in DOMAIN r : i < j => r[j].node < r[i].node
  BY <1>1 DEF WhatIsLeft, LatestFirst
<1>3. \A i \in DOMAIN r : r[i].node < next
  BY <1>1 DEF WhatIsLeft, LatestFirst
<1> QED  BY <1>2, <1>3 DEF LatestFirst, r

\* The nodes that are left are those that were not erased.
LEMMA ErasedNodes ==
    ASSUME NEW S, NEW c \in Seq(S), NEW gone
    PROVE  NodesOf(Erased(c, gone)) = NodesOf(c) \ gone
<1> DEFINE r == Erased(c, gone)
<1>1. PICK h : WhatIsLeft(r, c, gone, h)
  BY ErasedIs
<1> HIDE DEF r
<1>2. ASSUME NEW j \in DOMAIN r PROVE r[j].node \in NodesOf(c) \ gone
  BY <1>1 DEF WhatIsLeft, NodesOf
<1>3. ASSUME NEW i \in DOMAIN c, c[i].node \notin gone PROVE c[i].node \in NodesOf(r)
  BY <1>1, <1>3 DEF WhatIsLeft, NodesOf
<1> QED  BY <1>2, <1>3 DEF NodesOf, r

\* A registration goes after those of its id and of lower ones.
LEMMA InsertedIs ==
    ASSUME callbacks \in Seq(Entries), NEW next, ByIds(callbacks, next),
           NEW n \in Nodes, NEW id \in Ids
    PROVE  LET r == Inserted(n, id)
               e == [node |-> n, id |-> id]
           IN /\ r \in Seq(Entries)
              /\ \E p \in 1..(Len(callbacks) + 1) :
                    /\ Len(r) = Len(callbacks) + 1
                    /\ \A j \in 1..Len(r) :
                          r[j] = IF j < p THEN callbacks[j]
                                 ELSE IF j = p THEN e ELSE callbacks[j - 1]
                    /\ \A j \in DOMAIN callbacks :
                          IF j < p THEN callbacks[j].id <= id ELSE id < callbacks[j].id
<1> DEFINE c == callbacks
           N == Len(c)
           e == [node |-> n, id |-> id]
           D == {j \in DOMAIN c : c[j].id <= id}
           i == Cardinality(D)
           r == Inserted(n, id)
<1>1. N \in Nat /\ DOMAIN c = 1..N /\ \A j \in 1..N : c[j] \in Entries
  BY LenProperties, ElementOfSeq
<1>2. id \in Nat /\ \A j \in 1..N : c[j].id \in Nat
  BY <1>1, DispatchAssumption DEF Entries
<1>3. \A k \in D : \A j \in 1..N : j < k => j \in D
  <2> SUFFICES ASSUME NEW k \in D, NEW j \in 1..N, j < k PROVE j \in D
    OBVIOUS
  <2>1. c[j].id <= c[k].id
    BY <1>1 DEF ByIds
  <2> QED  BY <2>1, <1>1, <1>2
<1>4. D = 1..i /\ i \in 0..N
  <2>1. D \subseteq 1..N
    BY <1>1
  <2> HIDE DEF D
  <2> QED  BY <1>1, <1>3, <2>1, InitialPart
<1>5. r = SubSeq(c, 1, i) \o <<e>> \o SubSeq(c, i + 1, N)
  BY DEF Inserted
<1> HIDE DEF i
<1>6. r \in Seq(Entries) /\ Len(r) = N + 1
      /\ \A j \in 1..(N + 1) : r[j] = IF j < i + 1 THEN c[j]
                                      ELSE IF j = i + 1 THEN e ELSE c[j - 1]
  <2> DEFINE a == SubSeq(c, 1, i)
             b == SubSeq(c, i + 1, N)
  <2>1. e \in Entries
    BY DEF Entries
  <2>2. a \in Seq(Entries) /\ Len(a) = i /\ \A j \in 1..i : a[j] = c[j]
    BY <1>1, <1>4
  <2>3. b \in Seq(Entries) /\ Len(b) = N - i /\ \A j \in 1..(N - i) : b[j] = c[i + j]
    <3>1. i + 1 \in 1..(N + 1) /\ N \in 0..N
      BY <1>1, <1>4
    <3>2. c \in Seq(Entries)
      OBVIOUS
    <3>3. i + 1 \in 1..(Len(c) + 1) /\ N \in ((i + 1) - 1)..Len(c)
          /\ N - (i + 1) + 1 = N - i
      BY <1>1, <1>4
    <3> HIDE DEF c, N
    <3>4. b \in Seq(Entries) /\ Len(b) = N - (i + 1) + 1
          /\ \A j \in 1..(N - (i + 1) + 1) : b[j] = c[(i + 1) + j - 1]
      BY <3>2, <3>3, SubSeqProperties
    <3>5. \A j \in 1..(N - i) : (i + 1) + j - 1 = i + j
      BY <1>4
    <3> QED  BY <3>3, <3>4, <3>5
  <2>4. r = a \o <<e>> \o b
    BY <1>5
  <2> HIDE DEF a, b, e, D, N, c, r
  <2>5. <<e>> \in Seq(Entries) /\ Len(<<e>>) = 1 /\ <<e>>[1] = e
    BY <2>1
  <2> DEFINE one == <<e>>
  <2> HIDE DEF one
  <2> DEFINE front == a \o one
  <2>6. front \in Seq(Entries) /\ Len(front) = i + 1
        /\ \A j \in 1..(i + 1) : front[j] = IF j < i + 1 THEN c[j] ELSE e
    BY <1>4, <2>2, <2>5 DEF one
  <2> HIDE DEF front
  <2> DEFINE whole == front \o b
  <2> HIDE DEF whole
  <2>7. /\ Len(whole) = N + 1 /\ whole \in Seq(Entries)
        /\ \A j \in 1..(N + 1) : whole[j] = IF j <= i + 1 THEN front[j]
                                                     ELSE b[j - (i + 1)]
    <3>1. front \in Seq(Entries) /\ b \in Seq(Entries) /\ Len(front) = i + 1
          /\ Len(b) = N - i
      BY <2>3, <2>6
    <3>2. (i + 1) + (N - i) = N + 1
      BY <1>1, <1>4
    <3>3. /\ whole \in Seq(Entries) /\ Len(whole) = Len(front) + Len(b)
          /\ \A j \in 1..(Len(front) + Len(b)) :
                whole[j] = IF j <= Len(front) THEN front[j] ELSE b[j - Len(front)]
      BY <3>1, ConcatProperties DEF whole
    <3>4. /\ whole \in Seq(Entries) /\ Len(whole) = N + 1
          /\ \A j \in 1..(N + 1) : whole[j] = IF j <= i + 1 THEN front[j] ELSE b[j - (i + 1)]
      BY <3>1, <3>2, <3>3
    <3> QED  BY <3>4
  <2>8. ASSUME NEW j \in 1..(N + 1)
        PROVE  whole[j] = IF j < i + 1 THEN c[j] ELSE IF j = i + 1 THEN e ELSE c[j - 1]
    <3>1. CASE j <= i + 1
      BY <1>1, <1>4, <2>6, <2>7, <3>1
    <3>2. CASE j > i + 1
      <4>1. whole[j] = b[j - (i + 1)]
        BY <1>1, <1>4, <2>7, <3>2
      <4>2. j - (i + 1) \in 1..(N - i) /\ i + (j - (i + 1)) = j - 1
        BY <1>1, <1>4, <3>2
      <4> QED  BY <1>1, <1>4, <2>3, <3>2, <4>1, <4>2
    <3> QED  BY <1>1, <1>4, <3>1, <3>2
  <2> QED  BY <2>4, <2>7, <2>8 DEF whole, front, one
<1>7. \A j \in 1..N : IF j < i + 1 THEN c[j].id <= id ELSE id < c[j].id
  <2> SUFFICES ASSUME NEW j \in 1..N PROVE IF j < i + 1 THEN c[j].id <= id ELSE id < c[j].id
    OBVIOUS
  <2>1. j \in D <=> j < i + 1
    BY <1>1, <1>4
  <2> QED  BY <2>1, <1>1, <1>2
<1>8. i + 1 \in 1..(N + 1)
  BY <1>1, <1>4
<1> HIDE DEF r, e, D
<1> QED  BY <1>1, <1>6, <1>7, <1>8 DEF r, e

LEMMA InsertedByIds ==
    ASSUME callbacks \in Seq(Entries), NEW n \in Nodes, ByIds(callbacks, n),
           NEW id \in Ids
    PROVE  ByIds(Inserted(n, id), n + 1)
<1> DEFINE c == callbacks
           N == Len(c)
           e == [node |-> n, id |-> id]
           r == Inserted(n, id)
<1>1. PICK p \in 1..(N + 1) :
          /\ Len(r) = N + 1
          /\ \A j \in 1..Len(r) :
                r[j] = IF j < p THEN c[j] ELSE IF j = p THEN e ELSE c[j - 1]
          /\ \A j \in DOMAIN c : IF j < p THEN c[j].id <= id ELSE id < c[j].id
  BY InsertedIs
<1>2. r \in Seq(Entries) /\ DOMAIN r = 1..Len(r)
  BY InsertedIs, LenProperties
<1>3. N \in Nat /\ DOMAIN c = 1..N /\ n \in Nat /\ id \in Nat
  BY LenProperties, DispatchAssumption DEF Nodes
<1>4. \A j \in 1..N : c[j].id \in Nat /\ c[j].node \in Nat /\ c[j].node < n
  <2>1. \A j \in 1..N : c[j] \in Entries
    BY ElementOfSeq
  <2>2. \A j \in 1..N : c[j].node < n
    BY <1>3 DEF ByIds
  <2>3. \A x \in Entries : x.id \in Nat /\ x.node \in Nat
    <3>1. \A x \in Entries : x.id \in Ids /\ x.node \in Nodes
      BY DEF Entries
    <3>2. Nodes \subseteq Nat /\ Ids \subseteq Nat
      BY DispatchAssumption DEF Nodes
    <3> QED  BY <3>1, <3>2
  <2> QED  BY <2>1, <2>2, <2>3
<1>5. e.node = n /\ e.id = id
  OBVIOUS
<1>6. /\ \A i, j \in 1..N : i < j => c[i].id <= c[j].id
      /\ \A i, j \in 1..N : c[i].node = c[j].node => i = j
  BY <1>3 DEF ByIds
<1> HIDE DEF r, e, c, N
<1>7. ASSUME NEW i \in 1..(N + 1), NEW j \in 1..(N + 1), i < j PROVE r[i].id <= r[j].id
  <2>1. CASE j < p
    BY <1>1, <1>3, <1>6, <1>7, <2>1
  <2>2. CASE j = p
    <3>1. r[j] = e /\ r[i] = c[i] /\ i \in 1..N /\ i < p
      BY <1>1, <1>3, <1>7, <2>2
    <3>2. c[i].id <= id
      BY <1>1, <1>3, <3>1
    <3> QED  BY <1>5, <3>1, <3>2
  <2>3. CASE p < j
    <3>1. r[j] = c[j - 1] /\ j - 1 \in 1..N
      BY <1>1, <1>3, <2>3
    <3>2. id < c[j - 1].id
      BY <1>1, <1>3, <2>3, <3>1
    <3>3. CASE i < p
      <4>1. r[i] = c[i] /\ i \in 1..N
        BY <1>1, <1>3, <3>3
      <4>2. c[i].id <= id
        BY <1>1, <1>3, <3>3, <4>1
      <4> QED  BY <1>3, <1>4, <3>1, <3>2, <4>1, <4>2
    <3>4. CASE i = p
      BY <1>1, <1>3, <1>4, <1>5, <3>1, <3>2, <3>4
    <3>5. CASE p < i
      <4>1. r[i] = c[i - 1] /\ i - 1 \in 1..N /\ i - 1 < j - 1
        BY <1>1, <1>3, <1>7, <3>5
      <4> QED  BY <1>6, <3>1, <4>1
    <3> QED  BY <1>3, <3>3, <3>4, <3>5
  <2> QED  BY <1>1, <1>3, <2>1, <2>2, <2>3
<1>8. ASSUME NEW i \in 1..(N + 1), NEW j \in 1..(N + 1), i < j PROVE r[i].node # r[j].node
  <2>1. CASE i < p
    <3>1. r[i] = c[i] /\ i \in 1..N
      BY <1>1, <1>3, <2>1
    <3>2. CASE j < p
      BY <1>1, <1>3, <1>6, <1>8, <3>1, <3>2
    <3>3. CASE j = p
      BY <1>1, <1>3, <1>4, <1>5, <3>1, <3>3
    <3>4. CASE p < j
      <4>1. r[j] = c[j - 1] /\ j - 1 \in 1..N /\ i # j - 1
        BY <1>1, <1>3, <2>1, <3>4
      <4> QED  BY <1>6, <3>1, <4>1
    <3> QED  BY <1>3, <3>2, <3>3, <3>4
  <2>2. CASE p <= i
    <3>1. r[j] = c[j - 1] /\ j - 1 \in 1..N
      BY <1>1, <1>3, <1>8, <2>2
    <3>2. CASE i = p
      BY <1>1, <1>3, <1>4, <1>5, <3>1, <3>2
    <3>3. CASE p < i
      <4>1. r[i] = c[i - 1] /\ i - 1 \in 1..N /\ i - 1 # j - 1
        BY <1>1, <1>3, <1>8, <3>3
      <4> QED  BY <1>6, <3>1, <4>1
    <3> QED  BY <1>1, <1>3, <2>2, <3>2, <3>3
  <2> QED  BY <1>1, <1>3, <2>1, <2>2
<1>9. ASSUME NEW i \in 1..(N + 1) PROVE r[i].node < n + 1
  <2>1. CASE i < p
    BY <1>1, <1>3, <1>4, <2>1
  <2>2. CASE i = p
    BY <1>1, <1>3, <1>5, <2>2
  <2>3. CASE p < i
    <3>1. r[i] = c[i - 1] /\ i - 1 \in 1..N
      BY <1>1, <1>3, <2>3
    <3> QED  BY <1>3, <1>4, <3>1
  <2> QED  BY <1>1, <1>3, <2>1, <2>2, <2>3
<1>10. DOMAIN r = 1..(N + 1)
  BY <1>1, <1>2
<1>11. \A i, j \in 1..(N + 1) : r[i].node = r[j].node => i = j
  <2> SUFFICES ASSUME NEW i \in 1..(N + 1), NEW j \in 1..(N + 1), i # j
               PROVE r[i].node # r[j].node
    OBVIOUS
  <2>1. i < j \/ j < i
    OBVIOUS
  <2> QED  BY <1>8, <2>1
<1>12. ByIds(r, n + 1)
  BY <1>7, <1>9, <1>10, <1>11 DEF ByIds
<1> QED  BY <1>12 DEF r

\* A new query is in front of those that were there.
LEMMA InFrontIs ==
    ASSUME NEW c \in Seq(Queries), NEW n \in Nodes, LatestFirst(c, n), NEW s \in Selections
    PROVE  LET q == [node |-> n, selects |-> s]
               r == <<q>> \o c
           IN /\ r \in Seq(Queries)
              /\ LatestFirst(r, n + 1)
              /\ DOMAIN r = 1..(Len(c) + 1)
              /\ \A j \in DOMAIN c : r[j + 1] = c[j]
<1> DEFINE q == [node |-> n, selects |-> s]
           one == <<q>>
           r == one \o c
           N == Len(c)
<1>1. q \in Queries /\ q.node = n
  BY DEF Queries
<1> HIDE DEF q
<1>2. one \in Seq(Queries) /\ Len(one) = 1 /\ one[1] = q
  BY <1>1
<1>3. /\ N \in Nat /\ DOMAIN c = 1..N /\ n \in Nat
      /\ \A j \in 1..N : c[j].node \in Nat
  <2>1. \A j \in 1..N : c[j] \in Queries
    BY ElementOfSeq
  <2> QED  BY <2>1, LenProperties DEF Queries, Nodes
<1> HIDE DEF one
<1>4. /\ r \in Seq(Queries) /\ Len(r) = Len(one) + Len(c)
      /\ \A i \in 1..(Len(one) + Len(c)) : r[i] = IF i <= Len(one) THEN one[i] ELSE c[i - Len(one)]
  BY <1>2, ConcatProperties
<1> HIDE DEF r, N
<1>5. DOMAIN r = 1..(N + 1)
  BY <1>2, <1>3, <1>4, LenProperties DEF N
<1>6. r[1] = q /\ \A j \in 1..N : r[j + 1] = c[j]
  <2>1. r[1] = q
    BY <1>2, <1>3, <1>4 DEF N
  <2>2. ASSUME NEW j \in 1..N PROVE r[j + 1] = c[j]
    BY <1>2, <1>3, <1>4 DEF N
  <2> QED  BY <2>1, <2>2
<1>7. \A i \in 2..(N + 1) : i - 1 \in 1..N /\ r[i] = c[i - 1]
  BY <1>3, <1>6
<1>8. LatestFirst(r, n + 1)
  <2>1. ASSUME NEW i \in 1..(N + 1), NEW j \in 1..(N + 1), i < j PROVE r[j].node < r[i].node
    <3>1. j \in 2..(N + 1) /\ r[j] = c[j - 1] /\ j - 1 \in 1..N
      BY <1>3, <1>7, <2>1
    <3>2. CASE i = 1
      BY <1>1, <1>3, <1>6, <3>1, <3>2 DEF LatestFirst
    <3>3. CASE i # 1
      <4>1. r[i] = c[i - 1] /\ i - 1 \in 1..N /\ i - 1 < j - 1
        BY <1>3, <1>7, <2>1, <3>3
      <4> QED  BY <1>3, <3>1, <4>1 DEF LatestFirst
    <3> QED  BY <3>2, <3>3
  <2>2. ASSUME NEW i \in 1..(N + 1) PROVE r[i].node < n + 1
    <3>1. CASE i = 1
      BY <1>1, <1>3, <1>6, <3>1
    <3>2. CASE i # 1
      <4>1. c[i - 1].node < n /\ c[i - 1].node \in Nat /\ r[i] = c[i - 1]
        BY <1>3, <1>7, <3>2 DEF LatestFirst
      <4> QED  BY <1>3, <4>1
    <3> QED  BY <3>1, <3>2
  <2> QED  BY <2>1, <2>2, <1>5 DEF LatestFirst
<1> QED  BY <1>3, <1>4, <1>5, <1>6, <1>8 DEF r, one, q, N

\* What the loop comes to: the first that it calls before its end, or its end.
WalkFinds(n, f, c, i, stop) ==
    \/ /\ \A j \in i..(stop - 1) : ~ Fires(f, c[j])
       /\ n = f.stop
    \/ \E m \in i..(stop - 1) :
          /\ Fires(f, c[m])
          /\ n = c[m].node
          /\ \A j \in i..(stop - 1) : Fires(f, c[j]) => m <= j

LEMMA WalkIs ==
    ASSUME NEW f, NEW S, NEW c \in Seq(S), NEW i \in Nat \ {0},
           PositionOf(c, f.stop) \in 1..(Len(c) + 1)
    PROVE  WalkFinds(Walk(f, c, i), f, c, i, PositionOf(c, f.stop))
<1> DEFINE stop == PositionOf(c, f.stop)
           hits == {j \in i..(stop - 1) : Fires(f, c[j])}
<1>1. Len(c) \in Nat /\ DOMAIN c = 1..Len(c)
  BY LenProperties
<1>2. Walk(f, c, i) = IF hits = {} THEN f.stop ELSE Iterator(c, Least(hits))
  BY DEF Walk
<1>3. stop \in 1..(Len(c) + 1)
  OBVIOUS
<1> HIDE DEF stop
<1>4. ASSUME hits = {} PROVE WalkFinds(Walk(f, c, i), f, c, i, stop)
  BY <1>2, <1>4 DEF WalkFinds
<1>5. ASSUME hits # {} PROVE WalkFinds(Walk(f, c, i), f, c, i, stop)
  <2>1. hits \subseteq Nat
    OBVIOUS
  <2> DEFINE m == Least(hits)
  <2> HIDE DEF hits
  <2>2. m \in hits /\ \A y \in hits : m <= y
    BY <1>5, <2>1, LeastIs
  <2> HIDE DEF m
  <2>3. m \in i..(stop - 1) /\ Fires(f, c[m]) /\ \A j \in i..(stop - 1) : Fires(f, c[j]) => m <= j
    BY <2>2 DEF hits
  <2>4. m \in DOMAIN c
    BY <1>1, <1>3, <2>3
  <2>5. Walk(f, c, i) = c[m].node
    BY <1>2, <1>5, <2>4 DEF Iterator, m
  <2> QED  BY <2>3, <2>5 DEF WalkFinds
<1> QED  BY <1>4, <1>5 DEF stop

LEMMA FieldsAreTyped ==
    /\ Nodes \subseteq Nat /\ End \notin Nodes /\ End \in Nat
    /\ Ids \subseteq Nat /\ NoID \notin Ids
    /\ \A x \in Entries : x.node \in Nodes /\ x.id \in Ids
    /\ \A x \in Queries : x.node \in Nodes
    /\ \A f \in Frames :
          /\ f.at \in Nodes \union {End}
          /\ f.stop \in Nodes \union {End}
          /\ f.due \subseteq Nodes
          /\ f.called \in Seq(Nodes)
          /\ f.since \in Nat
          /\ f.elem \in Elements
          /\ f.run \in {"iq", "signal", "in", "out"}
    /\ \A e \in Elements : IF e.name = "iq" THEN e.id \in Ids ELSE e.id = NoID /\ e.asks = FALSE
<1>1. Nodes \subseteq Nat /\ End \notin Nodes /\ End \in Nat
  BY DispatchAssumption DEF Nodes, End
<1>2. Ids \subseteq Nat /\ NoID \notin Ids
  BY DispatchAssumption
<1>3. \A x \in Entries : x.node \in Nodes /\ x.id \in Ids
  BY DEF Entries
<1>4. \A x \in Queries : x.node \in Nodes
  BY DEF Queries
<1>5. ASSUME NEW f \in Frames
      PROVE  /\ f.at \in Nodes \union {End}
             /\ f.stop \in Nodes \union {End}
             /\ f.due \subseteq Nodes
             /\ f.called \in Seq(Nodes)
             /\ f.since \in Nat
             /\ f.elem \in Elements
             /\ f.run \in {"iq", "signal", "in", "out"}
  BY DEF Frames
<1>6. \A e \in Elements : IF e.name = "iq" THEN e.id \in Ids ELSE e.id = NoID /\ e.asks = FALSE
  BY DEF Elements, Names
<1> QED  BY <1>1, <1>2, <1>3, <1>4, <1>5, <1>6

\* Where the iterators of a container are.
LEMMA IteratorIs ==
    ASSUME NEW S, NEW c \in Seq(S), \A j \in DOMAIN c : c[j].node \in Nodes,
           \A j, k \in DOMAIN c : c[j].node = c[k].node => j = k,
           NEW i \in 1..(Len(c) + 1)
    PROVE  /\ PositionOf(c, Iterator(c, i)) = i
           /\ Iterator(c, i) \in Nodes \union {End}
           /\ Live(c, Iterator(c, i))
           /\ \A j \in DOMAIN c : c[j].node = Iterator(c, i) => j = i
<1>1. Len(c) \in Nat /\ DOMAIN c = 1..Len(c)
  BY LenProperties
<1>2. CASE i \in DOMAIN c
  <2>1. Iterator(c, i) = c[i].node /\ c[i].node # End
    BY <1>2, FieldsAreTyped DEF Iterator
  <2>2. PositionOf(c, c[i].node) = i
    BY <1>2, <2>1, PositionIs
  <2> QED  BY <1>2, <2>1, <2>2 DEF Live, NodesOf
<1>3. CASE i \notin DOMAIN c
  <2>1. Iterator(c, i) = End /\ i = Len(c) + 1
    BY <1>1, <1>3 DEF Iterator
  <2> QED  BY <2>1, FieldsAreTyped DEF PositionOf, Live
<1> QED  BY <1>2, <1>3

\* A live iterator is somewhere.
LEMMA LiveIsSomewhere ==
    ASSUME NEW S, NEW c \in Seq(S), \A j \in DOMAIN c : c[j].node \in Nodes,
           \A j, k \in DOMAIN c : c[j].node = c[k].node => j = k,
           NEW n, Live(c, n)
    PROVE  \E i \in 1..(Len(c) + 1) : n = Iterator(c, i) /\ PositionOf(c, n) = i
<1>1. Len(c) \in Nat /\ DOMAIN c = 1..Len(c)
  BY LenProperties
<1>2. CASE n = End
  <2>1. Iterator(c, Len(c) + 1) = n /\ Len(c) + 1 \in 1..(Len(c) + 1)
    BY <1>1, <1>2 DEF Iterator
  <2> QED  BY <2>1, IteratorIs
<1>3. CASE n # End
  <2>1. PICK i \in DOMAIN c : c[i].node = n
    BY <1>3 DEF Live, NodesOf
  <2>2. Iterator(c, i) = n /\ i \in 1..(Len(c) + 1)
    BY <1>1, <2>1 DEF Iterator
  <2> QED  BY <2>2, IteratorIs
<1> QED  BY <1>2, <1>3

LEMMA LatestFirstIsUnique ==
    ASSUME NEW c \in Seq(Queries), NEW next, LatestFirst(c, next)
    PROVE  /\ \A j \in DOMAIN c : c[j].node \in Nodes
           /\ \A j, k \in DOMAIN c : c[j].node = c[k].node => j = k
           /\ \A j, k \in DOMAIN c : j <= k => c[k].node <= c[j].node
           /\ \A j, k \in DOMAIN c : c[k].node < c[j].node => j < k
<1>1. DOMAIN c \subseteq Nat
  BY LenProperties
<1>2. \A j \in DOMAIN c : c[j].node \in Nodes
  BY ElementOfSeq, LenProperties, FieldsAreTyped
<1>3. ASSUME NEW j \in DOMAIN c, NEW k \in DOMAIN c
      PROVE  /\ c[j].node = c[k].node => j = k
             /\ j <= k => c[k].node <= c[j].node
             /\ c[k].node < c[j].node => j < k
  <2>1. c[j].node \in Nat /\ c[k].node \in Nat
    BY <1>2, FieldsAreTyped
  <2>2. j < k \/ j = k \/ k < j
    BY <1>1
  <2>3. (j < k => c[k].node < c[j].node) /\ (k < j => c[j].node < c[k].node)
    BY DEF LatestFirst
  <2> QED  BY <1>1, <2>1, <2>2, <2>3
<1> QED  BY <1>2, <1>3

LEMMA EntriesAreTyped ==
    ASSUME NEW c \in Seq(Entries)
    PROVE  /\ DOMAIN c = 1..Len(c) /\ Len(c) \in Nat
           /\ \A j \in DOMAIN c : c[j].node \in Nodes /\ c[j].id \in Ids
                                  /\ c[j].node \in Nat /\ c[j].id \in Nat
<1>1. DOMAIN c = 1..Len(c) /\ Len(c) \in Nat /\ \A j \in DOMAIN c : c[j] \in Entries
  BY LenProperties, ElementOfSeq
<1> QED  BY <1>1, FieldsAreTyped

-----------------------------------------------------------------------------
(* Lemmas about loops over queries. *)

LEMMA QueryStarted ==
    ASSUME NEW run \in {"in", "out"}, NEW elem \in Elements, NEW c \in Seq(Queries),
           nextNode \in Nat \ {0}, LatestFirst(c, nextNode)
    PROVE  LET f == Started(run, elem, c)
           IN /\ f \in Frames /\ f.run = run /\ f.elem = elem /\ f.since = nextNode
              /\ QueryLoop(f, c)
<1> DEFINE due == {c[i].node : i \in {j \in DOMAIN c : Fires([run |-> run, elem |-> elem], c[j])}}
           g == [run |-> run, elem |-> elem, at |-> End, stop |-> End,
                 due |-> due, called |-> <<>>, since |-> nextNode]
           at == Walk(g, c, 1)
           f == [g EXCEPT !.at = at]
<1>1. Started(run, elem, c) = f
  BY DEF Started
<1>2. /\ \A j \in DOMAIN c : c[j].node \in Nodes
      /\ \A j, k \in DOMAIN c : j <= k => c[k].node <= c[j].node
      /\ \A j \in DOMAIN c : c[j].node < nextNode
      /\ DOMAIN c = 1..Len(c) /\ Len(c) \in Nat
  BY LatestFirstIsUnique, LenProperties DEF LatestFirst
<1>3. due \subseteq Nodes
  BY <1>2
<1>4. g.run = run /\ g.elem = elem /\ g.stop = End
  OBVIOUS
<1>5. \A e : Fires(g, e) <=> elem.name \in e.selects
  BY DEF Fires
<1>6. \A d \in due : \E j \in DOMAIN c : c[j].node = d /\ elem.name \in c[j].selects
  BY DEF Fires
<1>7. PositionOf(c, g.stop) = Len(c) + 1
  BY DEF PositionOf
<1>8. WalkFinds(at, g, c, 1, Len(c) + 1)
  <2> HIDE DEF g
  <2>1. PositionOf(c, g.stop) \in 1..(Len(c) + 1) /\ 1 \in Nat \ {0}
    BY <1>2, <1>7
  <2>2. WalkFinds(at, g, c, 1, PositionOf(c, g.stop))
    BY <2>1, WalkIs
  <2> QED  BY <1>7, <2>2
<1>9. /\ f.run = run /\ f.elem = elem /\ f.stop = End /\ f.at = at
      /\ f.due = due /\ f.called = <<>> /\ f.since = nextNode
  OBVIOUS
<1> HIDE DEF due, at
<1>10. at \in Nodes \union {End} /\ f.at < f.since /\ Live(c, at)
       /\ \A d \in due : d <= at /\ \E j \in DOMAIN c : c[j].node = d /\ elem.name \in c[j].selects
  <2>1. CASE /\ \A j \in 1..(Len(c) + 1 - 1) : ~ Fires(g, c[j])
             /\ at = g.stop
    <3>1. at = End /\ due = {}
      BY <1>2, <1>4, <1>5, <1>6, <2>1
    <3>2. End < nextNode
      BY DEF End
    <3> QED  BY <1>9, <3>1, <3>2 DEF Live
  <2>2. CASE \E m \in 1..(Len(c) + 1 - 1) :
                /\ Fires(g, c[m])
                /\ at = c[m].node
                /\ \A j \in 1..(Len(c) + 1 - 1) : Fires(g, c[j]) => m <= j
    <3>1. PICK m \in DOMAIN c : at = c[m].node /\ \A j \in DOMAIN c : Fires(g, c[j]) => m <= j
      BY <1>2, <2>2
    <3>2. ASSUME NEW d \in due
          PROVE  d <= at /\ \E j \in DOMAIN c : c[j].node = d /\ elem.name \in c[j].selects
      BY <1>2, <1>5, <1>6, <3>1
    <3> QED  BY <1>2, <1>9, <3>1, <3>2 DEF Live, NodesOf
  <2> QED  BY <1>8, <2>1, <2>2 DEF WalkFinds
<1>11. f \in Frames
  <2>1. <<>> \in Seq(Nodes) /\ End \in Nodes \union {End}
    BY EmptySeq
  <2> QED  BY <1>3, <1>10, <2>1 DEF Frames
<1>12. QueryLoop(f, c)
  <2>1. DOMAIN f.called = {}
    BY <1>9
  <2>2. \A e : Fires(f, e) <=> elem.name \in e.selects
    BY <1>9 DEF Fires
  <2> HIDE DEF f
  <2> QED  BY <1>9, <1>10, <2>1, <2>2 DEF QueryLoop
<1> QED  BY <1>1, <1>9, <1>11, <1>12

\* What is due shrinks: what a loop still has to call is there as before.
LEMMA QueryExcused ==
    ASSUME NEW f \in Frames, f.run \in {"in", "out"}, NEW c \in Seq(Queries), NEW gone,
           QueryLoop(f, c)
    PROVE  LET g == [f EXCEPT !.due = @ \ gone]
           IN /\ QueryLoop(g, c)
              /\ f.at \notin gone => QueryLoop(g, Erased(c, gone))
<1> DEFINE g == [f EXCEPT !.due = @ \ gone]
<1>1. /\ g.run = f.run /\ g.elem = f.elem /\ g.at = f.at /\ g.stop = f.stop
      /\ g.called = f.called /\ g.since = f.since /\ g.due = f.due \ gone
  BY DEF Frames
<1> HIDE DEF g
<1>2. \A e : Fires(g, e) <=> Fires(f, e)
  BY <1>1 DEF Fires
<1>3. QueryLoop(g, c)
  BY <1>1, <1>2 DEF QueryLoop
<1>4. ASSUME f.at \notin gone PROVE QueryLoop(g, Erased(c, gone))
  <2> DEFINE r == Erased(c, gone)
  <2>1. PICK h : WhatIsLeft(r, c, gone, h)
    BY ErasedIs
  <2>2. Live(r, g.at)
    <3>1. NodesOf(r) = NodesOf(c) \ gone
      BY ErasedNodes
    <3> QED  BY <1>1, <1>4, <3>1 DEF Live, QueryLoop
  <2> HIDE DEF r
  <2>3. ASSUME NEW d \in g.due
        PROVE  d <= g.at /\ \E j \in DOMAIN r : r[j].node = d /\ Fires(g, r[j])
    <3>1. PICK i \in DOMAIN c : c[i].node = d /\ Fires(f, c[i])
      BY <1>1 DEF QueryLoop
    <3>2. PICK j \in DOMAIN r : h[j] = i
      BY <1>1, <2>1, <3>1 DEF WhatIsLeft
    <3>3. r[j] = c[i]
      BY <2>1, <3>2 DEF WhatIsLeft
    <3>4. d <= g.at
      BY <1>1 DEF QueryLoop
    <3> QED  BY <1>2, <3>1, <3>3, <3>4
  <2> QED  BY <1>1, <2>2, <2>3 DEF QueryLoop, r
<1> QED  BY <1>3, <1>4 DEF g

\* A query in front of the others is not in the loop's way.
LEMMA QueryInFront ==
    ASSUME NEW f, NEW c, NEW r, QueryLoop(f, c),
           \A j \in DOMAIN c : j + 1 \in DOMAIN r /\ r[j + 1] = c[j]
    PROVE  QueryLoop(f, r)
<1>1. \A n \in NodesOf(c) : n \in NodesOf(r)
  BY DEF NodesOf
<1>2. \A d : (\E j \in DOMAIN c : c[j].node = d /\ Fires(f, c[j]))
                => \E j \in DOMAIN r : r[j].node = d /\ Fires(f, r[j])
  OBVIOUS
<1> QED  BY <1>1, <1>2 DEF QueryLoop, Live

\* What is called is called once, and what comes next is older.
LEMMA QueryCalled ==
    ASSUME NEW f \in Frames, f.run \in {"in", "out"}, NEW c \in Seq(Queries),
           NEW next, LatestFirst(c, next), QueryLoop(f, c), f.at # f.stop
    PROVE  LET g == [f EXCEPT !.due = @ \ {f.at}, !.called = Append(@, f.at)]
               r == [g EXCEPT !.at = Walk(g, c, PositionOf(c, f.at) + 1)]
           IN /\ r \in Frames /\ r.run = f.run /\ r.elem = f.elem /\ r.since = f.since
              /\ QueryLoop(r, c)
<1> DEFINE g == [f EXCEPT !.due = @ \ {f.at}, !.called = Append(@, f.at)]
           p == PositionOf(c, f.at)
           at == Walk(g, c, p + 1)
           r == [g EXCEPT !.at = at]
           called == Append(f.called, f.at)
<1>1. /\ \A j \in DOMAIN c : c[j].node \in Nodes
      /\ \A j, k \in DOMAIN c : c[j].node = c[k].node => j = k
      /\ \A j, k \in DOMAIN c : c[k].node < c[j].node => j < k
      /\ \A j, k \in DOMAIN c : j <= k => c[k].node <= c[j].node
      /\ \A j, k \in DOMAIN c : j < k => c[k].node < c[j].node
      /\ DOMAIN c = 1..Len(c) /\ Len(c) \in Nat
  <2>1. DOMAIN c = 1..Len(c) /\ Len(c) \in Nat
    BY LenProperties
  <2>2. \A j, k \in DOMAIN c : j < k => c[k].node < c[j].node
    BY DEF LatestFirst
  <2> QED  BY <2>1, <2>2, LatestFirstIsUnique
<1>2. /\ f.at \in Nodes /\ f.stop = End /\ f.since \in Nat
      /\ f.called \in Seq(Nodes) /\ f.due \subseteq Nodes
      /\ \A d \in f.due : d <= f.at
  BY FieldsAreTyped DEF QueryLoop
<1>3. p \in DOMAIN c /\ c[p].node = f.at
  <2>1. PICK i \in DOMAIN c : c[i].node = f.at
    BY <1>2, FieldsAreTyped DEF QueryLoop, Live, NodesOf
  <2>2. p = i
    BY <1>1, <1>2, <2>1, PositionIs, FieldsAreTyped
  <2> QED  BY <2>1, <2>2
<1>4. /\ g.run = f.run /\ g.elem = f.elem /\ g.at = f.at /\ g.stop = f.stop
      /\ g.since = f.since /\ g.due = f.due \ {f.at} /\ g.called = called
      /\ g \in [run : {"iq", "signal", "in", "out"}, elem : Elements,
                at : Nodes \union {End}, stop : Nodes \union {End},
                due : SUBSET Nodes, called : {called}, since : Nat]
  BY DEF Frames
<1>5. PositionOf(c, g.stop) = Len(c) + 1
  BY <1>2, <1>4 DEF PositionOf
<1> HIDE DEF g, p, called
<1>6. /\ r.run = f.run /\ r.elem = f.elem /\ r.at = at /\ r.stop = f.stop
      /\ r.since = f.since /\ r.due = f.due \ {f.at} /\ r.called = called
      /\ r \in [run : {"iq", "signal", "in", "out"}, elem : Elements,
                at : {at}, stop : Nodes \union {End},
                due : SUBSET Nodes, called : {called}, since : Nat]
  BY <1>4
<1> HIDE DEF at, r
<1>7. \A e : (Fires(g, e) <=> Fires(f, e)) /\ (Fires(r, e) <=> Fires(f, e))
  BY <1>4, <1>6 DEF Fires
<1>8. WalkFinds(at, g, c, p + 1, Len(c) + 1)
  <2>1. PositionOf(c, g.stop) \in 1..(Len(c) + 1) /\ p + 1 \in Nat \ {0}
    BY <1>1, <1>3, <1>5
  <2>2. WalkFinds(Walk(g, c, p + 1), g, c, p + 1, PositionOf(c, g.stop))
    BY <2>1, WalkIs
  <2> QED  BY <1>5, <2>2 DEF at
<1>9. \A d \in r.due : /\ d < f.at
                       /\ \E j \in (p + 1)..Len(c) : c[j].node = d /\ Fires(r, c[j])
  <2> SUFFICES ASSUME NEW d \in r.due
               PROVE  /\ d < f.at
                      /\ \E j \in (p + 1)..Len(c) : c[j].node = d /\ Fires(r, c[j])
    OBVIOUS
  <2>1. d \in f.due /\ d # f.at
    BY <1>6
  <2>2. d < f.at
    <3>1. d \in Nodes /\ f.at \in Nodes /\ d <= f.at
      BY <1>2, <2>1
    <3>2. d \in Nat /\ f.at \in Nat
      BY <3>1, FieldsAreTyped
    <3> QED  BY <2>1, <3>1, <3>2
  <2>3. PICK j \in DOMAIN c : c[j].node = d /\ Fires(f, c[j])
    BY <2>1 DEF QueryLoop
  <2>4. p < j
    BY <1>1, <1>3, <2>2, <2>3
  <2>5. j \in (p + 1)..Len(c)
    BY <1>1, <1>3, <2>4
  <2> QED  BY <1>7, <2>2, <2>3, <2>5
<1>10. /\ at \in Nodes \union {End} /\ at < f.at /\ Live(c, at)
       /\ \A d \in r.due : d <= at
  <2>1. CASE /\ \A j \in (p + 1)..(Len(c) + 1 - 1) : ~ Fires(g, c[j])
             /\ at = g.stop
    <3>1. at = End /\ r.due = {}
      BY <1>1, <1>2, <1>4, <1>7, <1>9, <2>1
    <3>2. End < f.at
      BY <1>2, DispatchAssumption DEF End, Nodes
    <3> QED  BY <3>1, <3>2 DEF Live
  <2>2. CASE \E m \in (p + 1)..(Len(c) + 1 - 1) :
                /\ Fires(g, c[m])
                /\ at = c[m].node
                /\ \A j \in (p + 1)..(Len(c) + 1 - 1) : Fires(g, c[j]) => m <= j
    <3>1. PICK m \in (p + 1)..Len(c) :
                /\ at = c[m].node
                /\ \A j \in (p + 1)..Len(c) : Fires(g, c[j]) => m <= j
      BY <1>1, <2>2
    <3>2. m \in DOMAIN c /\ p < m /\ (p + 1)..Len(c) \subseteq DOMAIN c
      BY <1>1, <1>3, <3>1
    <3>3. \A d \in r.due : d <= at
      BY <1>1, <1>7, <1>9, <3>1, <3>2
    <3>4. at < f.at
      BY <1>1, <1>3, <3>1, <3>2
    <3> QED  BY <1>1, <3>1, <3>2, <3>3, <3>4 DEF Live, NodesOf
  <2> QED  BY <1>8, <2>1, <2>2 DEF WalkFinds
<1>11. /\ called \in Seq(Nodes) /\ Len(called) = Len(f.called) + 1
       /\ DOMAIN called = 1..(Len(f.called) + 1) /\ DOMAIN f.called = 1..Len(f.called)
       /\ Len(f.called) \in Nat
       /\ called[Len(f.called) + 1] = f.at
       /\ \A k \in 1..Len(f.called) : called[k] = f.called[k] /\ f.called[k] \in Nodes
  <2>1. f.called \in Seq(Nodes) /\ f.at \in Nodes
    BY <1>2
  <2>2. DOMAIN f.called = 1..Len(f.called) /\ Len(f.called) \in Nat
        /\ \A k \in 1..Len(f.called) : f.called[k] \in Nodes
    BY <2>1, LenProperties, ElementOfSeq
  <2> DEFINE s == f.called
  <2> HIDE DEF s
  <2>3. /\ Append(s, f.at) \in Seq(Nodes) /\ Len(Append(s, f.at)) = Len(s) + 1
        /\ \A k \in 1..Len(s) : Append(s, f.at)[k] = s[k]
        /\ Append(s, f.at)[Len(s) + 1] = f.at
    BY <2>1, AppendProperties DEF s
  <2>4. DOMAIN Append(s, f.at) = 1..(Len(s) + 1)
    BY <2>3, LenProperties
  <2> QED  BY <2>2, <2>3, <2>4 DEF s, called
<1>12. r \in Frames
  BY <1>6, <1>10, <1>11 DEF Frames
<1>13. \A k \in DOMAIN called : at < called[k] /\ called[k] < f.since
  <2> SUFFICES ASSUME NEW k \in DOMAIN called PROVE at < called[k] /\ called[k] < f.since
    OBVIOUS
  <2>1. at \in Nat /\ f.at \in Nat /\ f.at < f.since
    BY <1>2, <1>10, FieldsAreTyped DEF QueryLoop
  <2>2. CASE k = Len(f.called) + 1
    BY <1>10, <1>11, <2>1, <2>2
  <2>3. CASE k # Len(f.called) + 1
    <3>1. k \in 1..Len(f.called)
      BY <1>11, <2>3
    <3>3. k \in DOMAIN f.called /\ called[k] = f.called[k] /\ called[k] \in Nodes
      BY <1>11, <3>1
    <3>4. called[k] \in Nat
      BY <3>3, FieldsAreTyped
    <3>2. f.at < called[k] /\ called[k] < f.since
      BY <3>3 DEF QueryLoop
    <3> QED  BY <1>10, <2>1, <3>2, <3>4
  <2> QED  BY <2>2, <2>3
<1>14. \A k, l \in DOMAIN called : k < l => called[l] < called[k]
  <2> SUFFICES ASSUME NEW k \in DOMAIN called, NEW l \in DOMAIN called, k < l
               PROVE called[l] < called[k]
    OBVIOUS
  <2>1. k \in DOMAIN f.called /\ called[k] = f.called[k]
    BY <1>11
  <2>2. CASE l = Len(f.called) + 1
    BY <1>11, <2>1, <2>2 DEF QueryLoop
  <2>3. CASE l # Len(f.called) + 1
    <3>1. l \in DOMAIN f.called /\ called[l] = f.called[l]
      BY <1>11, <2>3
    <3> QED  BY <2>1, <3>1 DEF QueryLoop
  <2> QED  BY <2>2, <2>3
<1>15. \A d \in r.due : d <= at /\ \E j \in DOMAIN c : c[j].node = d /\ Fires(r, c[j])
  <2>1. (p + 1)..Len(c) \subseteq DOMAIN c
    BY <1>1, <1>3
  <2> QED  BY <1>9, <1>10, <2>1
<1>16. at < f.since
  <2>1. at \in Nat /\ f.at \in Nat /\ f.at < f.since
    BY <1>2, <1>10, FieldsAreTyped DEF QueryLoop
  <2> QED  BY <1>2, <1>10, <2>1
<1>17. QueryLoop(r, c)
  BY <1>2, <1>6, <1>10, <1>13, <1>14, <1>15, <1>16 DEF QueryLoop
<1> QED  BY <1>6, <1>12, <1>17 DEF r, at, g, p

-----------------------------------------------------------------------------
(* Lemmas about the loop of handleIQ(). *)

LEMMA AnswerStarted ==
    ASSUME NEW elem \in Elements, elem.name = "iq", NEW c \in Seq(Entries),
           nextNode \in Nat \ {0}, ByIds(c, nextNode)
    PROVE  LET f == Started("iq", elem, c)
           IN /\ f \in Frames /\ f.run = "iq" /\ f.elem = elem /\ f.since = nextNode
              /\ AnswerLoop(f, c)
<1> DEFINE N == Len(c)
           D == {i \in DOMAIN c : c[i].id <= elem.id}
           s == 1 + Cardinality(D)
           stop == Iterator(c, s)
           due == {c[i].node : i \in {j \in DOMAIN c : Fires([run |-> "iq", elem |-> elem], c[j])}}
           g == [run |-> "iq", elem |-> elem, at |-> End, stop |-> stop,
                 due |-> due, called |-> <<>>, since |-> nextNode]
           at == Walk(g, c, 1)
           f == [g EXCEPT !.at = at]
<1>1. Started("iq", elem, c) = f
  BY DEF Started
<1>2. /\ DOMAIN c = 1..N /\ N \in Nat /\ elem.id \in Nat
      /\ \A j \in DOMAIN c : /\ c[j].node \in Nodes /\ c[j].id \in Nat
                             /\ c[j].node < nextNode
      /\ \A j, k \in DOMAIN c : c[j].node = c[k].node => j = k
  <2>1. DOMAIN c = 1..N /\ N \in Nat /\ \A j \in DOMAIN c : c[j].node \in Nodes /\ c[j].id \in Nat
    BY EntriesAreTyped
  <2>2. elem.id \in Nat
    BY FieldsAreTyped
  <2> QED  BY <2>1, <2>2 DEF ByIds
<1>3. D = 1..(s - 1) /\ s \in 1..(N + 1)
  <2>1. D \subseteq 1..N
    BY <1>2
  <2>2. \A k \in D : \A j \in 1..N : j < k => j \in D
    <3> SUFFICES ASSUME NEW k \in D, NEW j \in 1..N, j < k PROVE j \in D
      OBVIOUS
    <3>1. c[j].id <= c[k].id /\ c[k].id <= elem.id /\ k \in DOMAIN c
      BY <1>2 DEF ByIds
    <3> QED  BY <3>1, <1>2
  <2> HIDE DEF D
  <2>3. D = 1..Cardinality(D) /\ Cardinality(D) \in 0..N
    BY <1>2, <2>1, <2>2, InitialPart
  <2> QED  BY <1>2, <2>3
<1>4. \A j \in DOMAIN c : c[j].id = elem.id => j < s
  <2> SUFFICES ASSUME NEW j \in DOMAIN c, c[j].id = elem.id PROVE j < s
    OBVIOUS
  <2>1. j \in D
    BY <1>2
  <2>2. s \in Nat /\ D = 1..(s - 1)
    BY <1>2, <1>3
  <2> HIDE DEF s, D
  <2> QED  BY <2>1, <2>2
<1> HIDE DEF s
<1>5. /\ stop \in Nodes \union {End} /\ Live(c, stop) /\ PositionOf(c, stop) = s
      /\ \A j \in DOMAIN c : c[j].node = stop => j = s
  <2>1. N = Len(c)
    OBVIOUS
  <2> QED  BY <1>2, <1>3, <2>1, IteratorIs
<1> HIDE DEF stop
<1>6. \A e : Fires(g, e) <=> e.id = elem.id
  BY DEF Fires
<1>7. due \subseteq Nodes /\ \A d \in due : \E j \in DOMAIN c : c[j].node = d /\ c[j].id = elem.id
  BY <1>2 DEF Fires
<1> HIDE DEF due
<1>8. WalkFinds(at, g, c, 1, s)
  <2>1. g.stop = stop
    OBVIOUS
  <2> HIDE DEF g
  <2>2. PositionOf(c, g.stop) \in 1..(Len(c) + 1) /\ 1 \in Nat \ {0}
    BY <1>3, <1>5, <2>1
  <2>3. WalkFinds(at, g, c, 1, PositionOf(c, g.stop))
    BY <2>2, WalkIs
  <2> QED  BY <1>5, <2>1, <2>3
<1> HIDE DEF at
<1>9. /\ f.run = "iq" /\ f.elem = elem /\ f.stop = stop /\ f.at = at
      /\ f.due = due /\ f.called = <<>> /\ f.since = nextNode
  OBVIOUS
<1>10. \/ at = stop /\ \A j \in DOMAIN c : c[j].id # elem.id
       \/ \E m \in DOMAIN c : /\ c[m].id = elem.id /\ at = c[m].node
                              /\ m < s
                              /\ \A j \in DOMAIN c : c[j].id = elem.id => m <= j
  <2>1. \A j \in DOMAIN c : c[j].id = elem.id => j \in 1..(s - 1)
    BY <1>2, <1>3, <1>4
  <2>2. CASE /\ \A j \in 1..(s - 1) : ~ Fires(g, c[j])
             /\ at = g.stop
    BY <1>6, <2>1, <2>2
  <2>3. CASE \E m \in 1..(s - 1) :
                /\ Fires(g, c[m])
                /\ at = c[m].node
                /\ \A j \in 1..(s - 1) : Fires(g, c[j]) => m <= j
    <3>1. PICK m \in 1..(s - 1) :
                /\ Fires(g, c[m])
                /\ at = c[m].node
                /\ \A j \in 1..(s - 1) : Fires(g, c[j]) => m <= j
      BY <2>3
    <3>2. m \in DOMAIN c /\ m < s
      BY <1>2, <1>3, <3>1
    <3> QED  BY <1>6, <2>1, <3>1, <3>2
  <2> QED  BY <1>8, <2>2, <2>3 DEF WalkFinds
<1>11. at \in Nodes \union {End}
  BY <1>2, <1>5, <1>10
<1>12. f \in Frames
  <2>1. <<>> \in Seq(Nodes)
    BY EmptySeq
  <2> QED  BY <1>5, <1>7, <1>11, <2>1 DEF Frames
<1>13. AnswerLoop(f, c)
  <2>1. DOMAIN f.called = {}
    BY <1>9
  <2> HIDE DEF f
  <2>2. CASE at = stop /\ \A j \in DOMAIN c : c[j].id # elem.id
    BY <1>5, <1>7, <1>9, <2>1, <2>2 DEF AnswerLoop
  <2>3. CASE \E m \in DOMAIN c : /\ c[m].id = elem.id /\ at = c[m].node
                                 /\ m < s
                                 /\ \A j \in DOMAIN c : c[j].id = elem.id => m <= j
    <3>1. PICK m \in DOMAIN c : /\ c[m].id = elem.id /\ at = c[m].node
                                /\ m < s
                                /\ \A j \in DOMAIN c : c[j].id = elem.id => m <= j
      BY <2>3
    <3>2. at # stop
      <4> SUFFICES ASSUME at = stop PROVE FALSE
        OBVIOUS
      <4>1. m = s
        BY <1>5, <3>1
      <4> QED  BY <1>2, <3>1, <4>1
    <3>3. \A i \in DOMAIN c : c[i].node = at => i = m
      BY <1>2, <3>1
    <3>4. Live(c, at)
      BY <3>1 DEF Live, NodesOf
    <3> QED  BY <1>2, <1>4, <1>5, <1>7, <1>9, <2>1, <3>1, <3>2, <3>3, <3>4 DEF AnswerLoop
  <2> QED  BY <1>10, <2>2, <2>3
<1> QED  BY <1>1, <1>9, <1>12, <1>13

\* Unregistering others leaves the loop its iterators and its order.
LEMMA AnswerExcused ==
    ASSUME NEW f \in Frames, NEW c \in Seq(Entries), NEW next, ByIds(c, next), NEW gone,
           AnswerLoop(f, c)
    PROVE  LET g == [f EXCEPT !.due = @ \ gone]
           IN /\ AnswerLoop(g, c)
              /\ f.at \notin gone /\ f.stop \notin gone => AnswerLoop(g, Erased(c, gone))
<1> DEFINE g == [f EXCEPT !.due = @ \ gone]
<1>1. /\ g.run = f.run /\ g.elem = f.elem /\ g.at = f.at /\ g.stop = f.stop
      /\ g.called = f.called /\ g.since = f.since /\ g.due = f.due \ gone
  BY DEF Frames
<1> HIDE DEF g
<1>2. AnswerLoop(g, c)
  BY <1>1 DEF AnswerLoop
<1>3. ASSUME f.at \notin gone, f.stop \notin gone PROVE AnswerLoop(g, Erased(c, gone))
  <2> DEFINE r == Erased(c, gone)
  <2>1. PICK h : WhatIsLeft(r, c, gone, h)
    BY ErasedIs
  <2>2. NodesOf(r) = NodesOf(c) \ gone
    BY ErasedNodes
  <2>3. DOMAIN r \subseteq Nat /\ DOMAIN c \subseteq Nat
    <3>1. r \in Seq(Entries)
      BY ErasedIs
    <3> QED  BY <3>1, LenProperties
  <2> HIDE DEF r
  <2>4. Live(r, g.at) /\ Live(r, g.stop)
    BY <1>1, <1>3, <2>2 DEF Live, AnswerLoop
  <2>5. ASSUME NEW d, d \notin gone, \E i \in DOMAIN c : c[i].node = d /\ c[i].id = f.elem.id
        PROVE  \E j \in DOMAIN r : r[j].node = d /\ r[j].id = f.elem.id
    <3>1. PICK i \in DOMAIN c : c[i].node = d /\ c[i].id = f.elem.id
      BY <2>5
    <3>2. PICK j \in DOMAIN r : h[j] = i
      BY <2>1, <2>5, <3>1 DEF WhatIsLeft
    <3>3. r[j] = c[i]
      BY <2>1, <3>2 DEF WhatIsLeft
    <3> QED  BY <3>1, <3>3
  <2>6. \A i, j \in DOMAIN r : /\ h[i] \in DOMAIN c /\ r[i] = c[h[i]]
                               /\ h[i] <= h[j] => i <= j
                               /\ h[i] < h[j] => i < j
    <3> SUFFICES ASSUME NEW i \in DOMAIN r, NEW j \in DOMAIN r
                 PROVE  /\ h[i] \in DOMAIN c /\ r[i] = c[h[i]]
                        /\ h[i] <= h[j] => i <= j
                        /\ h[i] < h[j] => i < j
      OBVIOUS
    <3>1. h[i] \in DOMAIN c /\ h[j] \in DOMAIN c /\ r[i] = c[h[i]]
      BY <2>1 DEF WhatIsLeft
    <3>2. j < i => h[j] < h[i]
      BY <2>1 DEF WhatIsLeft
    <3> QED  BY <2>3, <3>1, <3>2
  <2>7. ASSUME NEW j \in DOMAIN r, r[j].id = f.elem.id
        PROVE  /\ r[j].node < f.since
               /\ f.at # f.stop
               /\ \A i \in DOMAIN r : r[i].node = f.at => i <= j
               /\ \A i \in DOMAIN r : r[i].node = f.stop => j < i
    <3>1. h[j] \in DOMAIN c /\ c[h[j]].id = f.elem.id /\ r[j] = c[h[j]]
      BY <2>6, <2>7
    <3>2. /\ c[h[j]].node < f.since
          /\ f.at # f.stop
          /\ \A i \in DOMAIN c : c[i].node = f.at => i <= h[j]
          /\ \A i \in DOMAIN c : c[i].node = f.stop => h[j] < i
      BY <3>1 DEF AnswerLoop
    <3> QED  BY <2>6, <3>1, <3>2
  <2>8. g.at # g.stop => \E j \in DOMAIN r : r[j].node = g.at /\ r[j].id = g.elem.id
    BY <1>1, <1>3, <2>5 DEF AnswerLoop
  <2>9. \A d \in g.due : \E j \in DOMAIN r : r[j].node = d /\ r[j].id = g.elem.id
    BY <1>1, <2>5 DEF AnswerLoop
  <2>10. /\ \A k \in DOMAIN g.called : g.called[k] < g.since /\ g.called[k] \notin NodesOf(r)
         /\ \A k, l \in DOMAIN g.called : g.called[k] = g.called[l] => k = l
    BY <1>1, <2>2 DEF AnswerLoop
  <2> QED  BY <1>1, <2>4, <2>7, <2>8, <2>9, <2>10 DEF AnswerLoop, r
<1> QED  BY <1>2, <1>3 DEF g

\* An iq that is registered meanwhile waits for another id.
LEMMA AnswerInserted ==
    ASSUME NEW f \in Frames, callbacks \in Seq(Entries), NEW n \in Nodes,
           ByIds(callbacks, n), NEW id \in Ids, id # f.elem.id, f.since <= n,
           AnswerLoop(f, callbacks)
    PROVE  AnswerLoop(f, Inserted(n, id))
<1> DEFINE c == callbacks
           N == Len(c)
           e == [node |-> n, id |-> id]
           r == Inserted(n, id)
<1>1. PICK p \in 1..(N + 1) :
          /\ Len(r) = N + 1
          /\ \A j \in 1..Len(r) :
                r[j] = IF j < p THEN c[j] ELSE IF j = p THEN e ELSE c[j - 1]
          /\ \A j \in DOMAIN c : IF j < p THEN c[j].id <= id ELSE id < c[j].id
  BY InsertedIs
<1>2. r \in Seq(Entries) /\ DOMAIN r = 1..Len(r)
  BY InsertedIs, LenProperties
<1>3. /\ N \in Nat /\ DOMAIN c = 1..N
      /\ \A j \in DOMAIN c : c[j].node \in Nat /\ c[j].node < n
  BY EntriesAreTyped DEF ByIds
<1>4. e.node = n /\ e.id = id
  OBVIOUS
<1>5. AnswerLoop(f, c)
  OBVIOUS
<1> HIDE DEF r, e, c, N
<1> DEFINE to(j) == IF j < p THEN j ELSE j + 1
<1>6. DOMAIN r = 1..(N + 1) /\ n \in Nat /\ f.since \in Nat
  BY <1>1, <1>2, FieldsAreTyped
<1>7. \A j \in DOMAIN c : to(j) \in DOMAIN r /\ r[to(j)] = c[j]
  BY <1>1, <1>3, <1>6
<1>8. \A k \in DOMAIN r : k # p => \E j \in DOMAIN c : k = to(j)
  <2> SUFFICES ASSUME NEW k \in DOMAIN r, k # p PROVE \E j \in DOMAIN c : k = to(j)
    OBVIOUS
  <2>1. CASE k < p
    BY <1>1, <1>3, <1>6, <2>1
  <2>2. CASE p < k
    <3>1. k - 1 \in DOMAIN c /\ to(k - 1) = k
      BY <1>1, <1>3, <1>6, <2>2
    <3> QED  BY <3>1
  <2> QED  BY <1>1, <1>6, <2>1, <2>2
<1>9. r[p] = e /\ p \in DOMAIN r
  BY <1>1, <1>3, <1>6
<1>10. \A i, j \in DOMAIN c : (i <= j => to(i) <= to(j)) /\ (i < j => to(i) < to(j))
  BY <1>1, <1>3
<1> HIDE DEF to
<1>11. NodesOf(r) = NodesOf(c) \union {n}
  <2>1. ASSUME NEW k \in DOMAIN r PROVE r[k].node \in NodesOf(c) \union {n}
    BY <1>4, <1>7, <1>8, <1>9 DEF NodesOf
  <2>2. ASSUME NEW j \in DOMAIN c PROVE c[j].node \in NodesOf(r)
    BY <1>7 DEF NodesOf
  <2>3. n \in NodesOf(r)
    BY <1>4, <1>9 DEF NodesOf
  <2> QED  BY <2>1, <2>2, <2>3 DEF NodesOf
<1>12. Live(r, f.at) /\ Live(r, f.stop)
  BY <1>5, <1>11 DEF AnswerLoop, Live
<1>13. n # f.at /\ n # f.stop
  <2>1. n \notin NodesOf(c) /\ n # End
    BY <1>3, <1>6, FieldsAreTyped DEF NodesOf
  <2> QED  BY <1>5, <2>1 DEF AnswerLoop, Live
<1>14. ASSUME NEW k \in DOMAIN r, r[k].id = f.elem.id
       PROVE  /\ r[k].node < f.since
              /\ f.at # f.stop
              /\ \A i \in DOMAIN r : r[i].node = f.at => i <= k
              /\ \A i \in DOMAIN r : r[i].node = f.stop => k < i
  <2>1. PICK j \in DOMAIN c : k = to(j) /\ c[j].id = f.elem.id /\ r[k] = c[j]
    BY <1>4, <1>7, <1>8, <1>9, <1>14
  <2>2. /\ c[j].node < f.since
        /\ f.at # f.stop
        /\ \A i \in DOMAIN c : c[i].node = f.at => i <= j
        /\ \A i \in DOMAIN c : c[i].node = f.stop => j < i
    BY <1>5, <2>1 DEF AnswerLoop
  <2>3. ASSUME NEW i \in DOMAIN r
        PROVE  (r[i].node = f.at => i <= k) /\ (r[i].node = f.stop => k < i)
    <3>1. CASE i = p
      BY <1>4, <1>9, <1>13, <3>1
    <3>2. CASE i # p
      <4>1. PICK l \in DOMAIN c : i = to(l) /\ r[i] = c[l]
        BY <1>7, <1>8, <3>2
      <4> QED  BY <1>10, <2>1, <2>2, <4>1
    <3> QED  BY <3>1, <3>2
  <2> QED  BY <2>1, <2>2, <2>3
<1>15. \A d : (\E j \in DOMAIN c : c[j].node = d /\ c[j].id = f.elem.id)
                 => \E j \in DOMAIN r : r[j].node = d /\ r[j].id = f.elem.id
  BY <1>7
<1>16. \A k \in DOMAIN f.called : f.called[k] < f.since /\ f.called[k] \notin NodesOf(r)
  <2> SUFFICES ASSUME NEW k \in DOMAIN f.called
               PROVE f.called[k] < f.since /\ f.called[k] \notin NodesOf(r)
    OBVIOUS
  <2>1. f.called[k] < f.since /\ f.called[k] \notin NodesOf(c)
    BY <1>5 DEF AnswerLoop
  <2>2. f.called[k] # n
    BY <1>6, <2>1
  <2> QED  BY <1>11, <2>1, <2>2
<1>17. AnswerLoop(f, r)
  BY <1>5, <1>12, <1>14, <1>15, <1>16 DEF AnswerLoop
<1> QED  BY <1>17 DEF r

\* When one node is erased, those after it close the gap.
LEMMA OneIsGone ==
    ASSUME NEW c \in Seq(Entries), NEW r \in Seq(Entries), NEW h, NEW p \in DOMAIN c,
           WhatIsLeft(r, c, {c[p].node}, h),
           \A j, k \in DOMAIN c : c[j].node = c[k].node => j = k
    PROVE  \A j \in DOMAIN r : (h[j] < p <=> j < p) /\ h[j] # p
<1> DEFINE gone == {c[p].node}
           Moved == {j \in DOMAIN r : j < p /\ h[j] # j}
<1>1. /\ DOMAIN r = 1..Len(r) /\ Len(r) \in Nat
      /\ DOMAIN c = 1..Len(c) /\ Len(c) \in Nat
  BY LenProperties
<1>2. /\ \A j \in DOMAIN r : h[j] \in DOMAIN c /\ h[j] # p
      /\ \A j, k \in DOMAIN r : j < k => h[j] < h[k]
      /\ \A i \in DOMAIN c : i # p => \E j \in DOMAIN r : h[j] = i
  BY DEF WhatIsLeft
<1>3. Moved = {}
  <2> SUFFICES ASSUME Moved # {} PROVE FALSE
    OBVIOUS
  <2>1. Moved \subseteq Nat
    BY <1>1
  <2> HIDE DEF Moved
  <2>2. PICK m \in Moved : \A j \in Moved : m <= j
    BY <2>1, LeastNatural
  <2> USE DEF Moved
  <2>3. m \in 1..Len(r) /\ m < p /\ h[m] # m /\ m \in 1..Len(c) /\ h[m] \in 1..Len(c)
    BY <1>1, <1>2, <2>2
  <2>4. \A j \in DOMAIN r : j < m => h[j] = j
    BY <1>1, <2>2, <2>3
  <2>5. m < h[m]
    <3> SUFFICES ASSUME h[m] < m PROVE FALSE
      BY <2>3
    <3>1. h[m] \in DOMAIN r /\ h[h[m]] = h[m]
      BY <1>1, <2>3, <2>4
    <3>2. h[h[m]] < h[m]
      BY <1>1, <1>2, <2>3, <3>1
    <3> QED  BY <2>3, <3>1, <3>2
  <2>6. PICK k \in DOMAIN r : h[k] = m
    BY <1>1, <1>2, <2>3
  <2>7. k < m \/ k = m \/ m < k
    BY <1>1, <2>3
  <2>8. CASE k < m
    BY <2>3, <2>4, <2>6, <2>8
  <2>9. CASE m < k
    <3>1. h[m] < h[k]
      BY <1>1, <1>2, <2>3, <2>9
    <3> QED  BY <2>3, <2>5, <2>6, <3>1
  <2> QED  BY <2>3, <2>6, <2>7, <2>8, <2>9
<1>4. ASSUME NEW j \in DOMAIN r PROVE (h[j] < p <=> j < p) /\ h[j] # p
  <2>1. CASE j < p
    BY <1>1, <1>2, <1>3, <2>1
  <2>2. CASE p <= j
    <3> SUFFICES ASSUME h[j] < p PROVE FALSE
      BY <1>1, <1>2, <2>2
    <3>1. h[j] \in 1..Len(c) /\ h[j] < j /\ j \in 1..Len(r) /\ p \in 1..Len(c)
      BY <1>1, <1>2, <2>2
    <3>2. h[j] \in DOMAIN r /\ h[h[j]] = h[j]
      BY <1>1, <1>3, <3>1
    <3>3. h[h[j]] < h[j]
      BY <1>1, <1>2, <3>1, <3>2
    <3> QED  BY <3>1, <3>2, <3>3
  <2> QED  BY <1>1, <2>1, <2>2
<1> QED  BY <1>4

\* The callback has returned, its node is erased, and the loop goes on with the
\* next one that waits for the id, or is at its end and none is left.
LEMMA AnswerCalled ==
    ASSUME NEW f \in Frames, f.run = "iq", NEW c \in Seq(Entries), NEW next, ByIds(c, next),
           AnswerLoop(f, c), f.at # f.stop
    PROVE  LET g == [f EXCEPT !.due = @ \ {f.at}, !.called = Append(@, f.at)]
               b == Erased(c, {f.at})
               r == [g EXCEPT !.at = Walk(g, b, PositionOf(c, f.at))]
           IN /\ r \in Frames /\ r.run = f.run /\ r.elem = f.elem /\ r.since = f.since
              /\ AnswerLoop(r, b)
<1> DEFINE g == [f EXCEPT !.due = @ \ {f.at}, !.called = Append(@, f.at)]
           b == Erased(c, {f.at})
           p == PositionOf(c, f.at)
           at == Walk(g, b, p)
           r == [g EXCEPT !.at = at]
           called == Append(f.called, f.at)
<1>1. /\ \A j \in DOMAIN c : c[j].node \in Nodes
      /\ \A j, k \in DOMAIN c : c[j].node = c[k].node => j = k
      /\ DOMAIN c = 1..Len(c) /\ Len(c) \in Nat
  BY EntriesAreTyped DEF ByIds
<1>2. f.called \in Seq(Nodes) /\ f.due \subseteq Nodes /\ f.since \in Nat
  BY FieldsAreTyped
<1>3. p \in DOMAIN c /\ c[p].node = f.at /\ f.at \in Nodes /\ c[p].id = f.elem.id
  <2>1. PICK i \in DOMAIN c : c[i].node = f.at /\ c[i].id = f.elem.id
    BY DEF AnswerLoop
  <2>2. p = i
    BY <1>1, <2>1, PositionIs, FieldsAreTyped
  <2> QED  BY <1>1, <2>1, <2>2
<1>4. /\ g.run = f.run /\ g.elem = f.elem /\ g.at = f.at /\ g.stop = f.stop
      /\ g.since = f.since /\ g.due = f.due \ {f.at} /\ g.called = called
      /\ g \in [run : {"iq", "signal", "in", "out"}, elem : Elements,
                at : Nodes \union {End}, stop : Nodes \union {End},
                due : SUBSET Nodes, called : {called}, since : Nat]
  BY DEF Frames
<1> HIDE DEF g, p, called
<1>5. /\ r.run = f.run /\ r.elem = f.elem /\ r.at = at /\ r.stop = f.stop
      /\ r.since = f.since /\ r.due = f.due \ {f.at} /\ r.called = called
      /\ r \in [run : {"iq", "signal", "in", "out"}, elem : Elements,
                at : {at}, stop : Nodes \union {End},
                due : SUBSET Nodes, called : {called}, since : Nat]
  BY <1>4
<1>6. b \in Seq(Entries) /\ ByIds(b, next)
  BY ErasedIs, ErasedByIds
<1>7. PICK h : WhatIsLeft(b, c, {f.at}, h)
  BY ErasedIs
<1>8. NodesOf(b) = NodesOf(c) \ {f.at}
  BY ErasedNodes
<1> HIDE DEF at, r, b
<1>9. \A e : Fires(g, e) <=> e.id = f.elem.id
  BY <1>4 DEF Fires
<1>10. /\ \A j \in DOMAIN b : b[j].node \in Nodes
       /\ \A j, k \in DOMAIN b : b[j].node = b[k].node => j = k
       /\ DOMAIN b = 1..Len(b) /\ Len(b) \in Nat
  BY <1>6, EntriesAreTyped DEF ByIds
<1>11. \A j \in DOMAIN b : (h[j] < p <=> j < p) /\ h[j] # p
  <2>1. WhatIsLeft(b, c, {c[p].node}, h)
    BY <1>3, <1>7
  <2>2. p \in DOMAIN c /\ b \in Seq(Entries)
    BY <1>3, <1>6
  <2>3. \A j, k \in DOMAIN c : c[j].node = c[k].node => j = k
    BY <1>1
  <2> QED  BY <2>1, <2>2, <2>3, OneIsGone
<1>12. \A j \in DOMAIN b : h[j] \in DOMAIN c /\ b[j] = c[h[j]]
  BY <1>7 DEF WhatIsLeft
<1>13. Live(b, f.stop)
  BY <1>8 DEF Live, AnswerLoop
<1>14. PICK s \in 1..(Len(b) + 1) : f.stop = Iterator(b, s) /\ PositionOf(b, f.stop) = s
  BY <1>6, <1>10, <1>13, LiveIsSomewhere
<1>15. \A j \in DOMAIN b : b[j].node = f.stop => j = s
  BY <1>6, <1>10, <1>14, IteratorIs
<1>16. \A j \in DOMAIN b : b[j].id = f.elem.id => j \in p..(s - 1)
  <2> SUFFICES ASSUME NEW j \in DOMAIN b, b[j].id = f.elem.id PROVE j \in p..(s - 1)
    OBVIOUS
  <2>1. h[j] \in DOMAIN c /\ c[h[j]].id = f.elem.id
    BY <1>12
  <2>2. p <= h[j] /\ \A i \in DOMAIN c : c[i].node = f.stop => h[j] < i
    BY <1>3, <2>1 DEF AnswerLoop
  <2>3. p <= j
    BY <1>1, <1>3, <1>10, <1>11, <2>1, <2>2
  <2>4. j < s
    <3>1. CASE s \in DOMAIN b
      <4>1. b[s].node = f.stop
        BY <1>14, <3>1 DEF Iterator
      <4>2. h[s] \in DOMAIN c /\ h[j] < h[s]
        BY <1>12, <2>2, <3>1, <4>1
      <4>3. s < j => h[s] < h[j]
        BY <1>7, <3>1 DEF WhatIsLeft
      <4> QED  BY <1>1, <1>10, <2>1, <3>1, <4>2, <4>3
    <3>2. CASE s \notin DOMAIN b
      BY <1>10, <1>14, <3>2
    <3> QED  BY <3>1, <3>2
  <2> QED  BY <1>1, <1>3, <1>10, <1>14, <2>3, <2>4
<1>17. WalkFinds(at, g, b, p, s)
  <2>1. PositionOf(b, g.stop) \in 1..(Len(b) + 1) /\ p \in Nat \ {0}
    BY <1>1, <1>3, <1>4, <1>14
  <2>2. WalkFinds(Walk(g, b, p), g, b, p, PositionOf(b, g.stop))
    BY <1>6, <2>1, WalkIs
  <2> QED  BY <1>4, <1>14, <2>2 DEF at
<1>18. \/ at = f.stop /\ \A j \in DOMAIN b : b[j].id # f.elem.id
       \/ \E m \in DOMAIN b : /\ b[m].id = f.elem.id /\ at = b[m].node
                              /\ m < s
                              /\ \A j \in DOMAIN b : b[j].id = f.elem.id => m <= j
  <2>1. CASE /\ \A j \in p..(s - 1) : ~ Fires(g, b[j])
             /\ at = g.stop
    BY <1>4, <1>9, <1>16, <2>1
  <2>2. CASE \E m \in p..(s - 1) :
                /\ Fires(g, b[m])
                /\ at = b[m].node
                /\ \A j \in p..(s - 1) : Fires(g, b[j]) => m <= j
    <3>1. PICK m \in p..(s - 1) :
                /\ Fires(g, b[m])
                /\ at = b[m].node
                /\ \A j \in p..(s - 1) : Fires(g, b[j]) => m <= j
      BY <2>2
    <3>2. m \in DOMAIN b /\ m < s
      BY <1>1, <1>3, <1>10, <1>14, <3>1
    <3> QED  BY <1>9, <1>16, <3>1, <3>2
  <2> QED  BY <1>17, <2>1, <2>2 DEF WalkFinds
<1>19. \A j \in DOMAIN b : b[j].id = f.elem.id => b[j].node < f.since
  BY <1>12 DEF AnswerLoop
<1>20. \A d \in r.due : \E j \in DOMAIN b : b[j].node = d /\ b[j].id = f.elem.id
  <2> SUFFICES ASSUME NEW d \in f.due, d # f.at
               PROVE \E j \in DOMAIN b : b[j].node = d /\ b[j].id = f.elem.id
    BY <1>5
  <2>1. PICK i \in DOMAIN c : c[i].node = d /\ c[i].id = f.elem.id
    BY DEF AnswerLoop
  <2>2. PICK j \in DOMAIN b : h[j] = i
    BY <1>7, <2>1 DEF WhatIsLeft
  <2> QED  BY <1>12, <2>1, <2>2
<1>21. /\ called \in Seq(Nodes)
       /\ DOMAIN called = 1..(Len(f.called) + 1) /\ DOMAIN f.called = 1..Len(f.called)
       /\ Len(f.called) \in Nat
       /\ called[Len(f.called) + 1] = f.at
       /\ \A k \in 1..Len(f.called) : called[k] = f.called[k]
  <2> DEFINE q == f.called
  <2> HIDE DEF q
  <2>1. DOMAIN q = 1..Len(q) /\ Len(q) \in Nat
    BY <1>2, LenProperties DEF q
  <2>2. /\ Append(q, f.at) \in Seq(Nodes) /\ Len(Append(q, f.at)) = Len(q) + 1
        /\ \A k \in 1..Len(q) : Append(q, f.at)[k] = q[k]
        /\ Append(q, f.at)[Len(q) + 1] = f.at
    BY <1>2, <1>3, AppendProperties DEF q
  <2>3. DOMAIN Append(q, f.at) = 1..(Len(q) + 1)
    BY <2>2, LenProperties
  <2> QED  BY <2>1, <2>2, <2>3 DEF q, called
<1>22. \A k \in DOMAIN f.called : f.called[k] < f.since /\ f.called[k] \notin NodesOf(c)
  BY DEF AnswerLoop
<1>23. f.at < f.since /\ f.at \in NodesOf(c) /\ f.at \notin NodesOf(b)
  BY <1>3, <1>8 DEF AnswerLoop, NodesOf
<1>24. \A k \in DOMAIN called : called[k] < f.since /\ called[k] \notin NodesOf(b)
  <2> SUFFICES ASSUME NEW k \in DOMAIN called
               PROVE called[k] < f.since /\ called[k] \notin NodesOf(b)
    OBVIOUS
  <2>1. CASE k = Len(f.called) + 1
    BY <1>21, <1>23, <2>1
  <2>2. CASE k # Len(f.called) + 1
    <3>1. k \in 1..Len(f.called)
      BY <1>21, <2>2
    <3>2. k \in DOMAIN f.called /\ called[k] = f.called[k]
      BY <1>21, <3>1
    <3> QED  BY <1>8, <1>22, <3>2
  <2> QED  BY <2>1, <2>2
<1>25. \A k, l \in DOMAIN called : called[k] = called[l] => k = l
  <2>1. \A k \in DOMAIN called : \/ k = Len(f.called) + 1 /\ called[k] \in NodesOf(c)
                                \/ /\ k \in DOMAIN f.called /\ called[k] = f.called[k]
                                   /\ called[k] \notin NodesOf(c)
    BY <1>21, <1>22, <1>23
  <2>2. \A k, l \in DOMAIN f.called : f.called[k] = f.called[l] => k = l
    BY DEF AnswerLoop
  <2> QED  BY <2>1, <2>2
<1>26. at \in Nodes \union {End} /\ Live(b, at)
  <2>1. f.stop \in Nodes \union {End}
    BY FieldsAreTyped
  <2> QED  BY <1>10, <1>13, <1>18, <2>1 DEF Live, NodesOf
<1>27. r \in Frames
  BY <1>5, <1>21, <1>26 DEF Frames
<1>28. AnswerLoop(r, b)
  <2>1. CASE at = f.stop /\ \A j \in DOMAIN b : b[j].id # f.elem.id
    BY <1>5, <1>13, <1>20, <1>24, <1>25, <2>1 DEF AnswerLoop
  <2>2. CASE \E m \in DOMAIN b : /\ b[m].id = f.elem.id /\ at = b[m].node
                                 /\ m < s
                                 /\ \A j \in DOMAIN b : b[j].id = f.elem.id => m <= j
    <3>1. PICK m \in DOMAIN b : /\ b[m].id = f.elem.id /\ at = b[m].node
                                /\ m < s
                                /\ \A j \in DOMAIN b : b[j].id = f.elem.id => m <= j
      BY <2>2
    <3>2. at # f.stop
      <4> SUFFICES ASSUME at = f.stop PROVE FALSE
        OBVIOUS
      <4>1. m = s
        BY <1>15, <3>1
      <4> QED  BY <1>10, <3>1, <4>1
    <3>3. \A i \in DOMAIN b : b[i].node = at => i = m
      BY <1>10, <3>1
    <3>4. \A j \in DOMAIN b : b[j].id = f.elem.id => j < s
      BY <1>1, <1>3, <1>10, <1>14, <1>16
    <3>5. ASSUME NEW j \in DOMAIN b, b[j].id = f.elem.id
          PROVE  /\ \A i \in DOMAIN b : b[i].node = at => i <= j
                 /\ \A i \in DOMAIN b : b[i].node = f.stop => j < i
      BY <1>15, <3>1, <3>3, <3>4, <3>5
    <3> QED  BY <1>5, <1>13, <1>19, <1>20, <1>24, <1>25, <1>26, <3>1, <3>2, <3>5
             DEF AnswerLoop
  <2> QED  BY <1>18, <2>1, <2>2
<1> QED  BY <1>5, <1>27, <1>28 DEF r, at, g, b, p

-----------------------------------------------------------------------------
(* Lemmas about the frames. *)

LEMMA FrameReplaced ==
    ASSUME NEW s, NEW cs, NEW ins, NEW outs, NEW next,
           FramesAreSound(s, cs, ins, outs, next), s # <<>>, NEW f \in Frames,
           FrameIsSound(f, cs, ins, outs, next), f.run # "iq"
    PROVE  FramesAreSound([s EXCEPT ![Len(s)] = f], cs, ins, outs, next)
<1> DEFINE r == [s EXCEPT ![Len(s)] = f]
<1>1. /\ s \in Seq(Frames)
      /\ \A i \in DOMAIN s : FrameIsSound(s[i], cs, ins, outs, next)
      /\ \A i, k \in DOMAIN s : i < k => LeavesIterators(s[k], s[i], cs)
  BY DEF FramesAreSound
<1>2. Len(s) \in DOMAIN s /\ DOMAIN s = 1..Len(s) /\ Len(s) \in Nat
  BY <1>1, LenProperties, EmptySeq
<1>3. r \in Seq(Frames) /\ DOMAIN r = DOMAIN s
  BY <1>1, <1>2
<1>4. \A i \in DOMAIN s : r[i] = IF i = Len(s) THEN f ELSE s[i]
  BY <1>1, <1>2
<1> HIDE DEF r
<1>5. ASSUME NEW i \in DOMAIN s PROVE FrameIsSound(r[i], cs, ins, outs, next)
  BY <1>1, <1>4
<1>6. ASSUME NEW i \in DOMAIN s, NEW k \in DOMAIN s, i < k
      PROVE  LeavesIterators(r[k], r[i], cs)
  <2>1. r[i] = s[i] /\ LeavesIterators(s[k], s[i], cs)
    BY <1>1, <1>2, <1>4, <1>6
  <2> QED  BY <1>4, <2>1 DEF LeavesIterators
<1>7. FramesAreSound(r, cs, ins, outs, next)
  BY <1>3, <1>5, <1>6 DEF FramesAreSound
<1> QED  BY <1>7 DEF r

LEMMA FrameAppended ==
    ASSUME NEW s, NEW cs, NEW ins, NEW outs, NEW next,
           FramesAreSound(s, cs, ins, outs, next), NEW f \in Frames,
           FrameIsSound(f, cs, ins, outs, next),
           \A i \in DOMAIN s : LeavesIterators(f, s[i], cs)
    PROVE  FramesAreSound(Append(s, f), cs, ins, outs, next)
<1> DEFINE r == Append(s, f)
<1>1. /\ s \in Seq(Frames)
      /\ \A i \in DOMAIN s : FrameIsSound(s[i], cs, ins, outs, next)
      /\ \A i, k \in DOMAIN s : i < k => LeavesIterators(s[k], s[i], cs)
  BY DEF FramesAreSound
<1>2. DOMAIN s = 1..Len(s) /\ Len(s) \in Nat
  BY <1>1, LenProperties
<1>3. /\ r \in Seq(Frames) /\ Len(r) = Len(s) + 1 /\ r[Len(s) + 1] = f
      /\ \A i \in 1..Len(s) : r[i] = s[i]
  BY <1>1, AppendProperties
<1>4. DOMAIN r = 1..(Len(s) + 1)
  BY <1>3, LenProperties
<1> HIDE DEF r
<1>5. ASSUME NEW i \in DOMAIN r PROVE FrameIsSound(r[i], cs, ins, outs, next)
  <2>1. CASE i = Len(s) + 1
    BY <1>3, <2>1
  <2>2. CASE i # Len(s) + 1
    <3>1. i \in 1..Len(s)
      BY <1>2, <1>4, <2>2
    <3> QED  BY <1>1, <1>2, <1>3, <3>1
  <2> QED  BY <2>1, <2>2
<1>6. ASSUME NEW i \in DOMAIN r, NEW k \in DOMAIN r, i < k
      PROVE  LeavesIterators(r[k], r[i], cs)
  <2>1. i \in DOMAIN s /\ r[i] = s[i]
    BY <1>2, <1>3, <1>4, <1>6
  <2>2. CASE k = Len(s) + 1
    BY <1>3, <2>1, <2>2
  <2>3. CASE k # Len(s) + 1
    <3>1. k \in DOMAIN s /\ r[k] = s[k]
      BY <1>2, <1>3, <1>4, <2>3
    <3> QED  BY <1>1, <1>6, <2>1, <3>1
  <2> QED  BY <2>2, <2>3
<1>7. FramesAreSound(r, cs, ins, outs, next)
  BY <1>3, <1>5, <1>6 DEF FramesAreSound
<1> QED  BY <1>7 DEF r

LEMMA FramePopped ==
    ASSUME NEW s, NEW cs, NEW ins, NEW outs, NEW next,
           FramesAreSound(s, cs, ins, outs, next), s # <<>>
    PROVE  FramesAreSound(SubSeq(s, 1, Len(s) - 1), cs, ins, outs, next)
<1> DEFINE r == SubSeq(s, 1, Len(s) - 1)
<1>1. /\ s \in Seq(Frames)
      /\ \A i \in DOMAIN s : FrameIsSound(s[i], cs, ins, outs, next)
      /\ \A i, k \in DOMAIN s : i < k => LeavesIterators(s[k], s[i], cs)
  BY DEF FramesAreSound
<1>2. DOMAIN s = 1..Len(s) /\ Len(s) \in Nat \ {0}
  BY <1>1, LenProperties, EmptySeq
<1>3. r \in Seq(Frames) /\ \A i \in DOMAIN r : i \in 1..(Len(s) - 1) /\ r[i] = s[i]
  BY <1>1, <1>2
<1> HIDE DEF r
<1>4. \A i \in DOMAIN r : i \in DOMAIN s
  BY <1>2, <1>3
<1>5. FramesAreSound(r, cs, ins, outs, next)
  BY <1>1, <1>3, <1>4 DEF FramesAreSound
<1> QED  BY <1>5 DEF r

\* Everything in r is in c.
Among(r, c) == \A j \in DOMAIN r : \E k \in DOMAIN c : r[j] = c[k]

\* Changing the containers, each frame is looked at; what is left of the callbacks
\* was there before.
LEMMA FramesChanged ==
    ASSUME NEW s, NEW cs, NEW ins, NEW outs, NEW next,
           FramesAreSound(s, cs, ins, outs, next), NEW gone,
           NEW csx, NEW insx, NEW outsx, NEW nextx,
           Among(csx, cs),
           \A i \in DOMAIN s :
              FrameIsSound([s[i] EXCEPT !.due = @ \ gone], csx, insx, outsx, nextx)
    PROVE  FramesAreSound([i \in DOMAIN s |-> [s[i] EXCEPT !.due = @ \ gone]],
                          csx, insx, outsx, nextx)
<1> DEFINE g(i) == [s[i] EXCEPT !.due = @ \ gone]
           r == [i \in DOMAIN s |-> g(i)]
<1>1. s \in Seq(Frames) /\ DOMAIN s = 1..Len(s) /\ Len(s) \in Nat
  BY LenProperties DEF FramesAreSound
<1>2. ASSUME NEW i \in DOMAIN s
      PROVE  /\ g(i) \in Frames
             /\ g(i).run = s[i].run /\ g(i).elem = s[i].elem
             /\ g(i).at = s[i].at /\ g(i).stop = s[i].stop
  <2>1. s[i] \in Frames
    BY <1>1, ElementOfSeq
  <2> QED  BY <2>1 DEF Frames
<1>3. ASSUME NEW i \in DOMAIN s, NEW k \in DOMAIN s, i < k
      PROVE  LeavesIterators(g(k), g(i), csx)
  <2>1. LeavesIterators(s[k], s[i], cs)
    BY <1>3 DEF FramesAreSound
  <2>2. /\ g(i).run = s[i].run /\ g(i).at = s[i].at /\ g(i).stop = s[i].stop
        /\ g(k).run = s[k].run /\ g(k).elem = s[k].elem
    BY <1>2
  <2> HIDE DEF g
  <2> QED  BY <2>1, <2>2 DEF LeavesIterators, Among
<1>4. \A i \in DOMAIN s : FrameIsSound(g(i), csx, insx, outsx, nextx)
  OBVIOUS
<1> HIDE DEF g
<1>5. r \in Seq(Frames)
  BY <1>1, <1>2
<1>6. FramesAreSound(r, csx, insx, outsx, nextx)
  BY <1>3, <1>4, <1>5 DEF FramesAreSound
<1> QED  BY <1>6 DEF g

\* The fields of a frame whose due has shrunk.
LEMMA ExcusedIs ==
    ASSUME NEW f \in Frames, NEW gone
    PROVE  LET g == [f EXCEPT !.due = @ \ gone]
           IN /\ g.run = f.run /\ g.elem = f.elem /\ g.at = f.at /\ g.stop = f.stop
              /\ g.called = f.called /\ g.since = f.since
  BY DEF Frames

-----------------------------------------------------------------------------
(* The steps. *)

LEMMA InitEstablishes ==
    ASSUME Init
    PROVE  Inv
<1>1. ContainerInv
  BY EmptySeq, DispatchAssumption DEF Init, ContainerInv, ByIds, LatestFirst
<1>2. LoopInv
  BY EmptySeq DEF Init, LoopInv, FramesAreSound
<1> QED  BY <1>1, <1>2 DEF Inv

LEMMA TopIs ==
    ASSUME LoopInv, frames # <<>>
    PROVE  /\ Len(frames) \in DOMAIN frames /\ Len(frames) \in Nat \ {0}
           /\ DOMAIN frames = 1..Len(frames)
           /\ Top \in Frames /\ Top = frames[Len(frames)]
           /\ FrameIsSound(Top, callbacks, incoming, outgoing, nextNode)
<1>1. frames \in Seq(Frames)
  BY DEF LoopInv, FramesAreSound
<1>2. Len(frames) \in DOMAIN frames /\ Len(frames) \in Nat \ {0} /\ DOMAIN frames = 1..Len(frames)
  BY <1>1, LenProperties, EmptySeq
<1>3. Top \in Frames
  BY <1>1, <1>2, ElementOfSeq DEF Top
<1> QED  BY <1>2, <1>3 DEF LoopInv, FramesAreSound, Top

LEMMA RegisterIQKeeps ==
    ASSUME Habits = {}, Inv, RegisterIQ
    PROVE  Inv'
<1> USE DEF Inv
<1>1. PICK id \in Ids : id \notin Answered /\ callbacks' = Inserted(nextNode, id)
  BY DEF RegisterIQ
<1>2. /\ nextNode \in Nodes /\ nextNode' = nextNode + 1
      /\ UNCHANGED <<incoming, outgoing, frames, fault>>
  BY DEF RegisterIQ
<1>3. /\ callbacks \in Seq(Entries) /\ ByIds(callbacks, nextNode)
      /\ LatestFirst(incoming, nextNode) /\ LatestFirst(outgoing, nextNode)
      /\ incoming \in Seq(Queries) /\ outgoing \in Seq(Queries)
      /\ nextNode \in Nat
  BY <1>2, FieldsAreTyped DEF ContainerInv
<1>4. callbacks' \in Seq(Entries) /\ ByIds(callbacks', nextNode + 1)
  <2>1. Inserted(nextNode, id) \in Seq(Entries)
    BY <1>2, <1>3, InsertedIs
  <2>2. ByIds(Inserted(nextNode, id), nextNode + 1)
    BY <1>2, <1>3, InsertedByIds
  <2> QED  BY <1>1, <2>1, <2>2
<1>5. \A c \in {incoming, outgoing} : LatestFirst(c, nextNode + 1)
  <2> SUFFICES ASSUME NEW c \in Seq(Queries), LatestFirst(c, nextNode)
               PROVE  LatestFirst(c, nextNode + 1)
    BY <1>3
  <2>1. \A j \in DOMAIN c : c[j].node \in Nodes
    BY LatestFirstIsUnique
  <2>2. \A j \in DOMAIN c : c[j].node \in Nat /\ c[j].node < nextNode
    BY <2>1, FieldsAreTyped DEF LatestFirst
  <2> QED  BY <1>3, <2>2 DEF LatestFirst
<1>6. ContainerInv'
  <2>1. LatestFirst(incoming, nextNode + 1) /\ LatestFirst(outgoing, nextNode + 1)
    BY <1>5
  <2>2. nextNode + 1 \in 1..(MaxNodes + 1)
    BY <1>2, DispatchAssumption DEF Nodes
  <2> QED  BY <1>2, <1>3, <1>4, <2>1, <2>2 DEF ContainerInv
<1>7. \A j \in DOMAIN callbacks' : \/ callbacks'[j].id = id /\ callbacks'[j].node = nextNode
                                   \/ \E k \in DOMAIN callbacks : callbacks'[j] = callbacks[k]
  <2> DEFINE r == Inserted(nextNode, id)
             c == callbacks
             e == [node |-> nextNode, id |-> id]
  <2>1. PICK p \in 1..(Len(c) + 1) :
            /\ Len(r) = Len(c) + 1
            /\ \A j \in 1..Len(r) :
                  r[j] = IF j < p THEN c[j] ELSE IF j = p THEN e ELSE c[j - 1]
            /\ \A j \in DOMAIN c : IF j < p THEN c[j].id <= id ELSE id < c[j].id
    BY <1>2, <1>3, InsertedIs
  <2>2. DOMAIN r = 1..Len(r) /\ DOMAIN c = 1..Len(c) /\ Len(c) \in Nat
    BY <1>1, <1>3, <1>4, LenProperties
  <2>3. e.id = id /\ e.node = nextNode
    OBVIOUS
  <2> HIDE DEF r, e, c
  <2>4. ASSUME NEW j \in DOMAIN r
        PROVE  (r[j].id = id /\ r[j].node = nextNode) \/ \E k \in DOMAIN c : r[j] = c[k]
    <3>1. CASE j < p
      BY <2>1, <2>2, <3>1
    <3>2. CASE j = p
      BY <2>1, <2>2, <2>3, <3>2
    <3>3. CASE p < j
      <4>1. j - 1 \in DOMAIN c /\ r[j] = c[j - 1]
        BY <2>1, <2>2, <3>3
      <4> QED  BY <4>1
    <3> QED  BY <2>1, <2>2, <3>1, <3>2, <3>3
  <2> QED  BY <1>1, <2>4 DEF r, c
<1>8. ASSUME NEW i \in DOMAIN frames
      PROVE  FrameIsSound(frames[i], callbacks', incoming, outgoing, nextNode + 1)
  <2> DEFINE f == frames[i]
  <2>1. f \in Frames /\ FrameIsSound(f, callbacks, incoming, outgoing, nextNode)
    BY ElementOfSeq, LenProperties DEF LoopInv, FramesAreSound
  <2>2. f.run # "out" => f.elem.id # id
    BY <1>1 DEF Answered
  <2> HIDE DEF f
  <2>3. f.since <= nextNode /\ f.since \in Nat
    BY <2>1, FieldsAreTyped DEF FrameIsSound
  <2>4. f.run = "iq" => AnswerLoop(f, callbacks')
    <3> SUFFICES ASSUME f.run = "iq" PROVE AnswerLoop(f, Inserted(nextNode, id))
      BY <1>1
    <3>1. AnswerLoop(f, callbacks) /\ id # f.elem.id
      BY <2>1, <2>2 DEF FrameIsSound
    <3> QED  BY <1>2, <1>3, <2>1, <2>3, <3>1, AnswerInserted
  <2>5. f.run \in {"signal", "in"} => \A j \in DOMAIN callbacks' : callbacks'[j].id # f.elem.id
    BY <1>7, <2>1, <2>2 DEF FrameIsSound
  <2>6. f.since <= nextNode + 1
    BY <1>3, <2>3
  <2> QED  BY <2>1, <2>4, <2>5, <2>6 DEF FrameIsSound, f
<1>9. ASSUME NEW i \in DOMAIN frames, NEW k \in DOMAIN frames, i < k
      PROVE  LeavesIterators(frames[k], frames[i], callbacks')
  <2> DEFINE f == frames[i]
             g == frames[k]
  <2>1. /\ FrameIsSound(f, callbacks, incoming, outgoing, nextNode)
        /\ LeavesIterators(g, f, callbacks)
    BY <1>9 DEF LoopInv, FramesAreSound
  <2> HIDE DEF f, g
  <2>2. SUFFICES ASSUME f.run = "iq", g.run = "iq", NEW j \in DOMAIN callbacks',
                        callbacks'[j].node \in {f.at, f.stop}
                 PROVE  callbacks'[j].id # g.elem.id
    BY DEF LeavesIterators, f, g
  <2>3. nextNode \notin {f.at, f.stop}
    <3>1. \A m \in DOMAIN callbacks : callbacks[m].node < nextNode
      BY <1>3 DEF ByIds
    <3>2. nextNode \notin NodesOf(callbacks)
      BY <1>3, <3>1 DEF NodesOf
    <3>3. nextNode # End
      BY <1>2, FieldsAreTyped
    <3> QED  BY <2>1, <2>2, <3>2, <3>3 DEF FrameIsSound, AnswerLoop, Live
  <2>4. PICK m \in DOMAIN callbacks : callbacks'[j] = callbacks[m]
    BY <1>7, <2>2, <2>3
  <2> QED  BY <2>1, <2>2, <2>4 DEF LeavesIterators
<1>10. LoopInv'
  BY <1>2, <1>8, <1>9 DEF LoopInv, FramesAreSound
<1> QED  BY <1>6, <1>10

LEMMA UnregisterIQKeeps ==
    ASSUME Habits = {}, Inv, UnregisterIQ
    PROVE  Inv'
<1> USE DEF Inv
<1>1. PICK id \in Ids :
          LET gone == Registered(id)
          IN /\ gone \intersect Running = {}
             /\ gone \intersect Stops = {}
             /\ callbacks' = Erased(callbacks, gone)
             /\ frames' = Excused(gone)
  BY DEF UnregisterIQ, MayGo
<1> DEFINE gone == Registered(id)
<1>2. UNCHANGED <<incoming, outgoing, nextNode, fault>>
  BY DEF UnregisterIQ
<1>3. callbacks \in Seq(Entries) /\ ByIds(callbacks, nextNode)
  BY DEF ContainerInv
<1>4. End \notin gone
  BY <1>3, EntriesAreTyped, FieldsAreTyped DEF Registered
<1>5. /\ gone \intersect Running = {} /\ gone \intersect Stops = {}
      /\ callbacks' = Erased(callbacks, gone) /\ frames' = Excused(gone)
  BY <1>1
<1> HIDE DEF gone
<1>6. ContainerInv'
  <2>1. callbacks' \in Seq(Entries) /\ ByIds(callbacks', nextNode)
    BY <1>3, <1>5, ErasedIs, ErasedByIds
  <2> QED  BY <1>2, <2>1 DEF ContainerInv
<1>7. \A j \in DOMAIN callbacks' : \E k \in DOMAIN callbacks : callbacks'[j] = callbacks[k]
  <2>1. PICK h : WhatIsLeft(Erased(callbacks, gone), callbacks, gone, h)
    BY <1>3, ErasedIs
  <2> QED  BY <1>5, <2>1 DEF WhatIsLeft
<1>8. ASSUME NEW i \in DOMAIN frames
      PROVE  FrameIsSound([frames[i] EXCEPT !.due = @ \ gone],
                          callbacks', incoming, outgoing, nextNode)
  <2> DEFINE f == frames[i]
             g == [f EXCEPT !.due = @ \ gone]
  <2>1. f \in Frames /\ FrameIsSound(f, callbacks, incoming, outgoing, nextNode)
    BY ElementOfSeq, LenProperties DEF LoopInv, FramesAreSound
  <2>2. f.at \notin gone /\ f.stop \notin gone
    BY <1>4, <1>5 DEF Running, Stops
  <2> HIDE DEF f
  <2>3. /\ g.run = f.run /\ g.elem = f.elem /\ g.at = f.at /\ g.stop = f.stop
        /\ g.called = f.called /\ g.since = f.since
    BY <2>1, ExcusedIs
  <2>4. f.run = "iq" => AnswerLoop(g, callbacks')
    <3> SUFFICES ASSUME f.run = "iq" PROVE AnswerLoop(g, Erased(callbacks, gone))
      BY <1>5
    <3>1. AnswerLoop(f, callbacks)
      BY <2>1 DEF FrameIsSound
    <3> QED  BY <1>3, <2>1, <2>2, <3>1, AnswerExcused
  <2>5. f.run = "in" => QueryLoop(g, incoming)
    <3> SUFFICES ASSUME f.run = "in" PROVE QueryLoop(g, incoming)
      OBVIOUS
    <3>1. QueryLoop(f, incoming) /\ incoming \in Seq(Queries)
      BY <2>1 DEF FrameIsSound, ContainerInv
    <3> QED  BY <2>1, <3>1, QueryExcused
  <2>6. f.run = "out" => QueryLoop(g, outgoing)
    <3> SUFFICES ASSUME f.run = "out" PROVE QueryLoop(g, outgoing)
      OBVIOUS
    <3>1. QueryLoop(f, outgoing) /\ outgoing \in Seq(Queries)
      BY <2>1 DEF FrameIsSound, ContainerInv
    <3> QED  BY <2>1, <3>1, QueryExcused
  <2>7. f.run \in {"signal", "in"} => \A j \in DOMAIN callbacks' : callbacks'[j].id # f.elem.id
    BY <1>7, <2>1 DEF FrameIsSound
  <2> HIDE DEF g
  <2>8. FrameIsSound(g, callbacks', incoming, outgoing, nextNode)
    BY <2>1, <2>3, <2>4, <2>5, <2>6, <2>7 DEF FrameIsSound, Handlers
  <2> QED  BY <2>8 DEF f, g
<1>9. FramesAreSound(Excused(gone), callbacks', incoming, outgoing, nextNode)
  <2>1. FramesAreSound(frames, callbacks, incoming, outgoing, nextNode)
    BY DEF LoopInv
  <2>2. Among(callbacks', callbacks)
    BY <1>7 DEF Among
  <2> QED  BY <1>8, <2>1, <2>2, FramesChanged DEF Excused
<1>10. LoopInv'
  BY <1>2, <1>5, <1>9 DEF LoopInv
<1> QED  BY <1>6, <1>10

\* The new query is in front of what every loop over its list still has to do.
LEMMA RegisterXPathKeeps ==
    ASSUME Habits = {}, Inv, RegisterXPath
    PROVE  Inv'
<1> USE DEF Inv
<1>1. PICK s \in Selections :
          LET q == [node |-> nextNode, selects |-> s]
          IN \/ incoming' = <<q>> \o incoming /\ UNCHANGED outgoing
             \/ outgoing' = <<q>> \o outgoing /\ UNCHANGED incoming
  BY DEF RegisterXPath
<1> DEFINE one == <<[node |-> nextNode, selects |-> s]>>
<1>2. \/ incoming' = one \o incoming /\ UNCHANGED outgoing
      \/ outgoing' = one \o outgoing /\ UNCHANGED incoming
  BY <1>1
<1>3. nextNode \in Nodes /\ nextNode' = nextNode + 1 /\ UNCHANGED <<callbacks, frames, fault>>
  BY DEF RegisterXPath
<1>4. /\ callbacks \in Seq(Entries) /\ ByIds(callbacks, nextNode)
      /\ incoming \in Seq(Queries) /\ LatestFirst(incoming, nextNode)
      /\ outgoing \in Seq(Queries) /\ LatestFirst(outgoing, nextNode)
      /\ nextNode \in Nat
  BY <1>3, FieldsAreTyped DEF ContainerInv
\* The list that is added to and the list that is not.
<1>5. ASSUME NEW c \in Seq(Queries), LatestFirst(c, nextNode)
      PROVE  /\ LatestFirst(c, nextNode + 1)
             /\ one \o c \in Seq(Queries)
             /\ LatestFirst(one \o c, nextNode + 1)
             /\ \A j \in DOMAIN c : j + 1 \in DOMAIN (one \o c) /\ (one \o c)[j + 1] = c[j]
  <2>1. LatestFirst(c, nextNode + 1)
    <3>1. \A j \in DOMAIN c : c[j].node \in Nodes
      BY <1>5, LatestFirstIsUnique
    <3>2. \A j \in DOMAIN c : c[j].node \in Nat /\ c[j].node < nextNode
      BY <1>5, <3>1, FieldsAreTyped DEF LatestFirst
    <3> QED  BY <1>4, <1>5, <3>2 DEF LatestFirst
  <2>2. /\ one \o c \in Seq(Queries)
        /\ LatestFirst(one \o c, nextNode + 1)
        /\ DOMAIN (one \o c) = 1..(Len(c) + 1)
        /\ \A j \in DOMAIN c : (one \o c)[j + 1] = c[j]
    BY <1>3, <1>5, InFrontIs
  <2>3. \A j \in DOMAIN c : j + 1 \in 1..(Len(c) + 1)
    BY <1>5, LenProperties
  <2> QED  BY <2>1, <2>2, <2>3
<1> HIDE DEF one
<1>6. /\ incoming' \in Seq(Queries) /\ LatestFirst(incoming', nextNode')
      /\ outgoing' \in Seq(Queries) /\ LatestFirst(outgoing', nextNode')
  <2>1. CASE incoming' = one \o incoming /\ UNCHANGED outgoing
    BY <1>3, <1>4, <1>5, <2>1
  <2>2. CASE outgoing' = one \o outgoing /\ UNCHANGED incoming
    BY <1>3, <1>4, <1>5, <2>2
  <2> QED  BY <1>2, <2>1, <2>2
<1>7. ContainerInv'
  <2>1. nextNode' \in 1..(MaxNodes + 1)
    BY <1>3, DispatchAssumption DEF Nodes
  <2>2. \A j \in DOMAIN callbacks : callbacks[j].node < nextNode + 1
    <3>1. \A j \in DOMAIN callbacks : callbacks[j].node \in Nat /\ callbacks[j].node < nextNode
      BY <1>4, EntriesAreTyped DEF ByIds
    <3> QED  BY <1>4, <3>1
  <2>3. ByIds(callbacks, nextNode + 1)
    BY <1>4, <2>2 DEF ByIds
  <2> QED  BY <1>3, <1>4, <1>6, <2>1, <2>3 DEF ContainerInv
<1>8. ASSUME NEW f, QueryLoop(f, incoming) PROVE QueryLoop(f, incoming')
  <2>1. CASE incoming' = one \o incoming
    <3>1. \A j \in DOMAIN incoming : j + 1 \in DOMAIN incoming' /\ incoming'[j + 1] = incoming[j]
      BY <1>4, <1>5, <2>1
    <3> QED  BY <1>8, <3>1, QueryInFront
  <2>2. CASE UNCHANGED incoming
    BY <1>8, <2>2
  <2> QED  BY <1>2, <2>1, <2>2
<1>9. ASSUME NEW f, QueryLoop(f, outgoing) PROVE QueryLoop(f, outgoing')
  <2>1. CASE outgoing' = one \o outgoing
    <3>1. \A j \in DOMAIN outgoing : j + 1 \in DOMAIN outgoing' /\ outgoing'[j + 1] = outgoing[j]
      BY <1>4, <1>5, <2>1
    <3> QED  BY <1>9, <3>1, QueryInFront
  <2>2. CASE UNCHANGED outgoing
    BY <1>9, <2>2
  <2> QED  BY <1>2, <2>1, <2>2
<1>10. ASSUME NEW i \in DOMAIN frames
       PROVE  FrameIsSound(frames[i], callbacks, incoming', outgoing', nextNode + 1)
  <2> DEFINE f == frames[i]
  <2>1. f \in Frames /\ FrameIsSound(f, callbacks, incoming, outgoing, nextNode)
    BY ElementOfSeq, LenProperties DEF LoopInv, FramesAreSound
  <2> HIDE DEF f
  <2>2. f.since <= nextNode + 1
    BY <1>4, <2>1, FieldsAreTyped DEF FrameIsSound
  <2> QED  BY <1>8, <1>9, <2>1, <2>2 DEF FrameIsSound, f
<1>11. LoopInv'
  BY <1>3, <1>10 DEF LoopInv, FramesAreSound
<1> QED  BY <1>7, <1>11

LEMMA UnregisterXPathKeeps ==
    ASSUME Habits = {}, Inv, UnregisterXPath
    PROVE  Inv'
<1> USE DEF Inv
<1>1. PICK n \in NodesOf(incoming) \union NodesOf(outgoing) :
          /\ n \notin Running
          /\ incoming' = Erased(incoming, {n})
          /\ outgoing' = Erased(outgoing, {n})
          /\ frames' = Excused({n})
  BY DEF UnregisterXPath, MayGo
<1>2. UNCHANGED <<callbacks, nextNode, fault>>
  BY DEF UnregisterXPath
<1>3. /\ callbacks \in Seq(Entries) /\ ByIds(callbacks, nextNode)
      /\ incoming \in Seq(Queries) /\ LatestFirst(incoming, nextNode)
      /\ outgoing \in Seq(Queries) /\ LatestFirst(outgoing, nextNode)
  BY DEF ContainerInv
<1>4. ContainerInv'
  <2>1. incoming' \in Seq(Queries) /\ LatestFirst(incoming', nextNode)
    BY <1>1, <1>3, ErasedIs, ErasedLatestFirst
  <2>2. outgoing' \in Seq(Queries) /\ LatestFirst(outgoing', nextNode)
    BY <1>1, <1>3, ErasedIs, ErasedLatestFirst
  <2> QED  BY <1>2, <2>1, <2>2 DEF ContainerInv
<1>5. ASSUME NEW i \in DOMAIN frames
      PROVE  FrameIsSound([frames[i] EXCEPT !.due = @ \ {n}],
                          callbacks, incoming', outgoing', nextNode)
  <2> DEFINE f == frames[i]
             g == [f EXCEPT !.due = @ \ {n}]
  <2>1. f \in Frames /\ FrameIsSound(f, callbacks, incoming, outgoing, nextNode)
    BY ElementOfSeq, LenProperties DEF LoopInv, FramesAreSound
  <2>2. f.at \notin {n}
    BY <1>1 DEF Running
  <2> HIDE DEF f
  <2>3. /\ g.run = f.run /\ g.elem = f.elem /\ g.at = f.at /\ g.stop = f.stop
        /\ g.called = f.called /\ g.since = f.since
    BY <2>1, ExcusedIs
  <2>4. f.run = "iq" => AnswerLoop(g, callbacks)
    <3> SUFFICES ASSUME f.run = "iq" PROVE AnswerLoop(g, callbacks)
      OBVIOUS
    <3>1. AnswerLoop(f, callbacks)
      BY <2>1 DEF FrameIsSound
    <3> QED  BY <1>3, <2>1, <3>1, AnswerExcused
  <2>5. f.run = "in" => QueryLoop(g, incoming')
    <3> SUFFICES ASSUME f.run = "in" PROVE QueryLoop(g, Erased(incoming, {n}))
      BY <1>1
    <3>1. QueryLoop(f, incoming)
      BY <2>1 DEF FrameIsSound
    <3> QED  BY <1>3, <2>1, <2>2, <3>1, QueryExcused
  <2>6. f.run = "out" => QueryLoop(g, outgoing')
    <3> SUFFICES ASSUME f.run = "out" PROVE QueryLoop(g, Erased(outgoing, {n}))
      BY <1>1
    <3>1. QueryLoop(f, outgoing)
      BY <2>1 DEF FrameIsSound
    <3> QED  BY <1>3, <2>1, <2>2, <3>1, QueryExcused
  <2> HIDE DEF g
  <2>7. FrameIsSound(g, callbacks, incoming', outgoing', nextNode)
    BY <2>1, <2>3, <2>4, <2>5, <2>6 DEF FrameIsSound, Handlers
  <2> QED  BY <2>7 DEF f, g
<1>6. FramesAreSound(Excused({n}), callbacks, incoming', outgoing', nextNode)
  <2>1. FramesAreSound(frames, callbacks, incoming, outgoing, nextNode)
    BY DEF LoopInv
  <2>2. Among(callbacks, callbacks)
    BY DEF Among
  <2> QED  BY <1>5, <2>1, <2>2, FramesChanged DEF Excused
<1>7. LoopInv'
  BY <1>1, <1>2, <1>6 DEF LoopInv
<1> QED  BY <1>4, <1>7

\* A loop over the outgoing queries that starts is sound.
LEMMA SendingIsSound ==
    ASSUME Inv, NEW elem \in Elements
    PROVE  LET f == Started("out", elem, outgoing)
           IN /\ f \in Frames
              /\ FrameIsSound(f, callbacks, incoming, outgoing, nextNode)
              /\ f.run = "out"
<1> DEFINE f == Started("out", elem, outgoing)
<1>1. outgoing \in Seq(Queries) /\ LatestFirst(outgoing, nextNode) /\ nextNode \in Nat \ {0}
  BY DEF Inv, ContainerInv
<1>2. f \in Frames /\ f.run = "out" /\ f.since = nextNode /\ QueryLoop(f, outgoing)
  BY <1>1, QueryStarted
<1> HIDE DEF f
<1>3. f.since <= nextNode
  BY <1>1, <1>2
<1> QED  BY <1>2, <1>3 DEF FrameIsSound, f

LEMMA SendKeeps ==
    ASSUME Inv, Send
    PROVE  Inv'
<1>1. PICK elem \in Elements : frames' = Append(frames, Started("out", elem, outgoing))
  BY DEF Send
<1>2. UNCHANGED <<callbacks, incoming, outgoing, nextNode, fault>>
  BY DEF Send
<1>3. ContainerInv'
  BY <1>2 DEF Inv, ContainerInv
<1> DEFINE f == Started("out", elem, outgoing)
<1>4. f \in Frames /\ FrameIsSound(f, callbacks, incoming, outgoing, nextNode) /\ f.run = "out"
  BY SendingIsSound
<1>5. FramesAreSound(frames, callbacks, incoming, outgoing, nextNode)
  BY DEF Inv, LoopInv
<1> HIDE DEF f
<1>6. \A i \in DOMAIN frames : LeavesIterators(f, frames[i], callbacks)
  BY <1>4 DEF LeavesIterators
<1>7. FramesAreSound(Append(frames, f), callbacks, incoming, outgoing, nextNode)
  BY <1>4, <1>5, <1>6, FrameAppended
<1>8. LoopInv'
  BY <1>1, <1>2, <1>7 DEF Inv, LoopInv, f
<1> QED  BY <1>3, <1>8 DEF Inv

\* Handlers run when nothing waits for the id, which only an iq has.
LEMMA SignalIsSound ==
    ASSUME Inv, NEW elem \in Elements,
           elem.name = "iq" => \A j \in DOMAIN callbacks : callbacks[j].id # elem.id
    PROVE  /\ Signal(elem) \in Frames
           /\ FrameIsSound(Signal(elem), callbacks, incoming, outgoing, nextNode)
<1> DEFINE f == Signal(elem)
<1>1. nextNode \in Nat /\ callbacks \in Seq(Entries)
  BY DEF Inv, ContainerInv
<1>2. f \in Frames
  <2>1. <<>> \in Seq(Nodes)
    BY EmptySeq
  <2> QED  BY <1>1, <2>1 DEF Frames, Signal
<1>3. f.run = "signal" /\ f.elem = elem /\ f.called = <<>> /\ f.since = 0
  BY DEF Signal
<1>4. \A j \in DOMAIN callbacks : callbacks[j].id # elem.id
  BY <1>1, EntriesAreTyped, FieldsAreTyped
<1> HIDE DEF f
<1>5. FrameIsSound(f, callbacks, incoming, outgoing, nextNode)
  BY <1>1, <1>3, <1>4 DEF FrameIsSound, Handlers
<1> QED  BY <1>2, <1>5 DEF f

\* What is dispatched in a callback takes nothing from under the loops that run.
LEMMA DispatchElementKeeps ==
    ASSUME Habits = {}, Inv, DispatchElement
    PROVE  Inv'
<1>1. PICK elem \in Elements :
          /\ MayGo(Registered(elem.id))
          /\ frames' = Append(frames, IF elem.name = "iq"
                                     THEN Started("iq", elem, callbacks)
                                     ELSE Signal(elem))
  BY DEF DispatchElement
<1>2. UNCHANGED <<callbacks, incoming, outgoing, nextNode, fault>>
  BY DEF DispatchElement
<1>3. ContainerInv'
  BY <1>2 DEF Inv, ContainerInv
<1> DEFINE f == IF elem.name = "iq" THEN Started("iq", elem, callbacks) ELSE Signal(elem)
<1>4. /\ f \in Frames /\ FrameIsSound(f, callbacks, incoming, outgoing, nextNode)
      /\ f.elem = elem
  <2>1. CASE elem.name = "iq"
    <3> DEFINE g == Started("iq", elem, callbacks)
    <3>1. callbacks \in Seq(Entries) /\ ByIds(callbacks, nextNode) /\ nextNode \in Nat \ {0}
      BY DEF Inv, ContainerInv
    <3>2. /\ g \in Frames /\ g.run = "iq" /\ g.elem = elem /\ g.since = nextNode
          /\ AnswerLoop(g, callbacks)
      BY <2>1, <3>1, AnswerStarted
    <3> HIDE DEF g
    <3>3. FrameIsSound(g, callbacks, incoming, outgoing, nextNode)
      BY <3>1, <3>2 DEF FrameIsSound
    <3> QED  BY <2>1, <3>2, <3>3 DEF g
  <2>2. CASE elem.name # "iq"
    <3>1. Signal(elem).elem = elem
      BY DEF Signal
    <3> QED  BY <2>2, <3>1, SignalIsSound
  <2> QED  BY <2>1, <2>2
<1> HIDE DEF f
<1>5. FramesAreSound(frames, callbacks, incoming, outgoing, nextNode)
  BY DEF Inv, LoopInv
<1>6. ASSUME NEW i \in DOMAIN frames PROVE LeavesIterators(f, frames[i], callbacks)
  <2> SUFFICES ASSUME NEW j \in DOMAIN callbacks,
                      callbacks[j].node \in {frames[i].at, frames[i].stop},
                      callbacks[j].id = elem.id
               PROVE  FALSE
    BY <1>4 DEF LeavesIterators
  <2>1. callbacks[j].node \in Registered(elem.id)
    BY DEF Registered
  <2>2. callbacks[j].node # End
    BY EntriesAreTyped, FieldsAreTyped DEF Inv, ContainerInv
  <2>3. callbacks[j].node \in Running \union Stops
    BY <2>2 DEF Running, Stops
  <2> QED  BY <1>1, <2>1, <2>3 DEF MayGo
<1>7. FramesAreSound(Append(frames, f), callbacks, incoming, outgoing, nextNode)
  BY <1>4, <1>5, <1>6, FrameAppended
<1>8. LoopInv'
  BY <1>1, <1>2, <1>7 DEF Inv, LoopInv, f
<1> QED  BY <1>3, <1>8 DEF Inv

\* No loop has lost its way.
LEMMA OutcomeIsNone ==
    ASSUME Inv, InLoop
    PROVE  Outcome = "none"
<1>1. Top \in Frames /\ FrameIsSound(Top, callbacks, incoming, outgoing, nextNode)
      /\ Top.run # "signal"
  BY TopIs DEF Inv, InLoop
<1>2. Top.run \in {"iq", "in", "out"}
  BY <1>1, FieldsAreTyped
<1>3. Live(Container(Top), Top.at) /\ Live(Container(Top), Top.stop)
  <2>1. CASE Top.run = "iq"
    BY <1>1, <2>1 DEF FrameIsSound, AnswerLoop, Container
  <2>2. CASE Top.run = "in"
    BY <1>1, <2>2 DEF FrameIsSound, QueryLoop, Container, Live
  <2>3. CASE Top.run = "out"
    BY <1>1, <2>3 DEF FrameIsSound, QueryLoop, Container, Live
  <2> QED  BY <1>2, <2>1, <2>2, <2>3
<1> QED  BY <1>3 DEF Outcome

LEMMA CallbackReturnsKeeps ==
    ASSUME Inv, CallbackReturns
    PROVE  Inv'
<1>1. /\ InLoop /\ frames # <<>> /\ Top.run = "iq" /\ Top.at # Top.stop
      /\ callbacks' = Erased(callbacks, {Top.at})
      /\ fault' = "none"
      /\ UNCHANGED <<incoming, outgoing, nextNode>>
  BY OutcomeIsNone DEF CallbackReturns, InCall, InLoop
<1> DEFINE f == Top
           g == [f EXCEPT !.due = @ \ {f.at}, !.called = Append(@, f.at)]
           b == Erased(callbacks, {f.at})
           r == [g EXCEPT !.at = Walk(g, b, PositionOf(callbacks, f.at))]
<1>2. frames' = Replaced(r)
  BY <1>1 DEF CallbackReturns, Advanced
<1>3. callbacks \in Seq(Entries) /\ ByIds(callbacks, nextNode)
  BY DEF Inv, ContainerInv
<1>4. ContainerInv'
  <2>1. callbacks' \in Seq(Entries) /\ ByIds(callbacks', nextNode)
    BY <1>1, <1>3, ErasedIs, ErasedByIds
  <2> QED  BY <1>1, <2>1 DEF Inv, ContainerInv
<1>5. /\ f \in Frames /\ FrameIsSound(f, callbacks, incoming, outgoing, nextNode)
      /\ DOMAIN frames = 1..Len(frames) /\ Len(frames) \in Nat \ {0}
  BY <1>1, TopIs DEF Inv
<1>6. AnswerLoop(f, callbacks) /\ f.since <= nextNode
  BY <1>1, <1>5 DEF FrameIsSound
<1>7. /\ frames \in Seq(Frames) /\ f = frames[Len(frames)]
      /\ \A i \in DOMAIN frames : FrameIsSound(frames[i], callbacks, incoming, outgoing, nextNode)
      /\ \A i, k \in DOMAIN frames : i < k => LeavesIterators(frames[k], frames[i], callbacks)
  BY DEF Inv, LoopInv, FramesAreSound, Top
<1> HIDE DEF f
<1>8. /\ r \in Frames /\ r.run = f.run /\ r.elem = f.elem /\ r.since = f.since
      /\ AnswerLoop(r, b)
  BY <1>1, <1>3, <1>5, <1>6, AnswerCalled DEF f
<1> HIDE DEF r
<1>9. FrameIsSound(r, callbacks', incoming, outgoing, nextNode)
  BY <1>1, <1>6, <1>8 DEF FrameIsSound, f
<1>10. \A j \in DOMAIN callbacks' : \E k \in DOMAIN callbacks : callbacks'[j] = callbacks[k]
  <2>1. PICK h : WhatIsLeft(b, callbacks, {f.at}, h)
    BY <1>3, ErasedIs
  <2> QED  BY <1>1, <2>1 DEF WhatIsLeft, f
\* The loops that wait for this one to end keep their iterators and their calls.
<1>11. ASSUME NEW i \in DOMAIN frames, i # Len(frames)
       PROVE  FrameIsSound(frames[i], callbacks', incoming, outgoing, nextNode)
  <2> DEFINE o == frames[i]
  <2>1. /\ o \in Frames /\ FrameIsSound(o, callbacks, incoming, outgoing, nextNode)
        /\ LeavesIterators(f, o, callbacks)
    BY <1>5, <1>7, <1>11, ElementOfSeq
  <2> HIDE DEF o
  <2>2. \A j \in DOMAIN callbacks' : callbacks'[j].id # o.elem.id
           \/ \E k \in DOMAIN callbacks : callbacks[k].id = o.elem.id
    BY <1>10
  <2>3. ASSUME o.run = "iq" PROVE AnswerLoop(o, b)
    <3>1. AnswerLoop(o, callbacks)
      BY <2>1, <2>3 DEF FrameIsSound
    <3>2. PICK p \in DOMAIN callbacks : callbacks[p].node = f.at /\ callbacks[p].id = f.elem.id
      BY <1>1, <1>6 DEF AnswerLoop, f
    <3>3. \A j \in DOMAIN callbacks :
              callbacks[j].node \in {o.at, o.stop} => callbacks[j].id # f.elem.id
      BY <1>1, <2>1, <2>3 DEF LeavesIterators, f
    <3>4. o.at \notin {f.at} /\ o.stop \notin {f.at}
      BY <3>2, <3>3
    <3>5. f.at \notin o.due
      <4> SUFFICES ASSUME f.at \in o.due PROVE FALSE
        OBVIOUS
      <4>1. PICK j \in DOMAIN callbacks : callbacks[j].node = f.at /\ callbacks[j].id = o.elem.id
        BY <3>1 DEF AnswerLoop
      <4>2. j = p
        BY <1>3, <3>2, <4>1 DEF ByIds
      <4>3. o.at # o.stop
        BY <3>1, <4>1 DEF AnswerLoop
      <4>4. PICK k \in DOMAIN callbacks : callbacks[k].node = o.at /\ callbacks[k].id = o.elem.id
        BY <3>1, <4>3 DEF AnswerLoop
      <4> QED  BY <3>2, <3>3, <4>1, <4>2, <4>4
    <3> DEFINE x == [o EXCEPT !.due = @ \ {f.at}]
    <3>6. AnswerLoop(x, b)
      BY <1>3, <2>1, <3>1, <3>4, AnswerExcused
    <3>7. x = o
      <4>1. o.due \ {f.at} = o.due
        BY <3>5
      <4>2. [o EXCEPT !.due = o.due] = o
        BY <2>1 DEF Frames
      <4> QED  BY <4>1, <4>2
    <3> QED  BY <3>6, <3>7
  <2>4. o.run = "iq" => AnswerLoop(o, callbacks')
    BY <1>1, <2>3 DEF f
  <2> QED  BY <2>1, <2>2, <2>4 DEF FrameIsSound, o
<1>12. FramesAreSound(frames', callbacks', incoming, outgoing, nextNode)
  <2>1. Len(frames) \in DOMAIN frames /\ DOMAIN frames \subseteq Nat
    BY <1>5
  <2>2. frames' \in Seq(Frames) /\ DOMAIN frames' = DOMAIN frames
    BY <1>2, <1>5, <1>7, <1>8, <2>1 DEF Replaced
  <2>3. \A i \in DOMAIN frames : frames'[i] = IF i = Len(frames) THEN r ELSE frames[i]
    BY <1>2, <1>5, <1>7 DEF Replaced
  <2>4. ASSUME NEW i \in DOMAIN frames
        PROVE  FrameIsSound(frames'[i], callbacks', incoming, outgoing, nextNode)
    BY <1>9, <1>11, <2>3
  <2>5. ASSUME NEW i \in DOMAIN frames, NEW k \in DOMAIN frames, i < k
        PROVE  LeavesIterators(frames'[k], frames'[i], callbacks')
    <3>1. frames'[i] = frames[i] /\ LeavesIterators(frames[k], frames[i], callbacks)
      BY <1>5, <1>7, <2>3, <2>5
    <3>2. frames'[k].run = frames[k].run /\ frames'[k].elem = frames[k].elem
      BY <1>7, <1>8, <2>3
    <3> QED  BY <1>10, <3>1, <3>2 DEF LeavesIterators
  <2> QED  BY <2>2, <2>4, <2>5 DEF FramesAreSound
<1>13. LoopInv'
  BY <1>1, <1>12 DEF LoopInv
<1> QED  BY <1>4, <1>13 DEF Inv

LEMMA QueryReturnsKeeps ==
    ASSUME Inv, QueryReturns
    PROVE  Inv'
<1>1. /\ InLoop /\ frames # <<>> /\ Top.run \in {"in", "out"} /\ Top.at # Top.stop
      /\ fault' = "none"
      /\ UNCHANGED <<callbacks, incoming, outgoing, nextNode>>
  BY OutcomeIsNone DEF QueryReturns, InCall, InLoop
<1> DEFINE f == Top
           c == Container(f)
           g == [f EXCEPT !.due = @ \ {f.at}, !.called = Append(@, f.at)]
           r == [g EXCEPT !.at = Walk(g, c, PositionOf(c, f.at) + 1)]
<1>2. frames' = Replaced(r)
  BY <1>1 DEF QueryReturns, Advanced
<1>3. ContainerInv'
  BY <1>1 DEF Inv, ContainerInv
<1>4. f \in Frames /\ FrameIsSound(f, callbacks, incoming, outgoing, nextNode)
  BY <1>1, TopIs DEF Inv
<1>5. /\ c = (IF f.run = "in" THEN incoming ELSE outgoing)
      /\ c \in Seq(Queries) /\ LatestFirst(c, nextNode) /\ QueryLoop(f, c)
  <2>1. /\ incoming \in Seq(Queries) /\ LatestFirst(incoming, nextNode)
        /\ outgoing \in Seq(Queries) /\ LatestFirst(outgoing, nextNode)
    BY DEF Inv, ContainerInv
  <2>2. CASE f.run = "in"
    <3>1. c = incoming
      BY <2>2 DEF Container
    <3> QED  BY <1>4, <2>1, <2>2, <3>1 DEF FrameIsSound
  <2>3. CASE f.run = "out"
    <3>1. c = outgoing
      BY <2>3 DEF Container
    <3> QED  BY <1>4, <2>1, <2>3, <3>1 DEF FrameIsSound
  <2> QED  BY <1>1, <2>2, <2>3
<1> HIDE DEF f, c
<1>6. /\ r \in Frames /\ r.run = f.run /\ r.elem = f.elem /\ r.since = f.since
      /\ QueryLoop(r, c)
  BY <1>1, <1>4, <1>5, QueryCalled DEF f
<1> HIDE DEF r
<1>7. FrameIsSound(r, callbacks, incoming, outgoing, nextNode)
  BY <1>1, <1>4, <1>5, <1>6 DEF FrameIsSound, f
<1>8. FramesAreSound(frames, callbacks, incoming, outgoing, nextNode)
  BY DEF Inv, LoopInv
<1>9. FramesAreSound(Replaced(r), callbacks, incoming, outgoing, nextNode)
  BY <1>1, <1>6, <1>7, <1>8, FrameReplaced DEF Replaced, f
<1>10. LoopInv'
  BY <1>1, <1>2, <1>9 DEF LoopInv
<1> QED  BY <1>3, <1>10 DEF Inv

LEMMA IQLoopEndsKeeps ==
    ASSUME Inv, IQLoopEnds
    PROVE  Inv'
<1>1. /\ frames # <<>> /\ Top.run = "iq" /\ Top.at = Top.stop
      /\ frames' = Replaced(Signal(Top.elem))
      /\ UNCHANGED <<callbacks, incoming, outgoing, nextNode, fault>>
  BY DEF IQLoopEnds, LoopIsOver, InLoop
<1>2. ContainerInv'
  BY <1>1 DEF Inv, ContainerInv
<1>3. /\ Top \in Frames /\ FrameIsSound(Top, callbacks, incoming, outgoing, nextNode)
      /\ Len(frames) \in Nat
  BY <1>1, TopIs DEF Inv
<1>4. \A j \in DOMAIN callbacks : callbacks[j].id # Top.elem.id
  BY <1>1, <1>3 DEF FrameIsSound, AnswerLoop
<1>5. Top.elem \in Elements
  BY <1>3, FieldsAreTyped
<1> DEFINE f == Signal(Top.elem)
<1>6. f \in Frames /\ FrameIsSound(f, callbacks, incoming, outgoing, nextNode) /\ f.run # "iq"
  BY <1>4, <1>5, SignalIsSound DEF Signal
<1>7. FramesAreSound(frames, callbacks, incoming, outgoing, nextNode)
  BY DEF Inv, LoopInv
<1> HIDE DEF f
<1>8. FramesAreSound(Replaced(f), callbacks, incoming, outgoing, nextNode)
  BY <1>1, <1>4, <1>6, <1>7, FrameReplaced DEF Replaced
<1>9. LoopInv'
  BY <1>1, <1>8 DEF Inv, LoopInv, f
<1> QED  BY <1>2, <1>9 DEF Inv

LEMMA SignalReturnsKeeps ==
    ASSUME Inv, SignalReturns
    PROVE  Inv'
<1> DEFINE elem    == Top.elem
           queries == Started("in", elem, incoming)
           answer  == [elem EXCEPT !.asks = FALSE]
           sent    == Started("out", answer, outgoing)
<1>1. /\ frames # <<>> /\ Top.run = "signal"
      /\ frames' = IF elem.asks THEN Append(Replaced(Signal(answer)), sent)
                                ELSE Replaced(queries)
      /\ UNCHANGED <<callbacks, incoming, outgoing, nextNode, fault>>
  BY DEF SignalReturns
<1>2. ContainerInv'
  BY <1>1 DEF Inv, ContainerInv
<1>3. /\ Top \in Frames /\ FrameIsSound(Top, callbacks, incoming, outgoing, nextNode)
      /\ Len(frames) \in Nat
  BY <1>1, TopIs DEF Inv
<1>4. \A j \in DOMAIN callbacks : callbacks[j].id # elem.id
  BY <1>1, <1>3 DEF FrameIsSound
<1>5. elem \in Elements
  BY <1>3, FieldsAreTyped
<1>6. FramesAreSound(frames, callbacks, incoming, outgoing, nextNode)
  BY DEF Inv, LoopInv
<1>7. frames \in Seq(Frames)
  BY <1>6 DEF FramesAreSound
<1> HIDE DEF elem, queries, sent
<1>8. CASE elem.asks
  <2>1. answer \in Elements /\ answer.id = elem.id
    <3>1. elem.name = "iq"
      BY <1>5, <1>8, FieldsAreTyped
    <3> QED  BY <1>5, <3>1 DEF Elements, Names
  <2> HIDE DEF answer
  <2>2. Signal(answer) \in Frames
        /\ FrameIsSound(Signal(answer), callbacks, incoming, outgoing, nextNode)
        /\ Signal(answer).run # "iq"
    BY <1>4, <2>1, SignalIsSound DEF Signal
  <2> DEFINE s == Replaced(Signal(answer))
  <2>3. FramesAreSound(s, callbacks, incoming, outgoing, nextNode)
    BY <1>1, <1>4, <1>6, <2>2, FrameReplaced DEF Replaced
  <2> HIDE DEF s
  <2>4. /\ sent \in Frames /\ FrameIsSound(sent, callbacks, incoming, outgoing, nextNode)
        /\ sent.run = "out"
    BY <2>1, SendingIsSound DEF sent
  <2>5. \A i \in DOMAIN s : LeavesIterators(sent, s[i], callbacks)
    BY <2>4 DEF LeavesIterators
  <2>6. FramesAreSound(Append(s, sent), callbacks, incoming, outgoing, nextNode)
    BY <2>3, <2>4, <2>5, FrameAppended
  <2> QED  BY <1>1, <1>2, <1>8, <2>6 DEF Inv, LoopInv, s
<1>9. CASE ~ elem.asks
  <2>1. incoming \in Seq(Queries) /\ LatestFirst(incoming, nextNode) /\ nextNode \in Nat \ {0}
    BY DEF Inv, ContainerInv
  <2>2. /\ queries \in Frames /\ queries.run = "in" /\ queries.elem = elem
        /\ queries.since = nextNode /\ QueryLoop(queries, incoming)
    BY <1>5, <2>1, QueryStarted DEF queries
  <2>3. FrameIsSound(queries, callbacks, incoming, outgoing, nextNode)
    BY <1>4, <2>1, <2>2 DEF FrameIsSound
  <2>4. FramesAreSound(Replaced(queries), callbacks, incoming, outgoing, nextNode)
    BY <1>1, <1>4, <1>6, <2>2, <2>3, FrameReplaced DEF Replaced
  <2> QED  BY <1>1, <1>2, <1>9, <2>4 DEF Inv, LoopInv
<1> QED  BY <1>8, <1>9

LEMMA QueriesEndKeeps ==
    ASSUME Inv, QueriesEnd
    PROVE  Inv'
<1>1. /\ frames # <<>> /\ frames' = Popped
      /\ UNCHANGED <<callbacks, incoming, outgoing, nextNode, fault>>
  BY DEF QueriesEnd, LoopIsOver, InLoop
<1>2. ContainerInv'
  BY <1>1 DEF Inv, ContainerInv
<1>3. FramesAreSound(frames, callbacks, incoming, outgoing, nextNode)
  BY DEF Inv, LoopInv
<1>4. FramesAreSound(Popped, callbacks, incoming, outgoing, nextNode)
  BY <1>1, <1>3, FramePopped DEF Popped
<1>5. LoopInv'
  BY <1>1, <1>4 DEF Inv, LoopInv
<1> QED  BY <1>2, <1>5 DEF Inv

LEMMA StepKeeps ==
    ASSUME Habits = {}, Inv, [Next]_vars
    PROVE  Inv'
<1>1. CASE UNCHANGED vars
  BY <1>1 DEF vars, Inv, ContainerInv, LoopInv
<1>2. CASE Next
  BY <1>2, RegisterIQKeeps, UnregisterIQKeeps, RegisterXPathKeeps, UnregisterXPathKeeps,
     SendKeeps, DispatchElementKeeps, CallbackReturnsKeeps, QueryReturnsKeeps, IQLoopEndsKeeps,
     SignalReturnsKeeps, QueriesEndKeeps
  DEF Next
<1> QED  BY <1>1, <1>2

-----------------------------------------------------------------------------
(* The theorems. *)

\* The containers are in order and every loop knows its own, in all states.
LEMMA LoopsAreSound == Habits = {} => (Spec => []Inv)
<1> SUFFICES ASSUME Habits = {} PROVE Spec => []Inv
  OBVIOUS
<1>1. Init => Inv
  BY InitEstablishes
<1>2. Inv /\ [Next]_vars => Inv'
  BY StepKeeps
<1> QED  BY <1>1, <1>2, PTL DEF Spec

\* A container has as many nodes as places.
LEMMA NodesAreCounted ==
    ASSUME NEW S, NEW c \in Seq(S), \A j, k \in DOMAIN c : c[j].node = c[k].node => j = k
    PROVE  Cardinality(NodesOf(c)) = Len(c)
<1> DEFINE b == [j \in 1..Len(c) |-> c[j].node]
<1>1. DOMAIN c = 1..Len(c) /\ Len(c) \in Nat
  BY LenProperties
<1>2. b \in Bijection(1..Len(c), NodesOf(c))
  BY <1>1 DEF Bijection, Injection, Surjection, IsInjective, NodesOf
<1>3. IsFiniteSet(1..Len(c)) /\ Cardinality(1..Len(c)) = Len(c)
  BY <1>1, FS_Interval
<1>4. ExistsBijection(1..Len(c), NodesOf(c))
  BY <1>2 DEF ExistsBijection
<1> QED  BY <1>3, <1>4, FS_Bijection

\* TypeOK: the types, and that every registration is in one container once and those
\* of iqs are in the order equal_range() relies on.
THEOREM TypeOKAlways == Habits = {} => (Spec => []TypeOK)
<1> SUFFICES ASSUME Habits = {} PROVE Spec => []TypeOK
  OBVIOUS
<1>1. ASSUME Inv PROVE TypeOK
  <2>1. ContainerInv /\ LoopInv
    BY <1>1 DEF Inv
  <2>2. Cardinality(NodesOf(callbacks)) = Len(callbacks)
    BY <2>1, NodesAreCounted DEF ContainerInv, ByIds
  <2>3. ASSUME NEW c \in {incoming, outgoing} PROVE Cardinality(NodesOf(c)) = Len(c)
    <3>1. c \in Seq(Queries) /\ LatestFirst(c, nextNode)
      BY <2>1 DEF ContainerInv
    <3>2. \A j, k \in DOMAIN c : c[j].node = c[k].node => j = k
      BY <3>1, LatestFirstIsUnique
    <3> QED  BY <3>1, <3>2, NodesAreCounted
  <2>4. \A i, j \in DOMAIN callbacks : i < j => callbacks[i].id <= callbacks[j].id
    BY <2>1 DEF ContainerInv, ByIds
  <2>5. frames \in Seq(Frames) /\ fault \in {"none", "dangling"}
    BY <2>1 DEF LoopInv, FramesAreSound
  <2> QED  BY <2>1, <2>2, <2>3, <2>4, <2>5 DEF TypeOK, ContainerInv
<1> QED  BY <1>1, LoopsAreSound, PTL

\* EachIsToldOnce: nothing is called twice, nothing that came later, nothing that
\* waits for another id, and a loop that ends has called all it had to.
THEOREM EachIsToldOnceAlways == Habits = {} => (Spec => []EachIsToldOnce)
<1> SUFFICES ASSUME Habits = {} PROVE Spec => []EachIsToldOnce
  OBVIOUS
<1>1. ASSUME Inv PROVE EachIsToldOnce
  <2>1. ASSUME NEW i \in DOMAIN frames
        PROVE  LET called == frames[i].called
               IN \A j, k \in DOMAIN called : /\ called[j] < frames[i].since
                                              /\ (called[j] = called[k] => j = k)
    <3> DEFINE f == frames[i]
    <3>1. f \in Frames /\ FrameIsSound(f, callbacks, incoming, outgoing, nextNode)
      BY <1>1, ElementOfSeq, LenProperties DEF Inv, LoopInv, FramesAreSound
    <3>2. /\ f.run \in {"iq", "signal", "in", "out"} /\ f.called \in Seq(Nodes)
          /\ Nodes \subseteq Nat
      BY <3>1, FieldsAreTyped
    <3>3. DOMAIN f.called \subseteq Nat /\ \A j \in DOMAIN f.called : f.called[j] \in Nat
      <4> DEFINE q == f.called
      <4> HIDE DEF f, q
      <4>1. q \in Seq(Nodes)
        BY <3>2 DEF q
      <4>2. DOMAIN q \subseteq Nat /\ \A j \in DOMAIN q : q[j] \in Nodes
        BY <4>1, LenProperties, ElementOfSeq
      <4> QED  BY <3>2, <4>2 DEF q
    <3> HIDE DEF f
    <3>4. CASE f.run = "iq"
      BY <3>1, <3>4 DEF FrameIsSound, AnswerLoop, f
    <3>5. CASE f.run = "signal"
      <4>1. DOMAIN f.called = {}
        BY <3>1, <3>5 DEF FrameIsSound, Handlers
      <4> QED  BY <4>1 DEF f
    <3>6. CASE f.run \in {"in", "out"}
      <4>1. /\ \A j \in DOMAIN f.called : f.called[j] < f.since
            /\ \A j, k \in DOMAIN f.called : j < k => f.called[k] < f.called[j]
        BY <3>1, <3>6 DEF FrameIsSound, QueryLoop
      <4>2. ASSUME NEW j \in DOMAIN f.called, NEW k \in DOMAIN f.called,
                   f.called[j] = f.called[k]
            PROVE  j = k
        <5>1. j \in Nat /\ k \in Nat /\ f.called[j] \in Nat
          BY <3>3
        <5>2. ~ (j < k) /\ ~ (k < j)
          BY <3>3, <4>1, <4>2
        <5> QED  BY <5>1, <5>2
      <4> QED  BY <4>1, <4>2 DEF f
    <3> QED  BY <3>2, <3>4, <3>5, <3>6
  <2>2. ASSUME InLoop
        PROVE  /\ Top \in Frames
               /\ FrameIsSound(Top, callbacks, incoming, outgoing, nextNode)
               /\ Top.run \in {"iq", "in", "out"}
    <3>1. Top \in Frames /\ FrameIsSound(Top, callbacks, incoming, outgoing, nextNode)
      BY <1>1, <2>2, TopIs DEF Inv, InLoop
    <3> QED  BY <2>2, <3>1, FieldsAreTyped DEF InLoop
  <2>3. ASSUME InCall, Top.run = "iq", NEW j \in DOMAIN callbacks, callbacks[j].node = Top.at
        PROVE  callbacks[j].id = Top.elem.id
    <3>1. AnswerLoop(Top, callbacks) /\ Top.at # Top.stop
      BY <2>2, <2>3 DEF InCall, FrameIsSound
    <3>2. PICK k \in DOMAIN callbacks : callbacks[k].node = Top.at /\ callbacks[k].id = Top.elem.id
      BY <3>1 DEF AnswerLoop
    <3>3. j = k
      BY <1>1, <2>3, <3>2 DEF Inv, ContainerInv, ByIds
    <3> QED  BY <3>2, <3>3
  <2>4. ASSUME LoopIsOver PROVE Top.due = {}
    <3> SUFFICES ASSUME NEW d \in Top.due PROVE FALSE
      OBVIOUS
    <3>1. Top.at = Top.stop /\ InLoop
      BY <2>4 DEF LoopIsOver
    <3>2. CASE Top.run = "iq"
      BY <2>2, <3>1, <3>2 DEF FrameIsSound, AnswerLoop
    <3>3. CASE Top.run \in {"in", "out"}
      <4>1. d <= Top.at /\ Top.stop = End
        BY <2>2, <3>1, <3>3 DEF FrameIsSound, QueryLoop
      <4>2. d \in Nodes
        BY <2>2, <3>1, FieldsAreTyped
      <4> QED  BY <3>1, <4>1, <4>2, DispatchAssumption DEF Nodes, End
    <3> QED  BY <2>2, <3>1, <3>2, <3>3
  <2> QED  BY <2>1, <2>3, <2>4 DEF EachIsToldOnce
<1> QED  BY <1>1, LoopsAreSound, PTL

\* AnswersAreTakenUp: when an iq has come to the signals and to the queries, no
\* callback is left under its id, also when it was dispatched within a callback of
\* another or others were within its own.
THEOREM AnswersAreTakenUpAlways == Habits = {} => (Spec => []AnswersAreTakenUp)
<1> SUFFICES ASSUME Habits = {} PROVE Spec => []AnswersAreTakenUp
  OBVIOUS
<1>1. Inv => AnswersAreTakenUp
  BY DEF AnswersAreTakenUp, Inv, LoopInv, FramesAreSound, FrameIsSound
<1> QED  BY <1>1, LoopsAreSound, PTL
=============================================================================
