-------------------------- MODULE PresenceDB_proofs --------------------------
(***************************************************************************)
(* For any JabberIDs and priorities: the lists of the database are sound,   *)
(* and they implement the latest presence of every JabberID.                *)
(***************************************************************************)
EXTENDS PresenceDB, Lists_proofs

\* What is in a list: nobody sent "I am not here".
There == {p \in Presences : p.type \notin Absent}

\* The list of b: of its own resources, each of them once, the highest priority first.
SoundList(b, list) ==
    /\ list \in Seq(There)
    /\ \A i \in 1..Len(list) : list[i].from.bare = b
    /\ \A i, k \in 1..Len(list) : list[i].from = list[k].from => i = k
    /\ \A i, k \in 1..Len(list) : i < k => list[k].priority <= list[i].priority

IInv ==
    /\ DOMAIN db \subseteq Bares
    /\ \A b \in DOMAIN db : SoundList(b, db[b]) /\ db[b] # <<>>

-----------------------------------------------------------------------------
\* The library's operators on sequences, by position.
LEMMA RemoveAtProperties ==
    ASSUME NEW S, NEW s \in Seq(S), NEW i \in 1..Len(s)
    PROVE  /\ RemoveAt(s, i) \in Seq(S)
           /\ Len(RemoveAt(s, i)) = Len(s) - 1
           /\ \A k \in 1..(Len(s) - 1) :
                 RemoveAt(s, i)[k] = IF k < i THEN s[k] ELSE s[k + 1]
<1> DEFINE a == SubSeq(s, 1, i - 1)
           z == SubSeq(s, i + 1, Len(s))
<1>1. Len(s) \in Nat /\ i \in Int /\ \A k \in 1..Len(s) : s[k] \in S
  BY LenProperties, ElementOfSeq
<1>2. a \in Seq(S) /\ Len(a) = i - 1 /\ \A k \in 1..(i - 1) : a[k] = s[k]
  BY <1>1, SubSeqProperties
<1>3. /\ z \in Seq(S) /\ Len(z) = Len(s) - i
      /\ \A k \in 1..(Len(s) - i) : z[k] = s[i + k]
  BY <1>1, SubSeqProperties
<1> HIDE DEF a, z
<1>4. /\ a \o z \in Seq(S) /\ Len(a \o z) = Len(s) - 1
      /\ \A k \in 1..(Len(s) - 1) : (a \o z)[k] = IF k <= i - 1 THEN a[k] ELSE z[k - (i - 1)]
  BY <1>1, <1>2, <1>3, ConcatProperties
<1>5. ASSUME NEW k \in 1..(Len(s) - 1)
      PROVE  (a \o z)[k] = IF k < i THEN s[k] ELSE s[k + 1]
  <2>1. CASE k < i
    BY <1>1, <1>2, <1>4, <2>1
  <2>2. CASE i <= k
    <3>1. k - (i - 1) \in 1..(Len(s) - i) /\ i + (k - (i - 1)) = k + 1
      BY <1>1, <2>2
    <3>2. (a \o z)[k] = z[k - (i - 1)]
      BY <1>1, <1>4, <2>2
    <3>3. z[k - (i - 1)] = s[i + (k - (i - 1))]
      BY <1>3, <3>1
    <3> QED  BY <1>1, <2>2, <3>1, <3>2, <3>3
  <2>3. k < i \/ i <= k
    BY <1>1
  <2> QED  BY <2>1, <2>2, <2>3
<1>6. RemoveAt(s, i) = a \o z
  BY DEF RemoveAt, a, z
<1> QED  BY <1>4, <1>5, <1>6

\* An insertion moves what is behind it by one.
LEMMA InsertAtProperties ==
    ASSUME NEW S, NEW s \in Seq(S), NEW i \in 1..(Len(s) + 1), NEW e \in S
    PROVE  /\ InsertAt(s, i, e) \in Seq(S)
           /\ Len(InsertAt(s, i, e)) = Len(s) + 1
           /\ \A k \in 1..(Len(s) + 1) :
                 InsertAt(s, i, e)[k] =
                     IF k < i THEN s[k] ELSE IF k = i THEN e ELSE s[k - 1]
<1> DEFINE a == SubSeq(s, 1, i - 1)
           m == <<e>>
           z == SubSeq(s, i, Len(s))
<1>1. Len(s) \in Nat /\ i \in Int /\ \A k \in 1..Len(s) : s[k] \in S
  BY LenProperties, ElementOfSeq
<1>2. a \in Seq(S) /\ Len(a) = i - 1 /\ \A k \in 1..(i - 1) : a[k] = s[k]
  BY <1>1, SubSeqProperties
<1>3. /\ z \in Seq(S) /\ Len(z) = Len(s) + 1 - i
      /\ \A k \in 1..(Len(s) + 1 - i) : z[k] = s[i + k - 1]
  BY <1>1, SubSeqProperties
<1>4. m \in Seq(S) /\ Len(m) = 1 /\ m[1] = e
  OBVIOUS
<1> HIDE DEF a, m, z
<1>5. /\ a \o m \in Seq(S) /\ Len(a \o m) = i
      /\ \A k \in 1..i : (a \o m)[k] = IF k < i THEN s[k] ELSE e
  <2>1. /\ a \o m \in Seq(S) /\ Len(a \o m) = Len(a) + Len(m)
        /\ \A k \in 1..(Len(a) + Len(m)) :
              (a \o m)[k] = IF k <= Len(a) THEN a[k] ELSE m[k - Len(a)]
    BY <1>2, <1>4, ConcatProperties
  <2>2. ASSUME NEW k \in 1..i PROVE (a \o m)[k] = IF k < i THEN s[k] ELSE e
    <3>1. CASE k < i
      BY <1>1, <1>2, <1>4, <2>1, <3>1
    <3>2. CASE k = i
      <4>1. (a \o m)[k] = m[k - Len(a)] /\ k - Len(a) = 1
        BY <1>1, <1>2, <1>4, <2>1, <3>2
      <4> QED  BY <1>1, <1>4, <3>2, <4>1
    <3>3. k < i \/ k = i
      BY <1>1
    <3> QED  BY <3>1, <3>2, <3>3
  <2> QED  BY <1>1, <1>2, <1>4, <2>1, <2>2
<1>6. /\ (a \o m) \o z \in Seq(S) /\ Len((a \o m) \o z) = Len(s) + 1
      /\ \A k \in 1..(Len(s) + 1) :
            ((a \o m) \o z)[k] = IF k <= i THEN (a \o m)[k] ELSE z[k - i]
  BY <1>1, <1>3, <1>5, ConcatProperties
<1>7. ASSUME NEW k \in 1..(Len(s) + 1)
      PROVE  ((a \o m) \o z)[k] = IF k < i THEN s[k] ELSE IF k = i THEN e ELSE s[k - 1]
  <2>1. CASE k <= i
    BY <1>1, <1>5, <1>6, <2>1
  <2>2. CASE k > i
    <3>1. k - i \in 1..(Len(s) + 1 - i) /\ i + (k - i) - 1 = k - 1
      BY <1>1, <2>2
    <3>2. ((a \o m) \o z)[k] = z[k - i]
      BY <1>1, <1>6, <2>2
    <3>3. z[k - i] = s[i + (k - i) - 1]
      BY <1>3, <3>1
    <3> QED  BY <1>1, <2>2, <3>1, <3>2, <3>3
  <2>3. k <= i \/ k > i
    BY <1>1
  <2> QED  BY <2>1, <2>2, <2>3
<1>8. InsertAt(s, i, e) = (a \o m) \o z
  BY DEF InsertAt, a, m, z
<1> QED  BY <1>6, <1>7, <1>8

\* Where the presence of a JabberID is, or that it is not there.
LEMMA PositionProperties ==
    ASSUME NEW list \in Seq(There), NEW j
    PROVE  /\ Position(list, j) \in 0..Len(list)
           /\ Position(list, j) = 0 => \A i \in 1..Len(list) : list[i].from # j
           /\ Position(list, j) # 0 => list[Position(list, j)].from = j
<1> DEFINE I == {i \in 1..Len(list) : list[i].from = j}
<1>1. Position(list, j) = IF I # {} THEN Min(I) ELSE 0
  BY DEF Position, SelectInSeq
<1>2. Len(list) \in Nat
  BY LenProperties
<1>3. CASE I = {}
  BY <1>1, <1>2, <1>3
<1>4. CASE I # {}
  <2>1. I \subseteq Nat
    BY <1>2
  <2>2. \E m \in I : \A n \in I : m <= n
    BY <1>4, <2>1, LeastNatural
  <2> HIDE DEF I
  <2>3. Min(I) \in I
    BY <2>2 DEF Min
  <2> QED  BY <1>1, <1>2, <1>4, <2>3 DEF I
<1> QED  BY <1>3, <1>4

\* Where a presence goes: what is before it has a higher priority, what is behind
\* it has not.
LEMMA InsertionPointProperties ==
    ASSUME NEW list \in Seq(There), NEW n \in Int,
           \A i, k \in 1..Len(list) : i < k => list[k].priority <= list[i].priority
    PROVE  /\ InsertionPoint(list, n) \in 1..(Len(list) + 1)
           /\ \A i \in 1..Len(list) : i < InsertionPoint(list, n) => list[i].priority > n
           /\ \A i \in 1..Len(list) : InsertionPoint(list, n) <= i => list[i].priority <= n
<1> DEFINE I == {i \in 1..Len(list) : list[i].priority <= n}
           at == InsertionPoint(list, n)
<1>1. at = IF (IF I # {} THEN Min(I) ELSE 0) = 0 THEN Len(list) + 1
           ELSE IF I # {} THEN Min(I) ELSE 0
  BY DEF InsertionPoint, SelectInSeq
<1>2. Len(list) \in Nat
  BY LenProperties
<1>3. \A i \in 1..Len(list) : list[i].priority \in Int
  <2>1. \A i \in 1..Len(list) : list[i] \in There
    BY ElementOfSeq
  <2> QED  BY <2>1, PresenceAssumption DEF There, Presences
<1> HIDE DEF at
<1>4. CASE I = {}
  <2>1. at = Len(list) + 1
    BY <1>1, <1>4
  <2>2. \A i \in 1..Len(list) : list[i].priority > n
    BY <1>3, <1>4
  <2> QED  BY <1>2, <2>1, <2>2 DEF at
<1>5. CASE I # {}
  <2>1. I \subseteq Nat
    BY <1>2
  <2>2. \E m \in I : \A k \in I : m <= k
    BY <1>5, <2>1, LeastNatural
  <2>3. Min(I) \in I /\ \A k \in I : Min(I) <= k
    <3> HIDE DEF I
    <3> QED  BY <2>2 DEF Min
  <2>4. at = Min(I) /\ at \in 1..Len(list) /\ list[at].priority <= n
    BY <1>1, <1>2, <1>5, <2>3
  <2>5. ASSUME NEW i \in 1..Len(list), i < at PROVE list[i].priority > n
    <3>1. i \notin I
      <4> HIDE DEF I
      <4> QED  BY <1>2, <2>3, <2>4, <2>5
    <3> QED  BY <1>3, <3>1
  <2>6. ASSUME NEW i \in 1..Len(list), at <= i PROVE list[i].priority <= n
    <3>1. list[i].priority <= list[at].priority
      BY <1>2, <1>3, <2>4, <2>6
    <3> QED  BY <1>3, <2>4, <3>1
  <2> QED  BY <1>2, <2>4, <2>5, <2>6 DEF at
<1> QED  BY <1>4, <1>5

-----------------------------------------------------------------------------
\* The presences of a list.
Members(list) == {list[i] : i \in 1..Len(list)}

\* A list without j is sound, and lacks nothing else.
LEMMA WithoutIsSound ==
    ASSUME NEW b, NEW list, SoundList(b, list), NEW j
    PROVE  /\ SoundList(b, Without(list, j))
           /\ Members(Without(list, j)) = {q \in Members(list) : q.from # j}
<1> USE DEF SoundList
<1> DEFINE at == Position(list, j)
<1>1. /\ list \in Seq(There) /\ Len(list) \in Nat
      /\ \A i \in 1..Len(list) : list[i] \in There
  BY LenProperties, ElementOfSeq
<1>2. /\ at \in 0..Len(list)
      /\ at = 0 => \A i \in 1..Len(list) : list[i].from # j
      /\ at # 0 => list[at].from = j
  BY <1>1, PositionProperties
<1> HIDE DEF at
<1>3. CASE at = 0
  <2>1. Without(list, j) = list
    BY <1>3 DEF Without, at
  <2> QED  BY <1>2, <1>3, <2>1 DEF Members
<1>4. CASE at # 0
  <2> DEFINE r == RemoveAt(list, at)
             n == Len(list)
  <2>1. at \in 1..n /\ list[at].from = j
    BY <1>1, <1>2, <1>4
  <2>2. /\ r \in Seq(There) /\ Len(r) = n - 1
        /\ \A k \in 1..(n - 1) : r[k] = IF k < at THEN list[k] ELSE list[k + 1]
    BY <1>1, <2>1, RemoveAtProperties
  <2> HIDE DEF r
  <2> DEFINE old(k) == IF k < at THEN k ELSE k + 1
  <2>3. /\ \A k \in 1..(n - 1) : old(k) \in 1..n /\ old(k) # at /\ r[k] = list[old(k)]
        /\ \A i, k \in 1..(n - 1) : i < k => old(i) < old(k)
        /\ \A i, k \in 1..(n - 1) : old(i) = old(k) => i = k
        /\ \A i \in 1..n : i # at => \E k \in 1..(n - 1) : old(k) = i
    <3>1. \A k \in 1..(n - 1) : old(k) \in 1..n /\ old(k) # at /\ r[k] = list[old(k)]
      BY <1>1, <2>1, <2>2
    <3>2. \A i, k \in 1..(n - 1) : (i < k => old(i) < old(k)) /\ (old(i) = old(k) => i = k)
      BY <1>1, <2>1
    <3>3. ASSUME NEW i \in 1..n, i # at PROVE \E k \in 1..(n - 1) : old(k) = i
      <4>1. CASE i < at
        BY <1>1, <2>1, <4>1
      <4>2. CASE i > at
        <5>1. i - 1 \in 1..(n - 1) /\ old(i - 1) = i
          BY <1>1, <2>1, <4>2
        <5> QED  BY <5>1
      <4>3. i < at \/ i > at
        BY <1>1, <2>1, <3>3
      <4> QED  BY <4>1, <4>2, <4>3
    <3> QED  BY <3>1, <3>2, <3>3
  <2> HIDE DEF old
  <2>4. SoundList(b, r)
    <3>1. \A i \in 1..(n - 1) : r[i].from.bare = b
      BY <2>3
    <3>2. \A i, k \in 1..(n - 1) : r[i].from = r[k].from => i = k
      BY <2>3
    <3>3. ASSUME NEW i \in 1..(n - 1), NEW k \in 1..(n - 1), i < k
          PROVE  r[k].priority <= r[i].priority
      <4>1. old(i) \in 1..n /\ old(k) \in 1..n /\ old(i) < old(k)
        BY <2>3, <3>3
      <4>2. r[i] = list[old(i)] /\ r[k] = list[old(k)]
        BY <2>3
      <4> QED  BY <4>1, <4>2
    <3> QED  BY <2>2, <3>1, <3>2, <3>3
  <2>5. Members(r) = {q \in Members(list) : q.from # j}
    <3>1. ASSUME NEW k \in 1..(n - 1) PROVE r[k] \in Members(list) /\ r[k].from # j
      <4>1. old(k) \in 1..n /\ old(k) # at /\ r[k] = list[old(k)]
        BY <2>3
      <4>2. list[old(k)].from # j
        BY <2>1, <4>1
      <4> QED  BY <4>1, <4>2 DEF Members
    <3>2. ASSUME NEW i \in 1..n, list[i].from # j PROVE \E k \in 1..(n - 1) : r[k] = list[i]
      BY <2>1, <2>3, <3>2
    <3>3. ASSUME NEW q \in Members(list), q.from # j PROVE q \in Members(r)
      <4>1. PICK i \in 1..n : q = list[i]
        BY DEF Members
      <4> QED  BY <2>2, <3>2, <3>3, <4>1 DEF Members
    <3>4. ASSUME NEW q \in Members(r) PROVE q \in Members(list) /\ q.from # j
      BY <2>2, <3>1 DEF Members
    <3> QED  BY <3>3, <3>4
  <2>6. Without(list, j) = r
    BY <1>4 DEF Without, at, r
  <2> QED  BY <2>4, <2>5, <2>6
<1> QED  BY <1>3, <1>4

\* A list with the new presence p is sound, and p has replaced the one of its JabberID.
LEMMA UpdatedIsSound ==
    ASSUME NEW b, NEW list, SoundList(b, list), NEW p \in There, p.from.bare = b
    PROVE  /\ SoundList(b, Updated(list, p))
           /\ Members(Updated(list, p)) = {q \in Members(list) : q.from # p.from} \union {p}
<1> DEFINE at == Position(list, p.from)
           n == Len(list)
<1>1. /\ list \in Seq(There) /\ n \in Nat
      /\ \A i \in 1..n : list[i] \in There
      /\ \A i \in 1..n : list[i].from.bare = b
      /\ \A i, k \in 1..n : list[i].from = list[k].from => i = k
      /\ \A i, k \in 1..n : i < k => list[k].priority <= list[i].priority
  BY LenProperties, ElementOfSeq DEF SoundList
<1>2. /\ at \in 0..n
      /\ at # 0 => list[at].from = p.from
  BY <1>1, PositionProperties
<1>3. p.priority \in Int
  BY PresenceAssumption DEF There, Presences
<1> HIDE DEF at
<1>4. CASE at # 0 /\ list[at].priority = p.priority
  <2> DEFINE r == ReplaceAt(list, at, p)
  <2>1. at \in 1..n
    BY <1>1, <1>2, <1>4
  <2>2. /\ r \in Seq(There) /\ Len(r) = n
        /\ \A k \in 1..n : r[k] = IF k = at THEN p ELSE list[k]
    BY <1>1, <2>1, ExceptSeq DEF ReplaceAt
  <2> HIDE DEF r
  <2>3. /\ \A k \in 1..n : r[k].from = list[k].from /\ r[k].priority = list[k].priority
    BY <1>2, <1>4, <2>2
  <2>4. SoundList(b, r)
    BY <1>1, <2>2, <2>3 DEF SoundList
  <2>5. Members(r) = {q \in Members(list) : q.from # p.from} \union {p}
    <3>1. ASSUME NEW k \in 1..n
          PROVE  r[k] = p \/ (r[k] \in Members(list) /\ r[k].from # p.from)
      <4>1. k # at => list[k].from # p.from
        BY <1>1, <1>2, <1>4, <2>1
      <4> QED  BY <2>2, <4>1 DEF Members
    <3>2. ASSUME NEW k \in 1..n, list[k].from # p.from PROVE r[k] = list[k]
      BY <1>2, <1>4, <2>2, <3>2
    <3>3. r[at] = p
      BY <2>1, <2>2
    <3> QED  BY <2>1, <2>2, <3>1, <3>2, <3>3 DEF Members
  <2>6. Updated(list, p) = r
    BY <1>4 DEF Updated, at, r
  <2> QED  BY <2>4, <2>5, <2>6
<1>5. CASE ~ (at # 0 /\ list[at].priority = p.priority)
  <2> DEFINE rest == Without(list, p.from)
             m == Len(rest)
             to == InsertionPoint(rest, p.priority)
             r == InsertAt(rest, to, p)
  <2>1. /\ SoundList(b, rest)
        /\ Members(rest) = {q \in Members(list) : q.from # p.from}
    BY WithoutIsSound
  <2> HIDE DEF rest
  <2>2. /\ rest \in Seq(There) /\ m \in Nat
        /\ \A i \in 1..m : rest[i].from.bare = b
        /\ \A i, k \in 1..m : rest[i].from = rest[k].from => i = k
        /\ \A i, k \in 1..m : i < k => rest[k].priority <= rest[i].priority
    BY <2>1, LenProperties DEF SoundList
  <2>3. /\ to \in 1..(m + 1)
        /\ \A i \in 1..m : i < to => rest[i].priority > p.priority
        /\ \A i \in 1..m : to <= i => rest[i].priority <= p.priority
    BY <1>3, <2>2, InsertionPointProperties
  <2> HIDE DEF to
  <2>4. /\ r \in Seq(There) /\ Len(r) = m + 1
        /\ \A k \in 1..(m + 1) :
              r[k] = IF k < to THEN rest[k] ELSE IF k = to THEN p ELSE rest[k - 1]
    BY <2>2, <2>3, InsertAtProperties
  <2> HIDE DEF r, m
  <2> DEFINE old(k) == IF k < to THEN k ELSE k - 1
  <2>5. /\ r[to] = p
        /\ \A k \in 1..(m + 1) : k # to => old(k) \in 1..m /\ r[k] = rest[old(k)]
        /\ \A i \in 1..m : \E k \in 1..(m + 1) : k # to /\ old(k) = i
    <3>1. r[to] = p
      BY <2>2, <2>3, <2>4
    <3>2. \A k \in 1..(m + 1) : k # to => old(k) \in 1..m /\ r[k] = rest[old(k)]
      BY <2>2, <2>3, <2>4
    <3>3. ASSUME NEW i \in 1..m PROVE \E k \in 1..(m + 1) : k # to /\ old(k) = i
      <4>1. CASE i < to
        BY <2>2, <2>3, <4>1
      <4>2. CASE i >= to
        <5>1. i + 1 \in 1..(m + 1) /\ i + 1 # to /\ old(i + 1) = i
          BY <2>2, <2>3, <4>2
        <5> QED  BY <5>1
      <4>3. i < to \/ i >= to
        BY <2>2, <2>3
      <4> QED  BY <4>1, <4>2, <4>3
    <3> QED  BY <3>1, <3>2, <3>3
  <2>6. \A i \in 1..m : rest[i] \in Members(list) /\ rest[i].from # p.from
    <3>1. \A i \in 1..m : rest[i] \in Members(rest)
      BY DEF Members, m
    <3> QED  BY <2>1, <3>1
  <2>7. \A i \in 1..(m + 1) : r[i].from.bare = b
    BY <2>2, <2>3, <2>5
  <2>8. ASSUME NEW i \in 1..(m + 1), NEW k \in 1..(m + 1), r[i].from = r[k].from
        PROVE  i = k
    <3>1. CASE i = to
      BY <2>5, <2>6, <2>8, <3>1
    <3>2. CASE k = to
      BY <2>5, <2>6, <2>8, <3>2
    <3>3. CASE i # to /\ k # to
      <4>1. old(i) = old(k)
        <5> HIDE DEF old
        <5> QED  BY <2>2, <2>5, <2>8, <3>3
      <4> QED  BY <2>2, <2>3, <3>3, <4>1
    <3> QED  BY <3>1, <3>2, <3>3
  <2>9. ASSUME NEW i \in 1..(m + 1), NEW k \in 1..(m + 1), i < k
        PROVE  r[k].priority <= r[i].priority
    <3>1. CASE i = to
      <4>1. k - 1 \in 1..m /\ to <= k - 1 /\ r[k] = rest[k - 1] /\ r[i] = p
        BY <2>2, <2>3, <2>4, <2>9, <3>1
      <4> QED  BY <2>3, <4>1
    <3>2. CASE k = to
      <4>1. i \in 1..m /\ i < to /\ r[i] = rest[i] /\ r[k] = p
        BY <2>2, <2>3, <2>4, <2>9, <3>2
      <4>2. rest[i].priority > p.priority /\ rest[i].priority \in Int
        <5>1. rest[i] \in There
          BY <2>2, <4>1, ElementOfSeq DEF m
        <5> QED  BY <2>3, <4>1, <5>1, PresenceAssumption DEF There, Presences
      <4> QED  BY <1>3, <4>1, <4>2
    <3>3. CASE i # to /\ k # to
      <4>1. old(i) < old(k) /\ old(i) \in 1..m /\ old(k) \in 1..m
        BY <2>2, <2>3, <2>9, <3>3
      <4>2. r[i] = rest[old(i)] /\ r[k] = rest[old(k)]
        BY <2>5, <3>3
      <4> HIDE DEF old
      <4> QED  BY <2>2, <4>1, <4>2
    <3> QED  BY <3>1, <3>2, <3>3
  <2>10. SoundList(b, r)
    BY <2>4, <2>7, <2>8, <2>9 DEF SoundList
  <2>11. Members(r) = {q \in Members(list) : q.from # p.from} \union {p}
    <3> HIDE DEF old
    <3>1. ASSUME NEW k \in 1..(m + 1) PROVE r[k] \in Members(rest) \union {p}
      <4>1. k # to => rest[old(k)] \in Members(rest)
        BY <2>5 DEF Members, m
      <4> QED  BY <2>5, <4>1
    <3>2. ASSUME NEW i \in 1..m PROVE \E k \in 1..(m + 1) : r[k] = rest[i]
      BY <2>5
    <3>3. p = r[to] /\ to \in 1..(m + 1)
      BY <2>3, <2>5
    <3>4. Members(r) = Members(rest) \union {p}
      BY <2>4, <3>1, <3>2, <3>3 DEF Members, m
    <3> QED  BY <2>1, <3>4
  <2>12. Updated(list, p) = r
    BY <1>5 DEF Updated, at, r, rest, to
  <2> QED  BY <2>10, <2>11, <2>12
<1> QED  BY <1>4, <1>5

-----------------------------------------------------------------------------
\* The list of a user@host, also when it has no entry.
LEMMA EntryIsSound ==
    ASSUME IInv, NEW b
    PROVE  /\ SoundList(b, Entry(b))
           /\ b \in DOMAIN db <=> Entry(b) # <<>>
<1>1. SoundList(b, <<>>)
  BY DEF SoundList
<1> QED  BY <1>1 DEF Entry, IInv

\* What a change of one entry does to the others.
LEMMA SetEntryProperties ==
    ASSUME IInv, NEW b \in Bares, NEW list, SoundList(b, list), SetEntry(b, list)
    PROVE  /\ IInv'
           /\ \A c : Entry(c)' = IF c = b THEN list ELSE Entry(c)
<1>1. CASE list = <<>>
  <2>1. db' = [c \in DOMAIN db \ {b} |-> db[c]]
    BY <1>1 DEF SetEntry
  <2> QED  BY <1>1, <2>1 DEF IInv, Entry
<1>2. CASE list # <<>>
  <2>1. db' = [c \in DOMAIN db \union {b} |-> IF c = b THEN list ELSE db[c]]
    BY <1>2 DEF SetEntry
  <2>2. IInv'
    BY <1>2, <2>1 DEF IInv
  <2>3. ASSUME NEW c PROVE Entry(c)' = IF c = b THEN list ELSE Entry(c)
    BY <2>1 DEF Entry
  <2> QED  BY <2>2, <2>3
<1> QED  BY <1>1, <1>2

\* What insert() and remove() write.
LEMMA InsertWrites ==
    ASSUME IInv, NEW p \in Presences, Insert(p)
    PROVE  \E list : /\ SetEntry(p.from.bare, list)
                     /\ p.from \in JIDs /\ p.from.bare \in Bares
                     /\ SoundList(p.from.bare, list)
                     /\ Members(list) =
                            {q \in Members(Entry(p.from.bare)) : q.from # p.from}
                            \union (IF p.type \in Absent THEN {} ELSE {p})
<1>1. p.from \in JIDs /\ p.from.bare \in Bares
  BY DEF Presences, Bares
<1>2. SoundList(p.from.bare, Entry(p.from.bare))
  BY EntryIsSound
<1>3. CASE p.type \in Absent
  <2>1. SetEntry(p.from.bare, Without(Entry(p.from.bare), p.from))
    BY <1>3 DEF Insert
  <2> QED  BY <1>1, <1>2, <1>3, <2>1, WithoutIsSound
<1>4. CASE p.type \notin Absent
  <2>1. SetEntry(p.from.bare, Updated(Entry(p.from.bare), p))
    BY <1>4 DEF Insert
  <2>2. p \in There
    BY <1>4 DEF There
  <2>3. /\ SoundList(p.from.bare, Updated(Entry(p.from.bare), p))
        /\ Members(Updated(Entry(p.from.bare), p)) =
              {q \in Members(Entry(p.from.bare)) : q.from # p.from} \union {p}
    BY <1>2, <2>2, UpdatedIsSound
  <2> QED  BY <1>1, <1>4, <2>1, <2>3
<1> QED  BY <1>3, <1>4

\* remove() writes the sound list without the presence of j.
LEMMA RemoveWrites ==
    ASSUME IInv, NEW j \in JIDs, RemoveJID(j)
    PROVE  \E list : /\ SetEntry(j.bare, list)
                     /\ j.bare \in Bares
                     /\ SoundList(j.bare, list)
                     /\ Members(list) = {q \in Members(Entry(j.bare)) : q.from # j}
<1>1. SoundList(j.bare, Entry(j.bare))
  BY EntryIsSound
<1>2. SetEntry(j.bare, Without(Entry(j.bare), j)) /\ j.bare \in Bares
  BY DEF RemoveJID, Bares
<1> QED  BY <1>1, <1>2, WithoutIsSound

LEMMA InitInv == Init => IInv
  BY DEF Init, IInv

LEMMA StepInv == IInv /\ [Next]_db => IInv'
<1> SUFFICES ASSUME IInv, [Next]_db PROVE IInv'
  OBVIOUS
<1>1. ASSUME NEW p \in Presences, Insert(p) PROVE IInv'
  BY <1>1, InsertWrites, SetEntryProperties
<1>2. ASSUME NEW j \in JIDs, RemoveJID(j) PROVE IInv'
  BY <1>2, RemoveWrites, SetEntryProperties
<1>3. CASE Clear
  BY <1>3 DEF Clear, IInv
<1>4. CASE UNCHANGED db
  BY <1>4 DEF IInv
<1> QED  BY <1>1, <1>2, <1>3, <1>4 DEF Next

\* What find() gives: the first presence of the list.
LEMMA FindProperties ==
    ASSUME IInv, NEW b
    PROVE  /\ b \notin DOMAIN db => Find(b) = None
           /\ b \in DOMAIN db => /\ Find(b) = Entry(b)[1]
                                 /\ 1 \in 1..Len(Entry(b))
                                 /\ Find(b) \in There
                                 /\ Find(b) # None
<1>1. CASE b \notin DOMAIN db
  BY <1>1 DEF Find, Entry
<1>2. CASE b \in DOMAIN db
  <2>1. Entry(b) \in Seq(There) /\ Entry(b) # <<>>
    BY <1>2, EntryIsSound DEF SoundList
  <2>2. 1 \in 1..Len(Entry(b)) /\ Head(Entry(b)) = Entry(b)[1] /\ Head(Entry(b)) \in There
    BY <2>1, LenProperties, EmptySeq, HeadTailProperties
  <2>3. Find(b) = Entry(b)[1]
    BY <2>1, <2>2 DEF Find
  <2>4. Find(b) # None
    BY <2>2, <2>3, PresenceAssumption DEF There, Presences
  <2> QED  BY <1>2, <2>2, <2>3, <2>4
<1> QED  BY <1>1, <1>2

LEMMA InvImpliesSound == IInv => ListsAreSound
<1> SUFFICES ASSUME IInv PROVE ListsAreSound
  OBVIOUS
<1>1. EntriesAreUsed
  BY FindProperties DEF EntriesAreUsed, ContainsJID
<1>2. NothingIsShadowed
  <2> SUFFICES ASSUME NEW b \in DOMAIN db, NEW i \in 1..Len(db[b])
               PROVE  /\ db[b][i].from.bare = b
                      /\ db[b][i].from.res # "" => FindExact(db[b][i].from) = db[b][i]
                      /\ Position(db[b], db[b][i].from) = i
    BY DEF NothingIsShadowed
  <2> DEFINE j == db[b][i].from
  <2>1. SoundList(b, db[b]) /\ Entry(b) = db[b]
    BY DEF IInv, Entry
  <2>2. j.bare = b
    BY <2>1 DEF SoundList
  <2>3. Position(db[b], j) = i
    <3>1. /\ Position(db[b], j) \in 0..Len(db[b]) /\ Len(db[b]) \in Nat
          /\ Position(db[b], j) # 0
          /\ db[b][Position(db[b], j)].from = j
      BY <2>1, PositionProperties, LenProperties DEF SoundList
    <3>2. Position(db[b], j) \in 1..Len(db[b])
      BY <3>1
    <3> QED  BY <2>1, <3>1, <3>2 DEF SoundList
  <2>4. ASSUME j.res # "" PROVE FindExact(j) = db[b][i]
    <3>1. Position(db[b], j) # 0
      BY <2>1, <2>3, LenProperties DEF SoundList
    <3> HIDE DEF j
    <3>2. FindExact(j) = db[b][Position(db[b], j)]
      BY <2>1, <2>2, <2>4, <3>1 DEF FindExact
    <3> QED  BY <2>3, <3>2
  <2> QED  BY <2>2, <2>3, <2>4
<1>3. HighestFirst
  BY DEF HighestFirst, IInv, SoundList
<1> QED  BY <1>1, <1>2, <1>3 DEF ListsAreSound

\* The lists of the database are sound after any presences, removals and clears
\* (insert(), remove(), clear(), find(), findExact(), contains()).
THEOREM ListsAreAlwaysSound == Spec => []ListsAreSound
<1>1. IInv => ListsAreSound
  BY InvImpliesSound
<1> QED  BY InitInv, StepInv, <1>1, PTL DEF Spec

-----------------------------------------------------------------------------
\* What the variables of LatestPresence are here.
Known    == UNION {Range(db[b]) : b \in DOMAIN db}
Defaults == [b \in Bares |-> Find(b)]

\* A presence is known if the list of its user@host has it, in any database d.
LEMMA KnownIsListed ==
    ASSUME NEW d, \A b \in DOMAIN d : SoundList(b, d[b])
    PROVE  \A p : p \in UNION {Range(d[b]) : b \in DOMAIN d} <=>
                  /\ p.from.bare \in DOMAIN d
                  /\ p \in Members(d[p.from.bare])
<1>1. ASSUME NEW b \in DOMAIN d
      PROVE  /\ Range(d[b]) = Members(d[b])
             /\ \A q \in Members(d[b]) : q.from.bare = b
  <2>1. SoundList(b, d[b])
    OBVIOUS
  <2>2. DOMAIN d[b] = 1..Len(d[b])
    BY <2>1, LenProperties DEF SoundList
  <2> QED  BY <2>1, <2>2 DEF Range, Members, SoundList
<1> QED  BY <1>1

\* An empty list has no members.
LEMMA NoMembers == Members(<<>>) = {}
  BY DEF Members

\* A change of the entry of b in which what came from j, a resource of b, gives way
\* to X is a step of the abstract specification.
LEMMA EntryStep ==
    ASSUME IInv, NEW j, NEW X, j.bare \in Bares, \A p \in X : p.from = j,
           NEW list, SoundList(j.bare, list), SetEntry(j.bare, list),
           Members(list) = {q \in Members(Entry(j.bare)) : q.from # j} \union X
    PROVE  /\ Known' = {q \in Known : q.from # j} \union X
           /\ Latest!Choose(j.bare)
<1> DEFINE b == j.bare
           there == {p \in Known' : p.from.bare = b}
           best == {p \in there : \A q \in there : q.priority <= p.priority}
<1>1. IInv' /\ \A c : Entry(c)' = IF c = b THEN list ELSE Entry(c)
  BY SetEntryProperties
<1>2. \A p : p \in Known <=> p \in Members(Entry(p.from.bare))
  BY KnownIsListed, NoMembers DEF Known, Entry, IInv
<1>3. \A p : p \in Known' <=> p \in Members(Entry(p.from.bare)')
  BY <1>1, KnownIsListed, NoMembers DEF Known, Entry, IInv
<1>4. Known' = {q \in Known : q.from # j} \union X
  <2>1. ASSUME NEW p PROVE p \in Known' <=> p \in {q \in Known : q.from # j} \union X
    <3>1. CASE p.from.bare = b
      BY <1>1, <1>2, <1>3, <3>1
    <3>2. CASE p.from.bare # b
      BY <1>1, <1>2, <1>3, <3>2
    <3> QED  BY <3>1, <3>2
  <2> QED  BY <2>1
<1>5. there = Members(list)
  <2>1. \A q \in Members(list) : q.from.bare = b
    BY DEF Members, SoundList
  <2> QED  BY <1>1, <1>3, <2>1
<1>6. /\ Find(b)' \in best \union {None}
      /\ Find(b)' = None <=> best = {}
  <2>1. Find(b)' = IF list = <<>> THEN None ELSE Head(list)
    BY <1>1 DEF Find
  <2>2. CASE list = <<>>
    BY <1>5, <2>1, <2>2, NoMembers
  <2>3. CASE list # <<>>
    <3>1. list \in Seq(There) /\ \A i \in 1..Len(list) : list[i] \in There
      BY ElementOfSeq DEF SoundList
    <3>2. 1 \in 1..Len(list) /\ Head(list) = list[1] /\ Len(list) \in Nat
      BY <2>3, <3>1, LenProperties, EmptySeq, HeadTailProperties
    <3>3. \A i \in 1..Len(list) : list[i].priority \in Int
      BY <3>1, PresenceAssumption DEF There, Presences
    <3>4. ASSUME NEW i \in 1..Len(list) PROVE list[i].priority <= list[1].priority
      <4>1. CASE i = 1
        BY <3>3, <4>1
      <4>2. CASE i # 1
        BY <3>2, <4>2 DEF SoundList
      <4> QED  BY <4>1, <4>2
    <3>5. list[1] \in best
      BY <1>5, <3>2, <3>4 DEF Members
    <3>6. list[1] # None
      BY <3>1, <3>2, PresenceAssumption DEF There, Presences
    <3> QED  BY <2>1, <2>3, <3>2, <3>5, <3>6
  <2> QED  BY <2>2, <2>3
<1>7. Defaults' = [Defaults EXCEPT ![b] = Find(b)']
  <2>1. \A c : c # b => Find(c)' = Find(c)
    BY <1>1 DEF Find
  <2> QED  BY <2>1 DEF Defaults
<1>8. Latest!Best(b)' = best
  BY DEF Latest!Best, Known
<1>9. Latest!Choose(b)
  BY <1>6, <1>7, <1>8 DEF Latest!Choose, Defaults
<1> QED  BY <1>4, <1>9

\* A step of the database is a step of the abstract specification.
LEMMA StepImplements ==
    ASSUME IInv, [Next]_db
    PROVE  [Latest!Next]_Latest!vars
<1> USE DEF Latest!Presences, Latest!Absent, Presences, Absent
<1>1. ASSUME NEW p \in Presences, Insert(p) PROVE Latest!Hear(p)
  <2>1. PICK list : /\ SetEntry(p.from.bare, list) /\ p.from.bare \in Bares
                    /\ SoundList(p.from.bare, list)
                    /\ Members(list) =
                           {q \in Members(Entry(p.from.bare)) : q.from # p.from}
                           \union (IF p.type \in Absent THEN {} ELSE {p})
    BY <1>1, InsertWrites
  <2>2. \A q \in IF p.type \in Absent THEN {} ELSE {p} : q.from = p.from
    OBVIOUS
  <2>3. /\ Known' = {q \in Known : q.from # p.from}
                    \union (IF p.type \in Absent THEN {} ELSE {p})
        /\ Latest!Choose(p.from.bare)
    BY <2>1, <2>2, EntryStep
  <2> QED  BY <2>3 DEF Latest!Hear, Latest!Others, Known
<1>2. ASSUME NEW j \in JIDs, RemoveJID(j) PROVE Latest!Forget(j)
  <2>1. PICK list : /\ SetEntry(j.bare, list) /\ j.bare \in Bares
                    /\ SoundList(j.bare, list)
                    /\ Members(list) =
                           {q \in Members(Entry(j.bare)) : q.from # j} \union {}
    BY <1>2, RemoveWrites
  <2>2. /\ Known' = {q \in Known : q.from # j} \union {}
        /\ Latest!Choose(j.bare)
    BY <2>1, EntryStep
  <2> QED  BY <2>2 DEF Latest!Forget, Latest!Others, Known
<1>3. CASE Clear
  <2>1. DOMAIN db' = {}
    BY <1>3 DEF Clear
  <2>2. \A b : Find(b)' = None
    BY <2>1 DEF Find, Entry
  <2> QED  BY <2>1, <2>2 DEF Latest!Clear, Latest!Next, Latest!Bares, Bares
<1>4. CASE UNCHANGED db
  BY <1>4 DEF Latest!vars, Find, Entry
<1> QED  BY <1>1, <1>2, <1>3, <1>4 DEF Next, Latest!Next

\* The database implements LatestPresence: insert() and remove()
\* change the latest presence of one JabberID and the default of one user@host, and
\* find() gives one of the highest priority.
THEOREM LatestIsImplemented == Spec => ImplementsLatestPresence
<1>1. Init => Latest!Init
  <2> SUFFICES ASSUME Init PROVE Latest!Init
    OBVIOUS
  <2>1. DOMAIN db = {} /\ \A b : Find(b) = None
    BY DEF Init, Find, Entry
  <2> QED  BY <2>1 DEF Latest!Init, Latest!Bares, Bares
<1>2. IInv /\ [Next]_db => [Latest!Next]_Latest!vars
  BY StepImplements
<1> QED  BY InitInv, StepInv, <1>1, <1>2, PTL DEF Spec, Latest!Spec, ImplementsLatestPresence
=============================================================================
