--------------------------- MODULE Roster_proofs ---------------------------
(***************************************************************************)
(* Theorems about Roster.  What is proved of the PresenceDB in its own      *)
(* module is used here of the one that the Roster's handlers write.         *)
(***************************************************************************)
EXTENDS Roster, Lists_proofs, FiniteSetTheorems, TLAPS

P == INSTANCE PresenceDB_proofs

\* Nobody is there in two places, and whoever is there is available.
OnePlaceEach ==
    /\ \A j, k \in JIDs : j.bare = k.bare => j = k
    /\ Types \subseteq PDB!Absent \union {"ptAvailable"}

\* The inductive invariant of what was told.
ToldInv ==
    /\ P!IInv
    /\ told \in [JIDs -> Types \union {"ptUnavailable"}]
    /\ ToldIsKnown

-----------------------------------------------------------------------------
(* The database that Roster uses is the one that is proved about. *)

LEMMA AssumptionOfPresenceDB == P!PresenceTypes = PDB!PresenceTypes /\ P!Absent = PDB!Absent
  BY DEF PDB!PresenceTypes, P!PresenceTypes, PDB!Absent, P!Absent

LEMMA SamePosition ==
    ASSUME NEW list, NEW j
    PROVE  PDB!Position(list, j) = P!Position(list, j)
  BY SMT DEF PDB!Position, P!Position, PDB!SelectInSeq, P!SelectInSeq, PDB!Min, P!Min

LEMMA SameInsertionPoint ==
    ASSUME NEW list, NEW n
    PROVE  PDB!InsertionPoint(list, n) = P!InsertionPoint(list, n)
  BY SMT DEF PDB!InsertionPoint, P!InsertionPoint, PDB!SelectInSeq, P!SelectInSeq,
             PDB!Min, P!Min

LEMMA SameWithout ==
    ASSUME NEW list, NEW j
    PROVE  PDB!Without(list, j) = P!Without(list, j)
  BY SamePosition DEF PDB!Without, P!Without, PDB!RemoveAt, P!RemoveAt

LEMMA SameUpdated ==
    ASSUME NEW list, NEW p
    PROVE  PDB!Updated(list, p) = P!Updated(list, p)
<1> DEFINE i == P!Position(list, p.from)
           rest == P!Without(list, p.from)
           at == P!InsertionPoint(rest, p.priority)
<1>1. PDB!Updated(list, p) = IF i # 0 /\ list[i].priority = p.priority
                             THEN PDB!ReplaceAt(list, i, p) ELSE PDB!InsertAt(rest, at, p)
  BY SamePosition, SameWithout, SameInsertionPoint DEF PDB!Updated
<1>2. P!Updated(list, p) = IF i # 0 /\ list[i].priority = p.priority
                           THEN P!ReplaceAt(list, i, p) ELSE P!InsertAt(rest, at, p)
  BY DEF P!Updated
<1> HIDE DEF i, rest, at
<1>3. PDB!ReplaceAt(list, i, p) = P!ReplaceAt(list, i, p)
  BY DEF PDB!ReplaceAt, P!ReplaceAt
<1>4. PDB!InsertAt(rest, at, p) = P!InsertAt(rest, at, p)
  BY DEF PDB!InsertAt, P!InsertAt
<1> QED  BY <1>1, <1>2, <1>3, <1>4

LEMMA SameEntry ==
    ASSUME NEW b
    PROVE  PDB!Entry(b) = P!Entry(b)
  BY DEF PDB!Entry, P!Entry

LEMMA SameInsert ==
    ASSUME NEW p, PDB!Insert(p)
    PROVE  P!Insert(p)
<1>1. PDB!SetEntry(p.from.bare, IF p.type \in PDB!Absent
                                THEN P!Without(P!Entry(p.from.bare), p.from)
                                ELSE P!Updated(P!Entry(p.from.bare), p))
  BY SameEntry, SameWithout, SameUpdated DEF PDB!Insert
<1>2. ASSUME NEW b, NEW list, PDB!SetEntry(b, list) PROVE P!SetEntry(b, list)
  BY <1>2 DEF PDB!SetEntry, P!SetEntry
<1>3. PDB!Absent = P!Absent
  BY DEF PDB!Absent, P!Absent
<1> QED  BY <1>1, <1>2, <1>3 DEF P!Insert

\* A presence is listed just when its JabberID has a position.
LEMMA PositionIsListed ==
    ASSUME NEW b, NEW list, P!SoundList(b, list), NEW j
    PROVE  PDB!Position(list, j) # 0 <=> \E q \in P!Members(list) : q.from = j
<1>1. list \in Seq(P!There) /\ Len(list) \in Nat
  BY LenProperties DEF P!SoundList
<1>2. /\ P!Position(list, j) \in 0..Len(list)
      /\ P!Position(list, j) = 0 => \A i \in 1..Len(list) : list[i].from # j
      /\ P!Position(list, j) # 0 => list[P!Position(list, j)].from = j
  BY <1>1, RosterAssumption, AssumptionOfPresenceDB, P!PositionProperties
<1>3. P!Position(list, j) # 0 => P!Position(list, j) \in 1..Len(list)
  BY <1>1, <1>2
<1> QED  BY <1>1, <1>2, <1>3, SamePosition DEF P!Members

-----------------------------------------------------------------------------
(* What was told and what is known. *)

LEMMA HandlePresenceKeepsTold ==
    ASSUME ToldInv, HandlePresence
    PROVE  ToldInv'
<1> USE DEF ToldInv
<1>1. PICK p \in PDB!Presences : /\ PDB!Insert(p)
                                 /\ told' = [told EXCEPT ![p.from] = p.type]
  BY DEF HandlePresence
<1>2. p \in P!Presences /\ p.from \in JIDs /\ p.type \in Types
  BY <1>1 DEF PDB!Presences, P!Presences
<1>3. P!Insert(p)
  BY <1>1, SameInsert
<1> DEFINE b == p.from.bare
<1>4. PICK list : /\ P!SetEntry(b, list)
                  /\ b \in P!Bares
                  /\ P!SoundList(b, list)
                  /\ P!Members(list) =
                         {q \in P!Members(P!Entry(b)) : q.from # p.from}
                         \union (IF p.type \in P!Absent THEN {} ELSE {p})
  BY <1>2, <1>3, RosterAssumption, AssumptionOfPresenceDB, P!InsertWrites
<1>5. P!IInv' /\ \A c : P!Entry(c)' = IF c = b THEN list ELSE P!Entry(c)
  BY <1>4, RosterAssumption, AssumptionOfPresenceDB, P!SetEntryProperties
<1>6. told' \in [JIDs -> Types \union {"ptUnavailable"}]
      /\ \A j \in JIDs : told'[j] = IF j = p.from THEN p.type ELSE told[j]
  BY <1>1, <1>2
<1>7. ASSUME NEW j \in JIDs
      PROVE  told'[j] \notin PDB!Absent
                <=> \E q \in P!Members(P!Entry(j.bare)') : q.from = j
  <2>1. told[j] \notin PDB!Absent <=> \E q \in P!Members(P!Entry(j.bare)) : q.from = j
    <3>1. P!SoundList(j.bare, P!Entry(j.bare))
      BY RosterAssumption, AssumptionOfPresenceDB, P!EntryIsSound
    <3> QED  BY <3>1, SameEntry, PositionIsListed DEF ToldIsKnown
  <2>2. CASE j.bare # b
    <3>1. P!Entry(j.bare)' = P!Entry(j.bare) /\ told'[j] = told[j]
      BY <1>5, <1>6, <2>2
    <3> QED  BY <2>1, <3>1
  <2>3. CASE j.bare = b /\ j # p.from
    <3>1. P!Entry(j.bare)' = list /\ told'[j] = told[j]
      BY <1>5, <1>6, <2>3
    <3>2. (\E q \in P!Members(list) : q.from = j)
             <=> \E q \in P!Members(P!Entry(j.bare)) : q.from = j
      BY <1>4, <2>3
    <3> QED  BY <2>1, <3>1, <3>2
  <2>4. CASE j = p.from
    <3>1. P!Entry(j.bare)' = list /\ told'[j] = p.type
      BY <1>5, <1>6, <2>4
    <3>2. (\E q \in P!Members(list) : q.from = j) <=> p.type \notin P!Absent
      BY <1>4, <2>4
    <3> QED  BY <3>1, <3>2, AssumptionOfPresenceDB
  <2> QED  BY <2>2, <2>3, <2>4
<1>8. ToldIsKnown'
  <2>1. \A c : P!SoundList(c, P!Entry(c)')
    BY <1>4, <1>5, RosterAssumption, AssumptionOfPresenceDB, P!EntryIsSound
  <2>2. \A j \in JIDs : PDB!Position(P!Entry(j.bare)', j) # 0
                           <=> \E q \in P!Members(P!Entry(j.bare)') : q.from = j
    BY <2>1, PositionIsListed
  <2>3. \A j \in JIDs : PDB!Entry(j.bare)' = P!Entry(j.bare)'
    BY DEF PDB!Entry, P!Entry
  <2> QED  BY <1>7, <2>2, <2>3 DEF ToldIsKnown
<1> QED  BY <1>5, <1>6, <1>8

LEMMA DocumentEndKeepsTold ==
    ASSUME OnePlaceEach, ToldInv, DocumentEnd
    PROVE  ToldInv'
<1> USE DEF ToldInv
<1>1. /\ db' = <<>>
      /\ told' = [j \in JIDs |-> IF j \in SentUnavailable THEN "ptUnavailable" ELSE told[j]]
  BY DEF DocumentEnd, PDB!Clear
<1>2. told' \in [JIDs -> Types \union {"ptUnavailable"}]
  BY <1>1
\* Whoever was there is told of: it is the default presence of its user@host.
<1>3. ASSUME NEW j \in JIDs, told[j] \notin PDB!Absent PROVE j \in SentUnavailable
  <2> DEFINE list == P!Entry(j.bare)
  <2>1. P!SoundList(j.bare, list) /\ (j.bare \in DOMAIN db <=> list # <<>>)
    BY RosterAssumption, AssumptionOfPresenceDB, P!EntryIsSound
  <2>2. PICK q \in P!Members(list) : q.from = j
    BY <1>3, <2>1, SameEntry, PositionIsListed DEF ToldIsKnown
  <2>3. PDB!Entry(j.bare) = list
    BY SameEntry
  <2> HIDE DEF list
  <2>4. list \in Seq(P!There) /\ list # <<>> /\ list[1].from.bare = j.bare
        /\ 1 \in 1..Len(list) /\ list[1] \in P!There /\ Head(list) = list[1]
    <3>1. list \in Seq(P!There) /\ 1 \in 1..Len(list)
      BY <2>1, <2>2, LenProperties DEF P!SoundList, P!Members
    <3>2. list # <<>> /\ Head(list) = list[1]
      BY <3>1, EmptySeq, HeadTailProperties
    <3> QED  BY <2>1, <3>1, <3>2, ElementOfSeq DEF P!SoundList
  <2>5. list[1].from = j
    BY <2>4 DEF OnePlaceEach, P!There, P!Presences
  <2>6. list[1].type = "ptAvailable"
    BY <2>4, AssumptionOfPresenceDB DEF OnePlaceEach, P!There, P!Presences
  <2>7. PDB!Available(j.bare) /\ PDB!Find(j.bare) = list[1]
    BY <2>3, <2>4, <2>6 DEF PDB!Available, PDB!Find
  <2> QED  BY <2>1, <2>4, <2>5, <2>7 DEF SentUnavailable
<1>4. \A j \in JIDs : told'[j] \in PDB!Absent
  BY <1>1, <1>3 DEF PDB!Absent
<1>5. ASSUME NEW c PROVE P!Entry(c)' = <<>> /\ PDB!Entry(c)' = <<>>
  BY <1>1 DEF P!Entry, PDB!Entry
<1>6. ASSUME NEW j PROVE PDB!Position(<<>>, j) = 0
  BY DEF PDB!Position, PDB!SelectInSeq
<1>7. ToldIsKnown'
  BY <1>4, <1>5, <1>6 DEF ToldIsKnown
<1>8. P!IInv'
  BY <1>1 DEF P!IInv
<1> QED  BY <1>2, <1>7, <1>8

LEMMA InitTold == Init => ToldInv
<1> SUFFICES ASSUME Init PROVE ToldInv
  OBVIOUS
<1>1. db = <<>> /\ told = [j \in JIDs |-> "ptUnavailable"]
  BY DEF Init
<1>2. ASSUME NEW c PROVE PDB!Entry(c) = <<>>
  BY <1>1 DEF PDB!Entry
<1>3. ASSUME NEW j PROVE PDB!Position(<<>>, j) = 0
  BY DEF PDB!Position, PDB!SelectInSeq
<1>4. ToldIsKnown
  BY <1>1, <1>2, <1>3 DEF ToldIsKnown, PDB!Absent
<1> QED  BY <1>1, <1>4 DEF ToldInv, P!IInv

\* ToldIsKnown: whoever the application was last told is there is in the database and
\* nobody else, after any presences, and over any number of streams if nobody is there
\* in two places or invisible: onDocumentEnd() tells of the default presences only.
THEOREM ToldIsKnownAlways ==
    ("end" \notin Habits \/ OnePlaceEach) => (Spec => []ToldIsKnown)
<1> SUFFICES ASSUME "end" \notin Habits \/ OnePlaceEach PROVE Spec => []ToldIsKnown
  OBVIOUS
<1>1. Init => ToldInv
  BY InitTold
<1>2. ToldInv /\ [Next]_vars => ToldInv'
  <2> SUFFICES ASSUME ToldInv, [Next]_vars PROVE ToldInv'
    OBVIOUS
  <2>1. ASSUME UNCHANGED <<db, told>> PROVE ToldInv'
    BY <2>1 DEF ToldInv, ToldIsKnown, P!IInv, PDB!Entry
  <2>2. CASE RosterPush
    BY <2>1, <2>2 DEF RosterPush
  <2>3. CASE HandlePresence
    BY <2>3, HandlePresenceKeepsTold
  <2>4. CASE DocumentEnd
    BY <2>4, DocumentEndKeepsTold DEF DocumentEnd
  <2>5. CASE ClearItems
    BY <2>1, <2>5 DEF ClearItems
  <2>6. CASE UNCHANGED vars
    BY <2>1, <2>6 DEF vars
  <2> QED  BY <2>2, <2>3, <2>4, <2>5, <2>6 DEF Next
<1>3. ToldInv => ToldIsKnown
  BY DEF ToldInv
<1> QED  BY <1>1, <1>2, <1>3, PTL DEF Spec

-----------------------------------------------------------------------------
(* Walking the groups. *)

\* The elements of S in ascending order, each of them once.
InOrder(s, S) ==
    /\ s \in [1..Cardinality(S) -> S]
    /\ \A g \in S : \E i \in DOMAIN s : s[i] = g
    /\ \A i, j \in DOMAIN s : i < j => s[i] < s[j]

\* Finite sets of naturals can be walked in order.
LEMMA OrderExists ==
    ASSUME NEW S, S \subseteq Nat, IsFiniteSet(S)
    PROVE  \E s : InOrder(s, S)
<1> DEFINE Q == {n \in Nat : \A T \in SUBSET S : Cardinality(T) = n => \E s : InOrder(s, T)}
<1>1. 0 \in Q
  <2> SUFFICES ASSUME NEW T \in SUBSET S, Cardinality(T) = 0 PROVE \E s : InOrder(s, T)
    OBVIOUS
  <2>1. T = {}
    BY FS_Subset, FS_EmptySet
  <2>2. InOrder([i \in 1..0 |-> 0], {})
    BY FS_EmptySet DEF InOrder
  <2> QED  BY <2>1, <2>2
<1>2. ASSUME NEW n \in 1..Cardinality(S), n - 1 \in Q PROVE n \in Q
  <2> SUFFICES ASSUME NEW T \in SUBSET S, Cardinality(T) = n PROVE \E s : InOrder(s, T)
    BY FS_CardinalityType
  <2>1. IsFiniteSet(T) /\ T # {} /\ T \subseteq Nat /\ n \in Nat /\ n # 0
    <3>1. IsFiniteSet(T)
      BY FS_Subset
    <3>2. Cardinality(T) \in Nat /\ Cardinality(S) \in Nat
      BY <3>1, FS_CardinalityType
    <3>3. n \in Nat /\ n # 0
      BY <3>2
    <3>4. T # {}
      BY <3>3, FS_EmptySet
    <3> QED  BY <3>1, <3>3, <3>4
  <2>2. PICK m \in T : \A x \in T : m <= x
    BY <2>1, LeastNatural
  <2> DEFINE R == T \ {m}
  <2>3. Cardinality(R) = n - 1
    BY <2>1, <2>2, FS_RemoveElement
  <2>4. PICK r : InOrder(r, R)
    BY <1>2, <2>3
  <2>5. /\ r \in [1..(n - 1) -> R]
        /\ \A g \in R : \E i \in 1..(n - 1) : r[i] = g
        /\ \A i, j \in 1..(n - 1) : i < j => r[i] < r[j]
    BY <2>3, <2>4 DEF InOrder
  <2> DEFINE s == [i \in 1..n |-> IF i = 1 THEN m ELSE r[i - 1]]
  <2>6. ASSUME NEW i \in 1..n, i # 1
        PROVE  i - 1 \in 1..(n - 1) /\ s[i] = r[i - 1] /\ s[i] \in R /\ m < s[i]
    <3>1. i - 1 \in 1..(n - 1) /\ s[i] = r[i - 1]
      BY <2>6
    <3>2. r[i - 1] \in R
      BY <2>5, <3>1
    <3>3. r[i - 1] \in Nat /\ m \in Nat /\ r[i - 1] # m /\ m <= r[i - 1]
      BY <2>1, <2>2, <3>2
    <3> QED  BY <3>1, <3>2, <3>3
  <2>7. s[1] = m /\ 1 \in 1..n
    BY <2>1
  <2>8. DOMAIN s = 1..n /\ s \in [1..n -> T]
    BY <2>2, <2>6
  <2>9. ASSUME NEW g \in T PROVE \E i \in 1..n : s[i] = g
    <3>1. CASE g = m
      BY <2>7, <3>1
    <3>2. CASE g # m
      <4>1. PICK i \in 1..(n - 1) : r[i] = g
        BY <2>5, <3>2
      <4>2. i + 1 \in 1..n /\ s[i + 1] = r[i]
        BY <2>1
      <4> QED  BY <4>1, <4>2
    <3> QED  BY <3>1, <3>2
  <2>10. ASSUME NEW i \in 1..n, NEW j \in 1..n, i < j PROVE s[i] < s[j]
    <3>1. j # 1 /\ j - 1 \in 1..(n - 1) /\ s[j] = r[j - 1] /\ m < s[j]
      BY <2>6, <2>10
    <3>2. CASE i = 1
      BY <2>7, <3>1, <3>2
    <3>3. CASE i # 1
      <4>1. i - 1 \in 1..(n - 1) /\ s[i] = r[i - 1] /\ i - 1 < j - 1
        BY <2>6, <2>10, <3>3
      <4> HIDE DEF s
      <4> QED  BY <2>5, <3>1, <4>1
    <3> QED  BY <3>2, <3>3
  <2> HIDE DEF s
  <2>11. InOrder(s, T)
    BY <2>8, <2>9, <2>10 DEF InOrder
  <2> QED  BY <2>11
<1>3. Cardinality(S) \in Nat
  BY FS_CardinalityType
<1> HIDE DEF Q
<1>4. Cardinality(S) \in Q
  BY <1>1, <1>2, <1>3, UpTo
<1> QED  BY <1>4 DEF Q

LEMMA SortedProperties ==
    ASSUME NEW S, S \subseteq Nat, IsFiniteSet(S)
    PROVE  /\ Sorted(S) \in Seq(S)
           /\ \A g \in S : \E i \in 1..Len(Sorted(S)) : Sorted(S)[i] = g
           /\ \A i, j \in 1..Len(Sorted(S)) : Sorted(S)[i] = Sorted(S)[j] => i = j
<1> DEFINE s == Sorted(S)
           n == Cardinality(S)
<1>1. InOrder(s, S)
  <2>1. \E t \in [1..n -> S] : /\ \A g \in S : \E i \in DOMAIN t : t[i] = g
                               /\ \A i, j \in DOMAIN t : i < j => t[i] < t[j]
    BY OrderExists DEF InOrder
  <2> QED  BY <2>1 DEF Sorted, InOrder
<1> HIDE DEF s
<1>2. n \in Nat
  BY FS_CardinalityType
<1>3. s \in [1..n -> S] /\ DOMAIN s = 1..n
  BY <1>1 DEF InOrder
<1>4. s \in Seq(S) /\ Len(s) = n
  BY <1>2, <1>3
<1>5. ASSUME NEW i \in 1..n, NEW j \in 1..n, s[i] = s[j] PROVE i = j
  <2>1. s[i] \in Nat /\ s[j] \in Nat
    BY <1>3
  <2>2. ~ (s[i] < s[j]) /\ ~ (s[j] < s[i])
    BY <1>5, <2>1
  <2> QED  BY <1>1, <1>3, <2>2 DEF InOrder
<1>6. \A g \in S : \E i \in 1..n : s[i] = g
  BY <1>1, <1>3 DEF InOrder
<1> QED  BY <1>4, <1>5, <1>6 DEF s


-----------------------------------------------------------------------------
\* The groups in a list of them.
InList(s) == {s[i] : i \in 1..Len(s)}

Indices == [Groups -> SUBSET ItemJIDs]
Walks   == [index : Indices, left : Seq(Groups)]

\* What mergeItemGroups() has done when it has seen some of the old groups: those that
\* are no longer among what is left of the new ones were passed over with them, and
\* jid is gone from the others.
WalkIsSound(w, seen, index, jid, new) ==
    /\ w \in Walks
    /\ InList(w.left) \subseteq new
    /\ new \ InList(w.left) \subseteq seen
    /\ \A i, j \in 1..Len(w.left) : w.left[i] = w.left[j] => i = j
    /\ \A g \in Groups :
          w.index[g] = IF g \in seen /\ g \notin new \ InList(w.left)
                       THEN index[g] \ {jid} ELSE index[g]

LEMMA PassedIsSound ==
    ASSUME NEW seen, NEW index, NEW jid, NEW new, NEW g \in Groups, g \notin seen,
           NEW w, WalkIsSound(w, seen, index, jid, new)
    PROVE  WalkIsSound(Passed(w, g, jid), seen \union {g}, index, jid, new)
<1> DEFINE s == w.left
<1>1. /\ w.index \in Indices /\ s \in Seq(Groups) /\ w = [index |-> w.index, left |-> s]
      /\ Len(s) \in Nat
  BY LenProperties DEF WalkIsSound, Walks
<1>2. /\ InList(s) \subseteq new /\ new \ InList(s) \subseteq seen
      /\ \A i, j \in 1..Len(s) : s[i] = s[j] => i = j
      /\ \A h \in Groups : w.index[h] = IF h \in seen /\ h \notin new \ InList(s)
                                        THEN index[h] \ {jid} ELSE index[h]
  BY DEF WalkIsSound
<1>3. CASE s # <<>> /\ Head(s) = g
  <2> DEFINE t == Tail(s)
  <2>1. Passed(w, g, jid) = [index |-> w.index, left |-> t]
    BY <1>1, <1>3 DEF Passed
  <2>2. /\ t \in Seq(Groups) /\ Len(t) = Len(s) - 1
        /\ \A i \in 1..Len(t) : t[i] = s[i + 1]
        /\ s[1] = g /\ Len(s) >= 1
    BY <1>1, <1>3, EmptySeq, HeadTailProperties
  <2> HIDE DEF t
  <2>3. \A i, j \in 1..Len(t) : t[i] = t[j] => i = j
    <3> SUFFICES ASSUME NEW i \in 1..Len(t), NEW j \in 1..Len(t), t[i] = t[j] PROVE i = j
      OBVIOUS
    <3>1. i + 1 \in 1..Len(s) /\ j + 1 \in 1..Len(s) /\ s[i + 1] = s[j + 1]
      BY <1>1, <2>2
    <3>2. i + 1 = j + 1
      BY <1>2, <3>1
    <3> QED  BY <3>2
  <2>4. InList(t) = InList(s) \ {g}
    <3>1. ASSUME NEW x \in InList(t) PROVE x \in InList(s) \ {g}
      <4>1. PICK i \in 1..Len(t) : x = t[i]
        BY DEF InList
      <4>2. i + 1 \in 1..Len(s) /\ x = s[i + 1] /\ 1 \in 1..Len(s) /\ i + 1 # 1
        BY <1>1, <2>2, <4>1
      <4> QED  BY <1>2, <2>2, <4>2 DEF InList
    <3>2. ASSUME NEW x \in InList(s) \ {g} PROVE x \in InList(t)
      <4>1. PICK i \in 1..Len(s) : x = s[i]
        BY DEF InList
      <4>2. i - 1 \in 1..Len(t) /\ t[i - 1] = s[i]
        BY <1>1, <2>2, <3>2, <4>1
      <4> QED  BY <4>1, <4>2 DEF InList
    <3> QED  BY <3>1, <3>2
  <2>5. g \in InList(s)
    BY <1>1, <2>2 DEF InList
  <2> HIDE DEF s
  <2>6. new \ InList(t) = (new \ InList(s)) \union {g}
    BY <1>2, <2>4, <2>5
  <2>7. \A h \in Groups : w.index[h] = IF h \in seen \union {g} /\ h \notin new \ InList(t)
                                       THEN index[h] \ {jid} ELSE index[h]
    BY <1>2, <2>6
  <2> DEFINE r == [index |-> w.index, left |-> t]
  <2>8. r \in Walks /\ r.index = w.index /\ r.left = t
    BY <1>1, <2>2 DEF Walks
  <2> HIDE DEF r
  <2>9. WalkIsSound(r, seen \union {g}, index, jid, new)
    BY <1>2, <2>3, <2>4, <2>6, <2>7, <2>8 DEF WalkIsSound
  <2> QED  BY <2>1, <2>9 DEF r
<1>4. CASE ~ (s # <<>> /\ Head(s) = g)
  <2> DEFINE x == [w.index EXCEPT ![g] = @ \ {jid}]
  <2>1. Passed(w, g, jid) = [index |-> x, left |-> s]
    BY <1>1, <1>4 DEF Passed
  <2>2. x \in Indices /\ \A h \in Groups : x[h] = IF h = g THEN w.index[h] \ {jid}
                                                  ELSE w.index[h]
    BY <1>1 DEF Indices
  <2> HIDE DEF x, s
  <2>3. g \notin new \ InList(s)
    BY <1>2
  <2>4. \A h \in Groups : x[h] = IF h \in seen \union {g} /\ h \notin new \ InList(s)
                                 THEN index[h] \ {jid} ELSE index[h]
    BY <1>2, <2>2, <2>3
  <2> DEFINE r == [index |-> x, left |-> s]
  <2>5. r \in Walks /\ r.index = x /\ r.left = s
    BY <1>1, <2>2 DEF Walks
  <2> HIDE DEF r
  <2>6. WalkIsSound(r, seen \union {g}, index, jid, new)
    BY <1>2, <2>4, <2>5 DEF WalkIsSound
  <2> QED  BY <2>1, <2>6 DEF r
<1> QED  BY <1>3, <1>4

LEMMA GroupsAreFinite ==
    ASSUME NEW S \in SUBSET Groups
    PROVE  S \subseteq Nat /\ IsFiniteSet(S)
<1>1. IsFiniteSet(Groups)
  <2>1. Groups = ((Named \union {1}) \union {3}) \union {5}
    BY DEF Groups, AgentsGroup, Pending, Unfiled
  <2>2. IsFiniteSet(Named \union {1})
    BY RosterAssumption, FS_AddElement
  <2>3. IsFiniteSet((Named \union {1}) \union {3})
    BY <2>2, FS_AddElement
  <2> QED  BY <2>1, <2>3, FS_AddElement
<1>2. Groups \subseteq Nat
  BY RosterAssumption DEF Groups, AgentsGroup, Pending, Unfiled
<1> QED  BY <1>1, <1>2, FS_Subset

\* What is left is inserted.
Inserted(w, jid) ==
    [g \in Groups |-> IF g \in InList(w.left) THEN w.index[g] \union {jid} ELSE w.index[g]]

\* mergeItemGroups() walks through all the old groups, and inserts jid into what is left.
LEMMA MergeWalks ==
    ASSUME NEW index \in Indices, NEW jid \in ItemJIDs, NEW old \in SUBSET Groups,
           NEW new \in SUBSET Groups
    PROVE  \E w : /\ WalkIsSound(w, old, index, jid, new)
                  /\ MergeItemGroups(index, jid, old, new) = Inserted(w, jid)
<1> DEFINE olds == Sorted(old)
           news == Sorted(new)
           n == Len(olds)
           start == [index |-> index, left |-> news]
           Seen(i) == {olds[k] : k \in 1..i}
           G == [i \in 0..n |-> {w \in Walks : WalkIsSound(w, Seen(i), index, jid, new)}]
           F == [p \in Walks \X (1..n) |-> Passed(p[1], olds[p[2]], jid)]
<1>1. /\ olds \in Seq(old) /\ \A g \in old : \E i \in 1..n : olds[i] = g
      /\ \A i, j \in 1..n : olds[i] = olds[j] => i = j
      /\ news \in Seq(new) /\ \A g \in new : \E i \in 1..Len(news) : news[i] = g
      /\ \A i, j \in 1..Len(news) : news[i] = news[j] => i = j
  BY GroupsAreFinite, SortedProperties
<1>2. /\ n \in Nat /\ \A i \in 1..n : olds[i] \in old
      /\ Len(news) \in Nat /\ \A i \in 1..Len(news) : news[i] \in new
      /\ news \in Seq(Groups)
  <2> HIDE DEF olds, news
  <2> QED  BY <1>1, LenProperties, ElementOfSeq, SeqMonotonic
<1> HIDE DEF olds, news
<1> HIDE DEF n
<1>3. start \in G[0]
  <2>1. InList(start.left) = new
    <3>1. start.left = news
      OBVIOUS
    <3> HIDE DEF start
    <3>2. \A g \in new : \E i \in 1..Len(news) : news[i] = g
      BY <1>1
    <3>3. InList(news) = new
      BY <1>2, <3>2 DEF InList
    <3> QED  BY <3>1, <3>3
  <2>2. start \in Walks
    BY <1>2 DEF Walks
  <2>3. WalkIsSound(start, {}, index, jid, new)
    BY <1>1, <2>1, <2>2 DEF WalkIsSound
  <2>4. Seen(0) = {} /\ 0 \in 0..n
    BY <1>2
  <2> HIDE DEF start, Seen
  <2> QED  BY <2>2, <2>3, <2>4
<1>4. ASSUME NEW i \in 1..n, NEW w \in G[i - 1]
      PROVE  w \in Walks /\ Passed(w, olds[i], jid) \in G[i]
  <2>1. i - 1 \in 0..n /\ i \in 0..n /\ olds[i] \in Groups
    BY <1>2
  <2>2. w \in Walks /\ WalkIsSound(w, Seen(i - 1), index, jid, new)
    BY <1>4, <2>1
  <2>3. olds[i] \notin Seen(i - 1)
    <3>1. ASSUME NEW k \in 1..(i - 1) PROVE olds[k] # olds[i]
      BY <1>1, <1>2
    <3> QED  BY <3>1
  <2>4. Seen(i) = Seen(i - 1) \union {olds[i]}
    BY <1>2
  <2> HIDE DEF Seen
  <2>5. WalkIsSound(Passed(w, olds[i], jid), Seen(i), index, jid, new)
    BY <2>1, <2>2, <2>3, <2>4, PassedIsSound
  <2>6. Passed(w, olds[i], jid) \in Walks
    BY <2>5 DEF WalkIsSound
  <2> QED  BY <2>1, <2>2, <2>5, <2>6
<1> DEFINE Step(f) == [i \in 0..n |-> IF i = 0 THEN start ELSE Passed(f[i - 1], olds[i], jid)]
           walk == CHOOSE f : f = Step(f)
<1>5. \E f : f = Step(f)
  <2>1. \A i \in 1..n : \A w \in G[i - 1] : F[<<w, i>>] = Passed(w, olds[i], jid)
    <3> HIDE DEF G
    <3> QED  BY <1>4
  <2> HIDE DEF F, start
  <2>2. \A i \in 1..n : \A w \in G[i - 1] : F[<<w, i>>] \in G[i]
    <3> HIDE DEF G
    <3> QED  BY <1>4, <2>1
  <2> HIDE DEF G
  <2>3. PICK g : \A i \in 0..n : /\ g[i] = IF i = 0 THEN start ELSE F[<<g[i - 1], i>>]
                                 /\ g[i] \in G[i]
    <3>1. LeadsOn(F, start, G, n)
      BY <1>3, <2>2 DEF LeadsOn
    <3>2. PICK g : Follows(g, F, start, G, n)
      BY <1>2, <3>1, RecursionIsDefined
    <3> QED  BY <3>2 DEF Follows
  <2> DEFINE f == [i \in 0..n |-> g[i]]
  <2>4. ASSUME NEW i \in 0..n
        PROVE  f[i] = IF i = 0 THEN start ELSE Passed(f[i - 1], olds[i], jid)
    <3>1. CASE i # 0
      <4>1. i \in 1..n /\ i - 1 \in 0..n
        BY <1>2, <3>1
      <4>2. f[i] = g[i] /\ f[i - 1] = g[i - 1]
        BY <4>1
      <4> HIDE DEF f
      <4> QED  BY <2>1, <2>3, <3>1, <4>1, <4>2
    <3>2. CASE i = 0
      <4>1. f[i] = g[i]
        OBVIOUS
      <4> HIDE DEF f
      <4> QED  BY <2>3, <3>2, <4>1
    <3> QED  BY <3>1, <3>2
  <2>5. f = Step(f)
    BY <2>4
  <2> HIDE DEF Step
  <2> QED  BY <2>5
<1>6. walk = Step(walk)
  <2> HIDE DEF Step
  <2> QED  BY <1>5
<1>7. walk[n] \in G[n]
  <2> DEFINE Q == {i \in 0..n : walk[i] \in G[i]}
  <2>1. walk[0] = start /\ \A i \in 1..n : walk[i] = Passed(walk[i - 1], olds[i], jid)
    <3> HIDE DEF walk, start
    <3> QED  BY <1>2, <1>6
  <2> HIDE DEF walk, G, start
  <2>2. 0 \in Q
    BY <1>2, <1>3, <2>1
  <2>3. ASSUME NEW i \in 1..n, i - 1 \in Q PROVE i \in Q
    <3>1. i \in 0..n /\ walk[i - 1] \in G[i - 1]
      BY <1>2, <2>3
    <3>2. Passed(walk[i - 1], olds[i], jid) \in G[i]
      BY <1>4, <3>1
    <3> QED  BY <2>1, <3>1, <3>2
  <2> HIDE DEF Q
  <2>4. \A i \in 0..n : i \in Q
    BY <1>2, <2>2, <2>3, UpTo
  <2> QED  BY <1>2, <2>4 DEF Q
<1> DEFINE w == walk[n]
<1>8. WalkIsSound(w, old, index, jid, new)
  <2>1. Seen(n) = old
    <3>1. \A g \in old : g \in Seen(n)
      BY <1>1 DEF n
    <3> QED  BY <1>2, <3>1
  <2>2. n \in 0..n
    BY <1>2
  <2> HIDE DEF walk, Seen
  <2> QED  BY <1>7, <2>1, <2>2
<1>9. MergeItemGroups(index, jid, old, new) = Inserted(w, jid)
  <2>1. Range(w.left) = InList(w.left)
    <3>1. w.left \in Seq(Groups)
      BY <1>8 DEF WalkIsSound, Walks
    <3> HIDE DEF w
    <3> QED  BY <3>1, LenProperties DEF Range, InList
  <2>2. MergeItemGroups(index, jid, old, new) =
          [g \in Groups |-> IF g \in Range(w.left) THEN w.index[g] \union {jid}
                            ELSE w.index[g]]
    BY DEF MergeItemGroups, olds, news, n
  <2> HIDE DEF w
  <2> QED  BY <2>1, <2>2 DEF Inserted
<1> HIDE DEF w
<1> QED  BY <1>8, <1>9

LEMMA MergeIsIndex ==
    ASSUME NEW index \in Indices, NEW jid \in ItemJIDs, NEW old \in SUBSET Groups,
           NEW new \in SUBSET Groups
    PROVE  MergeItemGroups(index, jid, old, new) \in Indices
<1>1. PICK w : /\ WalkIsSound(w, old, index, jid, new)
               /\ MergeItemGroups(index, jid, old, new) = Inserted(w, jid)
  BY MergeWalks
<1>2. \A g \in Groups : w.index[g] \in SUBSET ItemJIDs
  BY <1>1 DEF WalkIsSound, Walks, Indices
<1> QED  BY <1>1, <1>2 DEF Inserted, Indices

\* jid is in the new groups, and no longer in the old ones.
Merged(index, jid, old, new) ==
    [g \in Groups |-> IF g \in new THEN index[g] \union {jid}
                      ELSE IF g \in old THEN index[g] \ {jid} ELSE index[g]]

\* That is what mergeItemGroups() comes to, if jid was in the old groups: it does not
\* insert jid again where it was.
LEMMA MergeProperties ==
    ASSUME NEW index \in Indices, NEW jid \in ItemJIDs, NEW old \in SUBSET Groups,
           NEW new \in SUBSET Groups, \A g \in old : jid \in index[g]
    PROVE  MergeItemGroups(index, jid, old, new) = Merged(index, jid, old, new)
<1>1. PICK w : /\ WalkIsSound(w, old, index, jid, new)
               /\ MergeItemGroups(index, jid, old, new) = Inserted(w, jid)
  BY MergeWalks
<1>2. ASSUME NEW g \in Groups
      PROVE  (IF g \in InList(w.left) THEN w.index[g] \union {jid} ELSE w.index[g]) =
                IF g \in new THEN index[g] \union {jid}
                ELSE IF g \in old THEN index[g] \ {jid} ELSE index[g]
  BY <1>1 DEF WalkIsSound
<1> QED  BY <1>1, <1>2 DEF Inserted, Merged

-----------------------------------------------------------------------------
(* Pushes. *)

ItemKeys == {FilterJID(j) : j \in ItemJIDs}

\* What a push makes of a Roster: its items under their keys, and an index.
Rosters ==
    {r \in [items : UNION {[D -> Items] : D \in SUBSET ItemKeys}, groups : Indices] :
        \A k \in DOMAIN r.items : FilterJID(r.items[k].jid) = k}

\* A push keeps what each of its items keeps.
LEMMA PushedKeeps ==
    ASSUME NEW n \in Nat, NEW list \in [1..n -> Elements], NEW R, NEW r \in R,
           \A x \in R : \A i \in 1..n : UpdateItem(x, list[i]) \in R
    PROVE  Pushed(r, list) \in R
<1> DEFINE G == [i \in 0..n |-> R]
           F == [p \in R \X (1..n) |-> UpdateItem(p[1], list[p[2]])]
           Step(f) == [i \in 0..n |-> IF i = 0 THEN r ELSE UpdateItem(f[i - 1], list[i])]
           after == CHOOSE f : f = Step(f)
<1>1. \A x \in R : \A i \in 1..n : F[<<x, i>>] = UpdateItem(x, list[i])
  OBVIOUS
<1>2. LeadsOn(F, r, G, n)
  <2>1. \A i \in 1..n : i - 1 \in 0..n /\ i \in 0..n
    OBVIOUS
  <2>2. \A i \in 0..n : G[i] = R
    OBVIOUS
  <2> HIDE DEF F, G
  <2> QED  BY <1>1, <2>1, <2>2 DEF LeadsOn
<1>3. \E f : f = Step(f)
  <2>1. PICK g : Follows(g, F, r, G, n)
    <3> HIDE DEF F, G
    <3> QED  BY <1>2, RecursionIsDefined
  <2> DEFINE f == [i \in 0..n |-> g[i]]
  <2>2. ASSUME NEW i \in 0..n
        PROVE  f[i] = IF i = 0 THEN r ELSE UpdateItem(f[i - 1], list[i])
    <3>1. g[i] = IF i = 0 THEN r ELSE F[<<g[i - 1], i>>]
      BY <2>1 DEF Follows
    <3>2. CASE i # 0
      <4>1. i \in 1..n /\ i - 1 \in 0..n
        BY <3>2
      <4>2. f[i] = g[i] /\ f[i - 1] = g[i - 1]
        BY <4>1
      <4>3. g[i - 1] \in R
        BY <2>1, <4>1 DEF Follows
      <4> HIDE DEF f, F
      <4> QED  BY <1>1, <3>1, <3>2, <4>1, <4>2, <4>3
    <3>3. CASE i = 0
      BY <3>1, <3>3
    <3> QED  BY <3>2, <3>3
  <2>3. f = Step(f)
    BY <2>2
  <2> HIDE DEF Step
  <2> QED  BY <2>3
<1>4. after = Step(after)
  <2> HIDE DEF Step
  <2> QED  BY <1>3
<1> DEFINE Q == {i \in 0..n : after[i] \in R}
<1>5. after[0] = r /\ \A i \in 1..n : after[i] = UpdateItem(after[i - 1], list[i])
  <2> HIDE DEF after
  <2> QED  BY <1>4
<1>6. after[n] \in R
  <2> HIDE DEF after
  <2>1. 0 \in Q
    BY <1>5
  <2>2. ASSUME NEW i \in 1..n, i - 1 \in Q PROVE i \in Q
    BY <1>5, <2>2
  <2> HIDE DEF Q
  <2>3. \A i \in 0..n : i \in Q
    BY <2>1, <2>2, UpTo
  <2> QED  BY <2>3 DEF Q
<1>7. Len(list) = n
  OBVIOUS
<1>8. Pushed(r, list) = after[n]
  BY <1>7 DEF Pushed
<1> QED  BY <1>6, <1>8

\* What one <item> does to the items.
LEMMA UpdateItemIs ==
    ASSUME NEW r \in Rosters, NEW e \in Elements
    PROVE  LET key   == FilterJID(e.jid)
               known == key \in DOMAIN r.items
               old   == IF known THEN r.items[key]
                        ELSE [jid |-> e.jid, groups |-> {}, online |-> FALSE]
               new   == [jid |-> e.jid, groups |-> GroupsOf(e), online |-> old.online]
               u     == UpdateItem(r, e)
           IN /\ key \in ItemKeys /\ old \in Items /\ new \in Items
              /\ known => FilterJID(old.jid) = key
              /\ e.remove /\ ~known => u = r
              /\ e.remove /\ known =>
                    u = [items  |-> [k \in DOMAIN r.items \ {key} |-> r.items[k]],
                         groups |-> RemoveItemFromAllGroups(r.groups, old)]
              /\ ~e.remove =>
                    u = [items  |-> [k \in DOMAIN r.items \union {key} |->
                                        IF k = key THEN new ELSE r.items[k]],
                         groups |-> MergeItemGroups(r.groups, e.jid, old.groups, GroupsOf(e))]
<1> DEFINE key   == FilterJID(e.jid)
           known == key \in DOMAIN r.items
           old   == IF known THEN r.items[key]
                    ELSE [jid |-> e.jid, groups |-> {}, online |-> FALSE]
           new   == [jid |-> e.jid, groups |-> GroupsOf(e), online |-> old.online]
<1>1. /\ e.jid \in ItemJIDs /\ e.named \subseteq Named /\ e.remove \in BOOLEAN
      /\ e.ask \in BOOLEAN
  BY DEF Elements
<1>2. GroupsOf(e) \subseteq Groups
  BY <1>1 DEF GroupsOf, Groups
<1>3. PICK D \in SUBSET ItemKeys : r.items \in [D -> Items]
  BY DEF Rosters
<1>4. key \in ItemKeys
  BY <1>1 DEF ItemKeys
<1>5. known => r.items[key] \in Items /\ FilterJID(r.items[key].jid) = key
  BY <1>3 DEF Rosters
<1>6. old \in Items
  BY <1>1, <1>5 DEF Items
<1> HIDE DEF known
<1>7. new \in Items
  <2> HIDE DEF old
  <2>1. old.online \in BOOLEAN
    BY <1>6 DEF Items
  <2> QED  BY <1>1, <1>2, <2>1 DEF Items
<1>8. known => FilterJID(old.jid) = key
  BY <1>5 DEF known
<1>9. UpdateItem(r, e) =
          CASE e.remove /\ ~known -> r
            [] e.remove /\ known ->
                 [items  |-> [k \in DOMAIN r.items \ {key} |-> r.items[k]],
                  groups |-> RemoveItemFromAllGroups(r.groups, old)]
            [] OTHER ->
                 [items  |-> [k \in DOMAIN r.items \union {key} |->
                                 IF k = key THEN new ELSE r.items[k]],
                  groups |-> MergeItemGroups(r.groups, e.jid, old.groups, new.groups)]
  BY DEF UpdateItem, known
<1>10. new.groups = GroupsOf(e)
  OBVIOUS
<1> HIDE DEF old, new, key
<1>11. /\ e.remove /\ ~known => UpdateItem(r, e) = r
       /\ e.remove /\ known => UpdateItem(r, e) =
                 [items  |-> [k \in DOMAIN r.items \ {key} |-> r.items[k]],
                  groups |-> RemoveItemFromAllGroups(r.groups, old)]
       /\ ~e.remove => UpdateItem(r, e) =
                 [items  |-> [k \in DOMAIN r.items \union {key} |->
                                 IF k = key THEN new ELSE r.items[k]],
                  groups |-> MergeItemGroups(r.groups, e.jid, old.groups, GroupsOf(e))]
  BY <1>9, <1>10
<1> QED  BY <1>4, <1>6, <1>7, <1>8, <1>11 DEF old, new, key, known

LEMMA RosterIs ==
    ASSUME NEW D \in SUBSET ItemKeys, NEW its \in [D -> Items], NEW idx \in Indices,
           \A k \in D : FilterJID(its[k].jid) = k
    PROVE  [items |-> its, groups |-> idx] \in Rosters
<1> DEFINE v == [items |-> its, groups |-> idx]
<1>1. v \in [items : UNION {[E -> Items] : E \in SUBSET ItemKeys}, groups : Indices]
  OBVIOUS
<1>2. v.items = its /\ DOMAIN its = D
  OBVIOUS
<1> HIDE DEF v
<1>3. v \in Rosters
  BY <1>1, <1>2 DEF Rosters
<1> QED  BY <1>3 DEF v

LEMMA UpdateItemKeepsRosters ==
    ASSUME NEW r \in Rosters, NEW e \in Elements
    PROVE  UpdateItem(r, e) \in Rosters
<1> DEFINE key   == FilterJID(e.jid)
           known == key \in DOMAIN r.items
           old   == IF known THEN r.items[key]
                    ELSE [jid |-> e.jid, groups |-> {}, online |-> FALSE]
           new   == [jid |-> e.jid, groups |-> GroupsOf(e), online |-> old.online]
           u     == UpdateItem(r, e)
<1>1. /\ key \in ItemKeys /\ old \in Items /\ new \in Items
      /\ e.remove /\ ~known => u = r
      /\ e.remove /\ known =>
            u = [items  |-> [k \in DOMAIN r.items \ {key} |-> r.items[k]],
                 groups |-> RemoveItemFromAllGroups(r.groups, old)]
      /\ ~e.remove =>
            u = [items  |-> [k \in DOMAIN r.items \union {key} |->
                                IF k = key THEN new ELSE r.items[k]],
                 groups |-> MergeItemGroups(r.groups, e.jid, old.groups, GroupsOf(e))]
  BY UpdateItemIs
<1>2. new.jid = e.jid /\ new.groups = GroupsOf(e)
  OBVIOUS
<1>3. PICK D \in SUBSET ItemKeys :
          /\ r.items \in [D -> Items]
          /\ \A k \in D : FilterJID(r.items[k].jid) = k
          /\ r.groups \in Indices
  BY DEF Rosters
<1> HIDE DEF old, new, u
<1>4. /\ e.jid \in ItemJIDs /\ e.remove \in BOOLEAN
      /\ old.groups \in SUBSET Groups /\ GroupsOf(e) \in SUBSET Groups
  BY <1>1, <1>2 DEF Items, Elements
<1>5. CASE e.remove /\ known
  <2> DEFINE its == [k \in D \ {key} |-> r.items[k]]
             idx == [g \in Groups |-> IF g \in old.groups THEN r.groups[g] \ {old.jid}
                                      ELSE r.groups[g]]
  <2>1. u = [items |-> its, groups |-> idx]
    BY <1>1, <1>3, <1>5 DEF RemoveItemFromAllGroups
  <2>2. its \in [D \ {key} -> Items] /\ \A k \in D \ {key} : its[k] = r.items[k]
    BY <1>3
  <2>3. idx \in Indices
    BY <1>3 DEF Indices
  <2>4. \A k \in D \ {key} : FilterJID(its[k].jid) = k
    BY <1>3, <2>2
  <2>5. D \ {key} \in SUBSET ItemKeys
    OBVIOUS
  <2> HIDE DEF its, idx, key
  <2>6. u \in Rosters
    BY <2>1, <2>2, <2>3, <2>4, <2>5, RosterIs
  <2> QED  BY <2>6 DEF u
<1>6. CASE ~e.remove
  <2> DEFINE its == [k \in D \union {key} |-> IF k = key THEN new ELSE r.items[k]]
             idx == MergeItemGroups(r.groups, e.jid, old.groups, GroupsOf(e))
  <2>1. u = [items |-> its, groups |-> idx]
    BY <1>1, <1>3, <1>6
  <2>2. /\ its \in [D \union {key} -> Items] /\ its[key] = new
        /\ \A k \in D \ {key} : its[k] = r.items[k]
        /\ D \union {key} \in SUBSET ItemKeys
    BY <1>1, <1>3
  <2>3. idx \in Indices
    BY <1>3, <1>4, MergeIsIndex
  <2>4. \A k \in D \union {key} : FilterJID(its[k].jid) = k
    BY <1>2, <1>3, <2>2
  <2> HIDE DEF its, idx, key
  <2>5. u \in Rosters
    BY <2>1, <2>2, <2>3, <2>4, RosterIs
  <2> QED  BY <2>5 DEF u
<1> QED  BY <1>1, <1>4, <1>5, <1>6 DEF u

-----------------------------------------------------------------------------
(* The index of the groups. *)

\* The server writes each JabberID that the Roster tells apart in one way.
WrittenInOneWay == \A i, j \in ItemJIDs : FilterJID(i) = FilterJID(j) => i = j

\* The index by members: j is in a group just when its item is.
IsIndex(its, index) ==
    \A j \in ItemJIDs : \A g \in Groups :
        j \in index[g] <=> /\ FilterJID(j) \in DOMAIN its
                           /\ g \in its[FilterJID(j)].groups

Indexed == {r \in Rosters : IsIndex(r.items, r.groups)}

LEMMA UpdateItemKeepsIndex ==
    ASSUME WrittenInOneWay, NEW r \in Indexed, NEW e \in Elements
    PROVE  UpdateItem(r, e) \in Indexed
<1> DEFINE key   == FilterJID(e.jid)
           known == key \in DOMAIN r.items
           old   == IF known THEN r.items[key]
                    ELSE [jid |-> e.jid, groups |-> {}, online |-> FALSE]
           new   == [jid |-> e.jid, groups |-> GroupsOf(e), online |-> old.online]
           u     == UpdateItem(r, e)
<1>1. r \in Rosters /\ IsIndex(r.items, r.groups)
  BY DEF Indexed
<1>2. /\ key \in ItemKeys /\ old \in Items /\ new \in Items
      /\ known => FilterJID(old.jid) = key
      /\ e.remove /\ ~known => u = r
      /\ e.remove /\ known =>
            u = [items  |-> [k \in DOMAIN r.items \ {key} |-> r.items[k]],
                 groups |-> RemoveItemFromAllGroups(r.groups, old)]
      /\ ~e.remove =>
            u = [items  |-> [k \in DOMAIN r.items \union {key} |->
                                IF k = key THEN new ELSE r.items[k]],
                 groups |-> MergeItemGroups(r.groups, e.jid, old.groups, GroupsOf(e))]
  BY <1>1, UpdateItemIs
<1>3. e.jid \in ItemJIDs /\ e.remove \in BOOLEAN /\ r.groups \in Indices
  BY <1>1 DEF Elements, Rosters
<1>4. PICK D \in SUBSET ItemKeys :
          /\ r.items \in [D -> Items]
          /\ \A k \in D : FilterJID(r.items[k].jid) = k
  BY <1>1 DEF Rosters
<1>5. \A j \in ItemJIDs : FilterJID(j) = key <=> j = e.jid
  BY <1>3 DEF WrittenInOneWay
<1>6. /\ known => old = r.items[key]
      /\ ~known => old.groups = {}
      /\ new.jid = e.jid /\ new.groups = GroupsOf(e)
      /\ old.groups \subseteq Groups /\ old.jid \in ItemJIDs /\ GroupsOf(e) \subseteq Groups
  <2>1. /\ known => old = r.items[key]
        /\ ~known => old.groups = {}
    OBVIOUS
  <2>2. new.jid = e.jid /\ new.groups = GroupsOf(e)
    OBVIOUS
  <2> HIDE DEF old, new, key
  <2> QED  BY <1>2, <2>1, <2>2 DEF Items
<1>7. \A g \in Groups : e.jid \in r.groups[g] <=> g \in old.groups
  <2> HIDE DEF old, key
  <2> QED  BY <1>1, <1>3, <1>6 DEF IsIndex, key
<1> HIDE DEF old, new, u, key
<1>8. CASE e.remove /\ known
  <2> DEFINE its == [k \in D \ {key} |-> r.items[k]]
             idx == [g \in Groups |-> IF g \in old.groups THEN r.groups[g] \ {old.jid}
                                      ELSE r.groups[g]]
  <2>1. u = [items |-> its, groups |-> idx] /\ old.jid = e.jid
    BY <1>2, <1>4, <1>5, <1>6, <1>8 DEF RemoveItemFromAllGroups
  <2>2. its \in [D \ {key} -> Items] /\ \A k \in D \ {key} : its[k] = r.items[k]
    BY <1>4
  <2>3. ASSUME NEW j \in ItemJIDs, NEW g \in Groups
        PROVE  j \in idx[g] <=> FilterJID(j) \in D \ {key} /\ g \in its[FilterJID(j)].groups
    <3>1. idx[g] = IF g \in old.groups THEN r.groups[g] \ {e.jid} ELSE r.groups[g]
      BY <2>1
    <3>2. CASE j = e.jid
      BY <1>5, <1>7, <3>1, <3>2
    <3>3. CASE j # e.jid
      <4>1. FilterJID(j) # key /\ (j \in idx[g] <=> j \in r.groups[g])
        BY <1>5, <3>1, <3>3
      <4> HIDE DEF its, idx
      <4> QED  BY <1>1, <1>4, <2>2, <4>1 DEF IsIndex
    <3> QED  BY <3>2, <3>3
  <2> HIDE DEF its, idx
  <2> DEFINE v == [items |-> its, groups |-> idx]
  <2>4. v.items = its /\ v.groups = idx
    OBVIOUS
  <2>5. v \in Rosters
    BY <1>1, <2>1, UpdateItemKeepsRosters DEF u
  <2> HIDE DEF v
  <2>6. v \in Indexed
    BY <2>2, <2>3, <2>4, <2>5 DEF Indexed, IsIndex
  <2> QED  BY <2>1, <2>6 DEF u, v
<1>9. CASE ~e.remove
  <2> DEFINE its == [k \in D \union {key} |-> IF k = key THEN new ELSE r.items[k]]
             idx == MergeItemGroups(r.groups, e.jid, old.groups, GroupsOf(e))
  <2>1. u = [items |-> its, groups |-> idx]
    BY <1>2, <1>4, <1>9
  <2>2. /\ its \in [D \union {key} -> Items] /\ its[key] = new
        /\ \A k \in D \ {key} : its[k] = r.items[k]
    BY <1>2, <1>4
  <2>3. /\ idx \in Indices
        /\ \A g \in Groups :
              idx[g] = IF g \in GroupsOf(e) THEN r.groups[g] \union {e.jid}
                       ELSE IF g \in old.groups THEN r.groups[g] \ {e.jid}
                       ELSE r.groups[g]
    <3>1. \A g \in old.groups : e.jid \in r.groups[g]
      BY <1>6, <1>7
    <3>2. old.groups \in SUBSET Groups /\ GroupsOf(e) \in SUBSET Groups
      BY <1>6
    <3>3. idx = Merged(r.groups, e.jid, old.groups, GroupsOf(e))
      BY <1>3, <3>1, <3>2, MergeProperties
    <3> HIDE DEF idx
    <3> QED  BY <1>3, <3>3 DEF Merged, Indices
  <2> HIDE DEF its, idx
  <2>4. ASSUME NEW j \in ItemJIDs, NEW g \in Groups
        PROVE  j \in idx[g] <=>
                  FilterJID(j) \in D \union {key} /\ g \in its[FilterJID(j)].groups
    <3>1. CASE j = e.jid
      <4>1. FilterJID(j) = key
        BY <3>1 DEF key
      <4>2. j \in idx[g] <=> g \in GroupsOf(e)
        BY <1>7, <2>3, <3>1
      <4> QED  BY <1>6, <2>2, <4>1, <4>2
    <3>2. CASE j # e.jid
      <4>1. FilterJID(j) # key /\ (j \in idx[g] <=> j \in r.groups[g])
        BY <1>5, <2>3, <3>2
      <4> QED  BY <1>1, <1>4, <2>2, <4>1 DEF IsIndex
    <3> QED  BY <3>1, <3>2
  <2> DEFINE v == [items |-> its, groups |-> idx]
  <2>5. v.items = its /\ v.groups = idx
    OBVIOUS
  <2>6. v \in Rosters
    BY <1>1, <2>1, UpdateItemKeepsRosters DEF u
  <2> HIDE DEF v
  <2>7. v \in Indexed
    BY <2>2, <2>4, <2>5, <2>6 DEF Indexed, IsIndex
  <2> QED  BY <2>1, <2>7 DEF u, v
<1>10. CASE e.remove /\ ~known
  BY <1>2, <1>10 DEF u
<1> QED  BY <1>3, <1>8, <1>9, <1>10 DEF u

\* The inductive invariant of the index.
IndexInv == [items |-> items, groups |-> groups] \in Indexed

LEMMA PushKeepsIndex ==
    ASSUME WrittenInOneWay, IndexInv, RosterPush
    PROVE  IndexInv'
<1> DEFINE r == [items |-> items, groups |-> groups]
<1>0. PICK n \in 1..MaxList : \E list \in [1..n -> Elements] :
          items' = Pushed(r, list).items /\ groups' = Pushed(r, list).groups
  BY DEF RosterPush
<1>1. PICK list \in [1..n -> Elements] :
          items' = Pushed(r, list).items /\ groups' = Pushed(r, list).groups
  BY <1>0
<1>2. n \in Nat
  BY RosterAssumption
<1>3. \A x \in Indexed : \A i \in 1..n : UpdateItem(x, list[i]) \in Indexed
  BY UpdateItemKeepsIndex
<1>4. r \in Indexed
  BY DEF IndexInv
<1> DEFINE u == Pushed(r, list)
<1> HIDE DEF r
<1>5. u \in Indexed
  BY <1>2, <1>3, <1>4, PushedKeeps
<1>6. items' = u.items /\ groups' = u.groups
  BY <1>1
<1> HIDE DEF u
<1>7. u = [items |-> u.items, groups |-> u.groups]
  BY <1>5 DEF Indexed, Rosters
<1> QED  BY <1>5, <1>6, <1>7 DEF IndexInv

LEMMA PresenceKeepsIndex ==
    ASSUME IndexInv, HandlePresence
    PROVE  IndexInv'
<1>1. PICK j : UpdatePresence(j) /\ groups' = groups
  BY DEF HandlePresence
<1> DEFINE r == [items |-> items, groups |-> groups]
           v == [items |-> items', groups |-> groups']
<1>2. PICK D \in SUBSET ItemKeys :
          /\ items \in [D -> Items]
          /\ \A k \in D : FilterJID(items[k].jid) = k
          /\ groups \in Indices
          /\ IsIndex(items, groups)
  <2>1. r \in Rosters /\ IsIndex(r.items, r.groups)
    BY DEF IndexInv, Indexed
  <2> QED  BY <2>1 DEF Rosters
<1>3. /\ items' \in [D -> Items]
      /\ \A k \in D : items'[k].jid = items[k].jid /\ items'[k].groups = items[k].groups
  <2>1. PICK b \in BOOLEAN : items' = [k \in DOMAIN items |->
            IF k = FilterJID(j) THEN [items[k] EXCEPT !.online = b] ELSE items[k]]
    BY <1>1 DEF UpdatePresence, PDB!Available
  <2>2. ASSUME NEW x \in Items
        PROVE  LET y == [x EXCEPT !.online = b]
               IN y \in Items /\ y.jid = x.jid /\ y.groups = x.groups
    BY DEF Items
  <2>3. ASSUME NEW k \in D
        PROVE  /\ items'[k] \in Items
               /\ items'[k].jid = items[k].jid /\ items'[k].groups = items[k].groups
    <3>1. items[k] \in Items
      BY <1>2
    <3>2. items'[k] = IF k = FilterJID(j) THEN [items[k] EXCEPT !.online = b] ELSE items[k]
      BY <1>2, <2>1
    <3> QED  BY <2>2, <3>1, <3>2
  <2>4. items' = [k \in D |-> items'[k]]
    BY <1>2, <2>1
  <2> QED  BY <2>3, <2>4
<1>4. v.items = items' /\ v.groups = groups
  BY <1>1
<1>5. v \in Rosters
  BY <1>1, <1>2, <1>3 DEF Rosters
<1>6. IsIndex(items', groups)
  BY <1>2, <1>3 DEF IsIndex
<1> HIDE DEF v
<1>7. v \in Indexed
  BY <1>4, <1>5, <1>6 DEF Indexed
<1> QED  BY <1>7 DEF v, IndexInv

\* IndexIsExact: whatever pushes added, changed and removed, the index of the groups says
\* of each group just who is in it; within one stream, as reset() leaves the index as it is,
\* and if each JabberID is written in one way, as the index has them as they are written.
THEOREM IndexIsExactAlways ==
    WrittenInOneWay /\ "end" \notin Habits => (Spec => []IndexIsExact)
<1> SUFFICES ASSUME WrittenInOneWay, "end" \notin Habits PROVE Spec => []IndexIsExact
  OBVIOUS
<1>1. Init => IndexInv
  <2> SUFFICES ASSUME Init PROVE IndexInv
    OBVIOUS
  <2> DEFINE index == [g \in Groups |-> {}]
             v == [items |-> <<>>, groups |-> index]
  <2>1. items = <<>> /\ groups = index
    BY DEF Init
  <2>2. <<>> \in [{} -> Items] /\ index \in Indices
    BY DEF Indices
  <2>3. v \in Rosters
    BY <2>2 DEF Rosters
  <2>4. IsIndex(<<>>, index)
    BY DEF IsIndex
  <2>5. v \in Indexed
    BY <2>3, <2>4 DEF Indexed
  <2> QED  BY <2>1, <2>5 DEF IndexInv
<1>2. IndexInv /\ [Next]_vars => IndexInv'
  <2> SUFFICES ASSUME IndexInv, [Next]_vars PROVE IndexInv'
    OBVIOUS
  <2>1. CASE RosterPush
    BY <2>1, PushKeepsIndex
  <2>2. CASE HandlePresence
    BY <2>2, PresenceKeepsIndex
  <2>3. CASE DocumentEnd
    BY <2>3 DEF DocumentEnd
  <2>4. CASE ClearItems
    BY <2>4 DEF ClearItems
  <2>5. CASE UNCHANGED vars
    BY <2>5 DEF vars, IndexInv
  <2> QED  BY <2>1, <2>2, <2>3, <2>4, <2>5 DEF Next
<1>3. IndexInv => IndexIsExact
  <2> SUFFICES ASSUME IndexInv, NEW g \in Groups
               PROVE  groups[g] = {items[k].jid : k \in {h \in DOMAIN items : g \in items[h].groups}}
    BY DEF IndexIsExact
  <2> DEFINE r == [items |-> items, groups |-> groups]
  <2>1. PICK D \in SUBSET ItemKeys :
            /\ items \in [D -> Items]
            /\ \A k \in D : FilterJID(items[k].jid) = k
            /\ groups \in Indices
            /\ IsIndex(items, groups)
    <3>1. r \in Rosters /\ IsIndex(r.items, r.groups)
      BY DEF IndexInv, Indexed
    <3> QED  BY <3>1 DEF Rosters
  <2>2. ASSUME NEW k \in D PROVE items[k].jid \in ItemJIDs
    BY <2>1 DEF Items
  <2>3. ASSUME NEW j \in groups[g]
        PROVE  \E k \in {h \in DOMAIN items : g \in items[h].groups} : j = items[k].jid
    <3>1. j \in ItemJIDs
      BY <2>1 DEF Indices
    <3>2. FilterJID(j) \in DOMAIN items /\ g \in items[FilterJID(j)].groups
      BY <2>1, <3>1 DEF IsIndex
    <3>3. items[FilterJID(j)].jid \in ItemJIDs
          /\ FilterJID(items[FilterJID(j)].jid) = FilterJID(j)
      BY <2>1, <2>2, <3>2
    <3>4. items[FilterJID(j)].jid = j
      BY <3>1, <3>3 DEF WrittenInOneWay
    <3> QED  BY <3>2, <3>4
  <2>4. ASSUME NEW k \in {h \in DOMAIN items : g \in items[h].groups}
        PROVE  items[k].jid \in groups[g]
    <3>1. items[k].jid \in ItemJIDs /\ FilterJID(items[k].jid) = k
      BY <2>1, <2>2
    <3> QED  BY <2>1, <2>4, <3>1 DEF IsIndex
  <2> QED  BY <2>3, <2>4
<1> QED  BY <1>1, <1>2, <1>3, PTL DEF Spec

-----------------------------------------------------------------------------
(* Who is online. *)

\* A presence says that somebody is available or that he is not.
AvailableOrNot == Types \subseteq PDB!Absent \union {"ptAvailable"}

\* A service is there once.
AgentsInOnePlace == \A i, j \in JIDs : i.bare = j.bare /\ i.bare \in Agents => i = j

\* The keys of those of whom the application was last told that they are available.
LitBy(t) == {FilterJID(j) : j \in {i \in JIDs : t[i] = "ptAvailable"}}

\* Just the items with these keys are online, and all of them are there.
Lit(T) == {r \in Rosters : /\ T \subseteq DOMAIN r.items
                           /\ \A k \in DOMAIN r.items : r.items[k].online <=> k \in T}

\* An <item> leaves the others as they are and, if it is new, is of somebody who is not
\* there, so that it is right to have it offline.
LEMMA UpdateItemKeepsLit ==
    ASSUME NEW T, NEW r \in Lit(T), NEW e \in Elements, e.remove => FilterJID(e.jid) \notin T
    PROVE  UpdateItem(r, e) \in Lit(T)
<1> DEFINE key   == FilterJID(e.jid)
           known == key \in DOMAIN r.items
           old   == IF known THEN r.items[key]
                    ELSE [jid |-> e.jid, groups |-> {}, online |-> FALSE]
           new   == [jid |-> e.jid, groups |-> GroupsOf(e), online |-> old.online]
           u     == UpdateItem(r, e)
<1>1. /\ r \in Rosters /\ T \subseteq DOMAIN r.items
      /\ \A k \in DOMAIN r.items : r.items[k].online <=> k \in T
  BY DEF Lit
<1>2. /\ e.remove /\ ~known => u = r
      /\ e.remove /\ known =>
            u = [items  |-> [k \in DOMAIN r.items \ {key} |-> r.items[k]],
                 groups |-> RemoveItemFromAllGroups(r.groups, old)]
      /\ ~e.remove =>
            u = [items  |-> [k \in DOMAIN r.items \union {key} |->
                                IF k = key THEN new ELSE r.items[k]],
                 groups |-> MergeItemGroups(r.groups, e.jid, old.groups, GroupsOf(e))]
  BY <1>1, UpdateItemIs
<1>3. u \in Rosters /\ e.remove \in BOOLEAN
  BY <1>1, UpdateItemKeepsRosters DEF Elements
<1>4. (new.online <=> key \in T)
  <2>1. new.online = old.online
    OBVIOUS
  <2>2. CASE known
    BY <1>1, <2>1, <2>2
  <2>3. CASE ~known
    BY <1>1, <2>1, <2>3
  <2> QED  BY <2>2, <2>3
<1> DEFINE D == DOMAIN r.items
<1> HIDE DEF new, old, key
<1>5. CASE e.remove /\ known
  <2> DEFINE its == [k \in D \ {key} |-> r.items[k]]
  <2>1. u.items = its
    BY <1>2, <1>5
  <2>2. DOMAIN its = D \ {key} /\ \A k \in D \ {key} : its[k] = r.items[k]
    OBVIOUS
  <2>3. key \notin T
    BY <1>5 DEF key
  <2> HIDE DEF its, u
  <2> QED  BY <1>1, <1>3, <2>1, <2>2, <2>3 DEF Lit, u
<1>6. CASE ~e.remove
  <2> DEFINE its == [k \in D \union {key} |-> IF k = key THEN new ELSE r.items[k]]
  <2>1. u.items = its
    BY <1>2, <1>6
  <2>2. DOMAIN its = D \union {key} /\ its[key] = new
        /\ \A k \in D \ {key} : its[k] = r.items[k]
    OBVIOUS
  <2> HIDE DEF its, u
  <2>3. \A k \in DOMAIN its : its[k].online <=> k \in T
    BY <1>1, <1>4, <2>2
  <2> QED  BY <1>1, <1>3, <2>1, <2>2, <2>3 DEF Lit, u
<1> QED  BY <1>2, <1>3, <1>5, <1>6 DEF u

\* Whether the default presence of b is available, from what was told of those at b.
LEMMA DefaultIsTold ==
    ASSUME AvailableOrNot, NEW b, NEW list, P!SoundList(b, list), NEW t,
           \A j \in JIDs : t[j] \in Types \union {"ptUnavailable"},
           \A j \in JIDs : j.bare = b =>
               (t[j] \notin PDB!Absent <=> PDB!Position(list, j) # 0)
    PROVE  list # <<>> /\ Head(list).type = "ptAvailable"
              <=> \E j \in JIDs : j.bare = b /\ t[j] = "ptAvailable"
<1>1. /\ list \in Seq(P!There) /\ \A i \in 1..Len(list) : list[i].from.bare = b
      /\ Len(list) \in Nat
  BY LenProperties DEF P!SoundList
<1>2. \A j \in JIDs : PDB!Position(list, j) # 0 <=> \E q \in P!Members(list) : q.from = j
  BY PositionIsListed
<1>3. "ptAvailable" \notin PDB!Absent /\ "ptUnavailable" \in PDB!Absent
      /\ P!Absent = PDB!Absent
  BY AssumptionOfPresenceDB DEF PDB!Absent
<1>4. \A j \in JIDs : t[j] = "ptAvailable" <=> t[j] \notin PDB!Absent
  BY <1>3 DEF AvailableOrNot
<1>5. list # <<>> => /\ 1 \in 1..Len(list) /\ Head(list) = list[1]
                     /\ list[1] \in P!There /\ list[1] \in P!Members(list)
  <2> SUFFICES ASSUME list # <<>> PROVE /\ 1 \in 1..Len(list) /\ Head(list) = list[1]
                                        /\ list[1] \in P!There /\ list[1] \in P!Members(list)
    OBVIOUS
  <2>1. 1 \in 1..Len(list)
    BY <1>1, EmptySeq
  <2>2. Head(list) = list[1]
    BY <1>1, HeadTailProperties
  <2> QED  BY <1>1, <2>1, <2>2, ElementOfSeq DEF P!Members
<1>6. \A q \in P!There : q.from \in JIDs /\ q.type = "ptAvailable"
  BY <1>3 DEF P!There, P!Presences, AvailableOrNot
<1>7. ASSUME list # <<>> PROVE \E j \in JIDs : j.bare = b /\ t[j] = "ptAvailable"
  <2>1. list[1].from \in JIDs /\ list[1].from.bare = b
    BY <1>1, <1>5, <1>6, <1>7
  <2>2. PDB!Position(list, list[1].from) # 0
    BY <1>2, <1>5, <1>7, <2>1
  <2> QED  BY <1>4, <2>1, <2>2
<1>8. ASSUME NEW j \in JIDs, j.bare = b, t[j] = "ptAvailable"
      PROVE  list # <<>> /\ Head(list).type = "ptAvailable"
  <2>1. PICK q \in P!Members(list) : q.from = j
    BY <1>2, <1>4, <1>8
  <2>2. list # <<>>
    BY <1>1, <2>1 DEF P!Members
  <2> QED  BY <1>5, <1>6, <2>2
<1> QED  BY <1>7, <1>8

\* The inductive invariant.  Those who are available have items, so that a push can
\* neither bring an item that would have to be online nor take one away that is.
OnlineInv ==
    /\ ToldInv
    /\ [items |-> items, groups |-> groups] \in Lit(LitBy(told))

(* A key is of the user@host that it is made for: filterJID(). *)
LEMMA KeyOfBare == ASSUME NEW x PROVE FilterJID(x).bare = x.bare
<1>1. CASE x.bare \in Agents
  BY <1>1 DEF FilterJID
<1>2. CASE x.bare \notin Agents
  BY <1>2 DEF FilterJID
<1> QED  BY <1>1, <1>2

LEMMA PushKeepsOnline ==
    ASSUME "early" \notin Habits, OnlineInv, RosterPush
    PROVE  OnlineInv'
<1> DEFINE r == [items |-> items, groups |-> groups]
           T == LitBy(told)
<1>1. PICK n \in 1..MaxList : \E list \in [1..n -> Elements] :
          /\ \A i \in 1..n : list[i].remove => ~PDB!ContainsJID(list[i].jid.bare)
          /\ items' = Pushed(r, list).items /\ groups' = Pushed(r, list).groups
          /\ UNCHANGED <<db, told>>
  BY DEF RosterPush
<1>2. PICK list \in [1..n -> Elements] :
          /\ \A i \in 1..n : list[i].remove => ~PDB!ContainsJID(list[i].jid.bare)
          /\ items' = Pushed(r, list).items /\ groups' = Pushed(r, list).groups
          /\ UNCHANGED <<db, told>>
  BY <1>1
<1>3. ASSUME NEW i \in 1..n, list[i].remove, NEW j \in JIDs, told[j] = "ptAvailable"
      PROVE  FilterJID(j) # FilterJID(list[i].jid)
  <2> SUFFICES ASSUME FilterJID(j) = FilterJID(list[i].jid) PROVE FALSE
    OBVIOUS
  <2>1. j.bare = list[i].jid.bare
    <3>1. FilterJID(j).bare = j.bare
      BY KeyOfBare
    <3>2. FilterJID(list[i].jid).bare = list[i].jid.bare
      BY KeyOfBare
    <3> QED  BY <3>1, <3>2
  <2>2. PDB!Position(PDB!Entry(j.bare), j) # 0
    BY <1>3 DEF OnlineInv, ToldInv, ToldIsKnown, PDB!Absent
  <2>3. PDB!Entry(j.bare) = <<>>
    BY <1>2, <1>3, <2>1 DEF PDB!Entry, PDB!ContainsJID
  <2>4. PDB!Position(<<>>, j) = 0
    BY DEF PDB!Position, PDB!SelectInSeq
  <2> QED  BY <2>2, <2>3, <2>4
<1>4. \A i \in 1..n : list[i].remove => FilterJID(list[i].jid) \notin T
  BY <1>3 DEF LitBy
<1>5. r \in Lit(T)
  BY DEF OnlineInv
<1> DEFINE u == Pushed(r, list)
<1> HIDE DEF r, T
<1>6. \A x \in Lit(T) : \A i \in 1..n : UpdateItem(x, list[i]) \in Lit(T)
  <2>1. \A i \in 1..n : list[i] \in Elements
    OBVIOUS
  <2> QED  BY <1>4, <2>1, UpdateItemKeepsLit
<1>7. n \in Nat
  BY RosterAssumption
<1>8. u \in Lit(T)
  BY <1>5, <1>6, <1>7, PushedKeeps
<1>9. items' = u.items /\ groups' = u.groups
  BY <1>2
<1> HIDE DEF u
<1>10. u = [items |-> u.items, groups |-> u.groups]
  BY <1>8 DEF Lit, Rosters
<1>11. ToldInv' /\ T = LitBy(told')
  BY <1>2 DEF OnlineInv, ToldInv, ToldIsKnown, P!IInv, PDB!Entry, T
<1> QED  BY <1>8, <1>9, <1>10, <1>11 DEF OnlineInv

LEMMA PresenceKeepsOnline ==
    ASSUME AvailableOrNot, AgentsInOnePlace, "early" \notin Habits, OnlineInv, HandlePresence
    PROVE  OnlineInv'
<1>1. PICK p \in PDB!Presences : /\ FilterJID(p.from) \in DOMAIN items
                                 /\ UpdatePresence(p.from)
                                 /\ told' = [told EXCEPT ![p.from] = p.type]
                                 /\ groups' = groups
  BY DEF HandlePresence
<1> DEFINE b == p.from.bare
           key == FilterJID(p.from)
           on == PDB!Available(b)'
           T == LitBy(told)
           U == LitBy(told')
           r == [items |-> items, groups |-> groups]
           v == [items |-> items', groups |-> groups']
<1>2. ToldInv'
  BY HandlePresenceKeepsTold DEF OnlineInv
<1>3. p.from \in JIDs /\ told \in [JIDs -> Types \union {"ptUnavailable"}]
  BY <1>1 DEF PDB!Presences, OnlineInv, ToldInv
<1>4. \A j \in JIDs : j.bare = b <=> FilterJID(j) = key
  BY <1>3 DEF AgentsInOnePlace, FilterJID
<1>5. on <=> key \in U
  <2>1. P!SoundList(b, PDB!Entry(b)')
    BY <1>2 DEF ToldInv, P!IInv, PDB!Entry, P!SoundList
  <2>2. \A j \in JIDs : j.bare = b =>
            (told'[j] \notin PDB!Absent <=> PDB!Position(PDB!Entry(b)', j) # 0)
    BY <1>2 DEF ToldInv, ToldIsKnown
  <2>3. \A j \in JIDs : told'[j] \in Types \union {"ptUnavailable"}
    BY <1>2 DEF ToldInv
  <2>4. on <=> \E j \in JIDs : j.bare = b /\ told'[j] = "ptAvailable"
    BY <2>1, <2>2, <2>3, DefaultIsTold DEF PDB!Available
  <2> QED  BY <1>4, <2>4 DEF LitBy
<1>6. ASSUME NEW k, k # key PROVE k \in T <=> k \in U
  <2>1. \A j \in JIDs : j # p.from => told'[j] = told[j]
    BY <1>1, <1>3
  <2> QED  BY <1>6, <2>1 DEF LitBy
<1>7. /\ r \in Rosters /\ T \subseteq DOMAIN items
      /\ \A k \in DOMAIN items : items[k].online <=> k \in T
  BY DEF OnlineInv, Lit
<1>8. PICK D \in SUBSET ItemKeys :
          /\ items \in [D -> Items]
          /\ \A k \in D : FilterJID(items[k].jid) = k
          /\ groups \in Indices
  BY <1>7 DEF Rosters
<1>9. on \in BOOLEAN
  BY DEF PDB!Available
<1>10. items' = [k \in D |-> IF k = key THEN [items[k] EXCEPT !.online = on] ELSE items[k]]
  BY <1>1, <1>8 DEF UpdatePresence
<1> HIDE DEF on, key, T, U, r
<1>11. ASSUME NEW x \in Items
       PROVE  LET y == [x EXCEPT !.online = on]
              IN y \in Items /\ y.jid = x.jid /\ y.online = on
  BY <1>9 DEF Items
<1>12. ASSUME NEW k \in D
       PROVE  /\ items'[k] \in Items /\ items'[k].jid = items[k].jid
              /\ items'[k].online <=> k \in U
  <2>1. items[k] \in Items /\ (items[k].online <=> k \in T)
    BY <1>7, <1>8
  <2>2. CASE k = key
    <3>1. items'[k] = [items[k] EXCEPT !.online = on]
      BY <1>10, <2>2
    <3>2. items'[k] \in Items /\ items'[k].jid = items[k].jid /\ items'[k].online = on
      BY <1>11, <2>1, <3>1
    <3> QED  BY <1>5, <2>2, <3>2
  <2>3. CASE k # key
    <3>1. items'[k] = items[k]
      BY <1>10, <2>3
    <3> QED  BY <1>6, <2>1, <2>3, <3>1
  <2> QED  BY <2>2, <2>3
<1>13. items' \in [D -> Items] /\ U \subseteq D
  <2>1. key \in D
    BY <1>1, <1>8 DEF key
  <2>2. U \subseteq D
    BY <1>6, <1>7, <1>8, <2>1
  <2> QED  BY <1>10, <1>12, <2>2
<1>14. v.items = items' /\ v.groups = groups
  BY <1>1
<1> HIDE DEF v
<1>15. v \in Lit(U)
  <2>1. v \in Rosters
    BY <1>1, <1>8, <1>12, <1>13, <1>14 DEF Rosters, v
  <2> QED  BY <1>12, <1>13, <1>14, <2>1 DEF Lit
<1> QED  BY <1>2, <1>15 DEF v, U, OnlineInv

\* OnlineIsTruth: an item is online just when the application was last told of somebody
\* who goes by its key that he is available, whatever is pushed while he comes and goes;
\* if presence comes only from those who have items and items go only when their
\* presence has gone, within one stream.
THEOREM OnlineIsTruthAlways ==
    Habits = {} /\ AvailableOrNot /\ AgentsInOnePlace => (Spec => []OnlineIsTruth)
<1> SUFFICES ASSUME Habits = {}, AvailableOrNot, AgentsInOnePlace
             PROVE  Spec => []OnlineIsTruth
  OBVIOUS
<1>1. Init => OnlineInv
  <2> SUFFICES ASSUME Init PROVE OnlineInv
    OBVIOUS
  <2> DEFINE index == [g \in Groups |-> {}]
             v == [items |-> <<>>, groups |-> index]
  <2>1. items = <<>> /\ groups = index /\ told = [j \in JIDs |-> "ptUnavailable"]
    BY DEF Init
  <2>2. <<>> \in [{} -> Items] /\ index \in Indices
    BY DEF Indices
  <2>3. v \in Rosters
    BY <2>2 DEF Rosters
  <2>4. LitBy(told) = {}
    BY <2>1 DEF LitBy
  <2>5. v \in Lit({})
    BY <2>3 DEF Lit
  <2> QED  BY <2>1, <2>4, <2>5, InitTold DEF OnlineInv
<1>2. OnlineInv /\ [Next]_vars => OnlineInv'
  <2> SUFFICES ASSUME OnlineInv, [Next]_vars PROVE OnlineInv'
    OBVIOUS
  <2>1. CASE RosterPush
    BY <2>1, PushKeepsOnline
  <2>2. CASE HandlePresence
    BY <2>2, PresenceKeepsOnline
  <2>3. CASE DocumentEnd
    BY <2>3 DEF DocumentEnd
  <2>4. CASE ClearItems
    BY <2>4 DEF ClearItems
  <2>5. CASE UNCHANGED vars
    BY <2>5 DEF vars, OnlineInv, ToldInv, ToldIsKnown, P!IInv, PDB!Entry
  <2> QED  BY <2>1, <2>2, <2>3, <2>4, <2>5 DEF Next
<1>3. OnlineInv => OnlineIsTruth
  <2> SUFFICES ASSUME OnlineInv, NEW k \in DOMAIN items
               PROVE  items[k].online
                         <=> \E j \in JIDs : FilterJID(j) = k /\ told[j] = "ptAvailable"
    BY DEF OnlineIsTruth
  <2> QED  BY DEF OnlineInv, Lit, LitBy
<1> QED  BY <1>1, <1>2, <1>3, PTL DEF Spec
=============================================================================
