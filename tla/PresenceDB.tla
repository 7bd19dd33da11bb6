----------------------------- MODULE PresenceDB -----------------------------
(***************************************************************************)
(* jabberoo::PresenceDB: for every user@host the list of the presences of   *)
(* its resources, the one of highest priority first.                        *)
(*                                                                          *)
(* A JabberID is a record of its user@host, bare, and its resource, res, "" *)
(* for none.  The keys of _DB are compared without regard to case, so a     *)
(* bare stands for all the ways to write it.                                *)
(***************************************************************************)
EXTENDS Integers, Sequences, SequencesExt

CONSTANTS JIDs, Priorities, Types, None

PresenceTypes == {"ptAvailable", "ptInvisible", "ptSubscribed",
                  "ptUnavailable", "ptError"}

ASSUME PresenceAssumption ==
    /\ Priorities \subseteq Int
    /\ Types \subseteq PresenceTypes
    /\ None \notin [from : JIDs, type : Types, priority : Priorities]

VARIABLE db     \* _DB, a map: a function of the user@hosts that have an entry

Presences == [from : JIDs, type : Types, priority : Priorities]
Bares     == {j.bare : j \in JIDs}
Absent    == {"ptUnavailable", "ptError"}

TypeOK ==
    /\ DOMAIN db \subseteq Bares
    /\ \A b \in DOMAIN db :
          db[b] \in Seq({p \in Presences : p.type \notin Absent})

-----------------------------------------------------------------------------
\* Where the presence of j is in a list, 0 if nowhere.
Position(list, j) == SelectInSeq(list, LAMBDA q : q.from = j)

\* Where one of priority n goes: in front of the first that is not higher.
InsertionPoint(list, n) ==
    LET i == SelectInSeq(list, LAMBDA q : q.priority <= n)
    IN IF i = 0 THEN Len(list) + 1 ELSE i

Entry(b) == IF b \in DOMAIN db THEN db[b] ELSE <<>>

\* An entry that would be empty is erased.
SetEntry(b, list) ==
    db' = IF list = <<>>
          THEN [c \in DOMAIN db \ {b} |-> db[c]]
          ELSE [c \in DOMAIN db \union {b} |-> IF c = b THEN list ELSE db[c]]

Without(list, j) ==
    IF Position(list, j) = 0 THEN list ELSE RemoveAt(list, Position(list, j))

\* Mutants: the old presence is not erased; it is replaced where it stands.
Updated_Twice(list, p) ==
    LET i == Position(list, p.from)
    IN IF i # 0 /\ list[i].priority = p.priority
       THEN ReplaceAt(list, i, p)
       ELSE InsertAt(list, InsertionPoint(list, p.priority), p)

Updated_InPlace(list, p) ==
    LET i == Position(list, p.from)
    IN IF i # 0
       THEN ReplaceAt(list, i, p)
       ELSE InsertAt(list, InsertionPoint(list, p.priority), p)

\* insert() of a presence that is neither unavailable nor an error.
Updated(list, p) ==
    LET i    == Position(list, p.from)
        rest == Without(list, p.from)
    IN IF i # 0 /\ list[i].priority = p.priority
       THEN ReplaceAt(list, i, p)
       ELSE InsertAt(rest, InsertionPoint(rest, p.priority), p)

Insert(p) ==
    LET list == Entry(p.from.bare)
    IN SetEntry(p.from.bare,
                IF p.type \in Absent THEN Without(list, p.from)
                ELSE Updated(list, p))

RemoveJID(j) == SetEntry(j.bare, Without(Entry(j.bare), j))

Clear == db' = <<>>

ContainsJID(b) == b \in DOMAIN db

\* find(): the default presence, or None for the exception.
Find(b) == IF Entry(b) = <<>> THEN None ELSE Head(Entry(b))

\* available(): whether the default presence is of type ptAvailable.
Available(b) == Entry(b) # <<>> /\ Head(Entry(b)).type = "ptAvailable"

\* findExact(): without a resource it is find().
FindExact(j) ==
    LET list == Entry(j.bare)
        i    == Position(list, j)
    IN CASE j.res = "" -> Find(j.bare)
         [] j.res # "" /\ i # 0 -> list[i]
         [] OTHER -> None

-----------------------------------------------------------------------------
Init == db = <<>>

Next ==
    \/ \E p \in Presences : Insert(p)
    \/ \E j \in JIDs : RemoveJID(j)
    \/ Clear

Spec == Init /\ [][Next]_db

-----------------------------------------------------------------------------
\* A user@host has an entry just when some presence is in it: contains() and
\* find() agree, whatever was inserted and removed in which order.
EntriesAreUsed == \A b \in Bares : ContainsJID(b) <=> Find(b) # None

\* No presence is shadowed: each one in the database is what findExact() gives
\* for its full JabberID, so that a resource is listed once.
NothingIsShadowed ==
    \A b \in DOMAIN db : \A i \in 1..Len(db[b]) :
        LET p == db[b][i]
        IN /\ p.from.bare = b
           /\ p.from.res # "" => FindExact(p.from) = p
           /\ Position(db[b], p.from) = i

\* From the front of a list to its end the priority never rises.
HighestFirst ==
    \A b \in DOMAIN db : \A i, k \in 1..Len(db[b]) :
        i < k => db[b][k].priority <= db[b][i].priority

\* What holds of the lists of the database, whatever the order of presences, removals
\* and clears: no entry is empty, no presence hidden, and the highest priority is first.
ListsAreSound == EntriesAreUsed /\ NothingIsShadowed /\ HighestFirst

\* The lists implement the latest presence of every JabberID and a default presence of
\* the highest priority.  Of remove() this says what the code does, which is not what
\* its comment says: see LatestPresence.
Latest ==
    INSTANCE LatestPresence WITH
        latest  <- UNION {Range(db[b]) : b \in DOMAIN db},
        default <- [b \in Bares |-> Find(b)]

ImplementsLatestPresence == Latest!Spec
=============================================================================
