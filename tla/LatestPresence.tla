--------------------------- MODULE LatestPresence ---------------------------
(***************************************************************************)
(* A PresenceDB without its lists: the latest presence of every full        *)
(* JabberID that is there, and for every user@host a default presence,      *)
(* which is one of the highest priority among them.  This is what           *)
(* include/presenceDB.hh says of it, but for remove(): see Forget.          *)
(***************************************************************************)
EXTENDS Integers

CONSTANTS JIDs,        \* records of a user@host, bare, and a resource, res
          Priorities, Types, None

VARIABLES latest,      \* the latest presences of all that are there
          default      \* of every user@host

vars == <<latest, default>>

Presences == [from : JIDs, type : Types, priority : Priorities]
Bares     == {j.bare : j \in JIDs}
Absent    == {"ptUnavailable", "ptError"}

\* The presences of b that may be the default one.
Best(b) ==
    LET there == {p \in latest : p.from.bare = b}
    IN {p \in there : \A q \in there : q.priority <= p.priority}

Init ==
    /\ latest = {}
    /\ default = [b \in Bares |-> None]

\* Of the user heard of, and of nobody else, the default may change.
Choose(b) ==
    \E d \in Best(b)' \union {None} :
        /\ d = None <=> Best(b)' = {}
        /\ default' = [default EXCEPT ![b] = d]

Others(j) == {p \in latest : p.from # j}

Hear(p) ==
    /\ latest' = Others(p.from) \union (IF p.type \in Absent THEN {} ELSE {p})
    /\ Choose(p.from.bare)

\* remove() forgets one JabberID, as the code does.  The header says two other things
\* of it (presenceDB.hh:84-87): "Currently this does *not* handle multiple entries with
\* different resources", and that it removes "all Presence Packets which match the
\* user@host".
Forget(j) ==
    /\ latest' = Others(j)
    /\ Choose(j.bare)

Clear ==
    /\ latest' = {}
    /\ default' = [b \in Bares |-> None]

Next ==
    \/ \E p \in Presences : Hear(p)
    \/ \E j \in JIDs : Forget(j)
    \/ Clear

Spec == Init /\ [][Next]_vars
=============================================================================
