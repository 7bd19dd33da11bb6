------------------------------- MODULE Roster -------------------------------
(***************************************************************************)
(* jabberoo::Roster: the items, the index of the groups they are in, and    *)
(* whether they are online.  With it the two handlers of the Session that   *)
(* keep the Roster and the PresenceDB together, handlePresence() and        *)
(* onDocumentEnd(), and what they tell the application by evtPresence.      *)
(*                                                                          *)
(* A group is a number, its place in the order of std::string.              *)
(***************************************************************************)
EXTENDS Integers, Sequences, FiniteSets, Functions

CONSTANTS
    JIDs,       \* who presence comes from: as in PresenceDB
    ItemJIDs,   \* the JabberIDs the server writes into roster items
    Agents,     \* the bares without a "@": services and transports
    Named,      \* the groups that users give their items
    Priorities, Types, None,
    Habits,     \* what happens: see AllHabits
    MaxList     \* bound: items in one roster push

(***************************************************************************)
(* "early":  presence comes from someone who is not on the roster, or an    *)
(*           item is removed before its presence is withdrawn               *)
(* "end":    the server ends the stream, or the application calls clear()   *)
(***************************************************************************)
AllHabits == {"early", "end"}

\* The virtual groups.
AgentsGroup == 1
Pending     == 3
Unfiled     == 5
Groups      == Named \union {AgentsGroup, Pending, Unfiled}

VARIABLES
    db,         \* the PresenceDB
    items,      \* _items, a function of the keys that filterJID() makes
    groups,     \* _groups; a group that is not in the map has no members
    told        \* history: the type that evtPresence last told of a JID

vars == <<db, items, groups, told>>

PDB == INSTANCE PresenceDB

\* The last three are what PresenceDB assumes of the constants it is given.
ASSUME RosterAssumption ==
    /\ Named \subseteq Nat
    /\ IsFiniteSet(Named)
    /\ Habits \subseteq AllHabits
    /\ MaxList \in Nat
    /\ Priorities \subseteq Int
    /\ Types \subseteq PDB!PresenceTypes
    /\ None \notin [from : JIDs, type : Types, priority : Priorities]

\* Only users are cut down to the user@host.
FilterJID(j) == IF j.bare \in Agents THEN j ELSE [bare |-> j.bare, res |-> ""]

Items    == [jid : ItemJIDs, groups : SUBSET Groups, online : BOOLEAN]
Elements == {e \in [jid : ItemJIDs, remove : BOOLEAN, ask : BOOLEAN,
                    named : SUBSET Named] :
                e.remove => ~e.ask /\ e.named = {}}

TypeOK ==
    /\ PDB!TypeOK
    /\ \A k \in DOMAIN items : 
          /\ items[k] \in Items
          /\ items[k].groups # {}
          /\ FilterJID(items[k].jid) = k
    /\ groups \in [Groups -> SUBSET ItemJIDs]
    /\ told \in [JIDs -> Types \union {"ptUnavailable"}]

Init ==
    /\ db = <<>>
    /\ items = <<>>
    /\ groups = [g \in Groups |-> {}]
    /\ told = [j \in JIDs |-> "ptUnavailable"]

-----------------------------------------------------------------------------
(* Roster pushes. *)

\* Item::update(): the groups an <item> puts its JabberID in.
GroupsOf(e) ==
    CASE e.ask -> e.named \union {Pending}
      [] ~e.ask /\ e.named # {} -> e.named
      [] OTHER -> IF e.jid.bare \in Agents /\ e.jid.res # ""
                  THEN {AgentsGroup} ELSE {Unfiled}

\* The elements of a std::set, as they are walked.
Sorted(S) ==
    CHOOSE s \in [1..Cardinality(S) -> S] :
        /\ \A g \in S : \E i \in DOMAIN s : s[i] = g
        /\ \A i, j \in DOMAIN s : i < j => s[i] < s[j]

\* Mutant of MergeItemGroups: it never removes.
MergeItemGroups_OnlyAdds(index, jid, old, new) ==
    [g \in Groups |-> IF g \in new THEN index[g] \union {jid} ELSE index[g]]

\* One step of mergeItemGroups(): two heads that are equal are passed over, any
\* other old head is removed.
Passed(walk, g, jid) ==
    IF walk.left # <<>> /\ Head(walk.left) = g
    THEN [walk EXCEPT !.left = Tail(@)]
    ELSE [walk EXCEPT !.index[g] = @ \ {jid}]

\* mergeItemGroups(): the two sets are walked together in order, and what is left of
\* the new one is inserted.
MergeItemGroups(index, jid, old, new) ==
    LET olds == Sorted(old)
        walk[i \in 0..Len(olds)] ==
            IF i = 0 THEN [index |-> index, left |-> Sorted(new)]
            ELSE Passed(walk[i - 1], olds[i], jid)
        walked == walk[Len(olds)]
    IN [g \in Groups |-> IF g \in Range(walked.left)
                         THEN walked.index[g] \union {jid}
                         ELSE walked.index[g]]

RemoveItemFromAllGroups(index, item) ==
    [g \in Groups |-> IF g \in item.groups THEN index[g] \ {item.jid} ELSE index[g]]

\* One <item> of update(const judo::Element&); a new item is offline.
UpdateItem(r, e) ==
    LET key   == FilterJID(e.jid)
        known == key \in DOMAIN r.items
        old   == IF known THEN r.items[key]
                 ELSE [jid |-> e.jid, groups |-> {}, online |-> FALSE]
        new   == [jid |-> e.jid, groups |-> GroupsOf(e), online |-> old.online]
    IN CASE e.remove /\ ~known -> r
         [] e.remove /\ known ->
              [items  |-> [k \in DOMAIN r.items \ {key} |-> r.items[k]],
               groups |-> RemoveItemFromAllGroups(r.groups, old)]
         [] OTHER ->
              [items  |-> [k \in DOMAIN r.items \union {key} |->
                              IF k = key THEN new ELSE r.items[k]],
               groups |-> MergeItemGroups(r.groups, e.jid, old.groups, new.groups)]

\* update(const judo::Element&): one <item> after the other.
Pushed(r, list) ==
    LET after[i \in 0..Len(list)] ==
            IF i = 0 THEN r ELSE UpdateItem(after[i - 1], list[i])
    IN after[Len(list)]

RosterPush ==
    \E n \in 1..MaxList : \E list \in [1..n -> Elements] :
        /\ "early" \in Habits \/
           \A i \in 1..n : list[i].remove => ~PDB!ContainsJID(list[i].jid.bare)
        /\ LET r == Pushed([items |-> items, groups |-> groups], list)
           IN /\ items' = r.items
              /\ groups' = r.groups
        /\ UNCHANGED <<db, told>>

-----------------------------------------------------------------------------
(* Presence. *)

\* Mutant of UpdatePresence: the database is asked before the insertion.
UpdatePresence_Stale(j) ==
    items' = [k \in DOMAIN items |->
                 IF k = FilterJID(j)
                 THEN [items[k] EXCEPT !.online = PDB!Available(j.bare)]
                 ELSE items[k]]

\* update(const Presence&, ...): the item of the sender, if it has one, goes
\* online or offline with the default presence of its user@host.
UpdatePresence(j) ==
    LET key == FilterJID(j)
    IN items' = [k \in DOMAIN items |->
                    IF k = key
                    THEN [items[k] EXCEPT !.online = PDB!Available(j.bare)']
                    ELSE items[k]]

\* handlePresence(), of a sender and of a type that reach the PresenceDB: the
\* others have signals of their own and leave no trace here.
HandlePresence ==
    \E p \in PDB!Presences :
        /\ "early" \in Habits \/ FilterJID(p.from) \in DOMAIN items
        /\ PDB!Insert(p)
        /\ UpdatePresence(p.from)
        /\ told' = [told EXCEPT ![p.from] = p.type]
        /\ UNCHANGED groups

-----------------------------------------------------------------------------
(* The end of the stream. *)

\* Mutant of SentUnavailable: nobody is told.
SentUnavailable_Nobody == {}

\* send_unavailable(): of the default presences, as far as they are available.
SentUnavailable == {PDB!Find(b).from : b \in {c \in DOMAIN db : PDB!Available(c)}}

\* onDocumentEnd(): reset(), send_unavailable() and clear().
DocumentEnd ==
    /\ "end" \in Habits
    /\ items' = <<>>
    /\ told' = [j \in JIDs |->
                   IF j \in SentUnavailable THEN "ptUnavailable" ELSE told[j]]
    /\ PDB!Clear
    /\ UNCHANGED groups

\* Roster::clear(), for the application.
ClearItems ==
    /\ "end" \in Habits
    /\ items' = <<>>
    /\ UNCHANGED <<db, groups, told>>

-----------------------------------------------------------------------------
Next == RosterPush \/ HandlePresence \/ DocumentEnd \/ ClearItems

Spec == Init /\ [][Next]_vars

-----------------------------------------------------------------------------
\* The index says of every group just the items that are in it, whatever pushes
\* added, changed and removed them.
IndexIsExact ==
    \A g \in Groups :
        groups[g] = {items[k].jid : k \in {h \in DOMAIN items : g \in items[h].groups}}

\* An item is online just when the latest presence of one of its resources is
\* that it is available.
OnlineIsTruth ==
    \A k \in DOMAIN items :
        items[k].online <=> \E j \in JIDs : FilterJID(j) = k /\ told[j] = "ptAvailable"

\* The application has last been told that a JabberID is available just when
\* its presence is in the database, over any number of streams.
ToldIsKnown ==
    \A j \in JIDs :
        told[j] \notin PDB!Absent <=> PDB!Position(PDB!Entry(j.bare), j) # 0
=============================================================================
