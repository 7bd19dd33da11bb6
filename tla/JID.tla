-------------------------------- MODULE JID --------------------------------
(***************************************************************************)
(* JabberIDs, user@host/resource: how jabberoo::JID takes them apart and    *)
(* compares them.  A JabberID is a sequence of the codes of its characters. *)
(***************************************************************************)
EXTENDS Integers, Sequences

Slash == 47
At    == 64
Quotes == {34, 39}
Blank == 32
Colon == 58

\* What tolower() does in the "C" locale.
Lower(c) == IF c \in 65..90 THEN c + 32 ELSE c

\* find(), with 0 for npos.
Find(jid, c) ==
    LET found == {i \in 1..Len(jid) : jid[i] = c}
    IN IF found = {} THEN 0 ELSE CHOOSE i \in found : \A j \in found : i <= j

\* substr(): from behind i, as many as there are of n characters.  A count below zero, as
\* getHost() has for a "/" before the "@", is without a sign: all there are.
Substr(jid, i, n) == SubSeq(jid, i + 1, IF i + n < Len(jid) THEN i + n ELSE Len(jid))

GetResource(jid) ==
    LET i == Find(jid, Slash) IN IF i = 0 THEN <<>> ELSE SubSeq(jid, i + 1, Len(jid))

GetUserHost(jid) ==
    LET i == Find(jid, Slash) IN IF i = 0 THEN jid ELSE SubSeq(jid, 1, i - 1)

GetHost(jid) ==
    LET d1 == Find(jid, At)
        d2 == Find(jid, Slash)
    IN CASE d1 # 0 /\ d2 # 0 -> Substr(jid, d1, IF d2 > d1 THEN d2 - d1 - 1 ELSE Len(jid))
         [] d1 # 0 /\ d2 = 0 -> Substr(jid, d1, Len(jid))
         [] d1 = 0 /\ d2 # 0 -> SubSeq(jid, 1, d2 - 1)
         [] d1 = 0 /\ d2 = 0 -> jid

GetUser(jid) ==
    LET d1 == Find(jid, At) IN IF d1 = 0 THEN <<>> ELSE SubSeq(jid, 1, d1 - 1)

IsValidUser(user) ==
    user # <<>> /\ \A c \in {Blank, At, Slash, Colon} \union Quotes : Find(user, c) = 0
IsValidHost(host) ==
    host # <<>> /\ \A c \in {Blank, At, Slash} \union Quotes : Find(host, c) = 0

-----------------------------------------------------------------------------

\* -1, 0 or 1, by the first characters that differ.
StringCompare(s, t) ==
    LET n == IF Len(s) < Len(t) THEN Len(s) ELSE Len(t)
        apart == {i \in 1..n : s[i] # t[i]}
        first == CHOOSE i \in apart : \A j \in apart : i <= j
    IN IF apart # {} THEN IF s[first] < t[first] THEN -1 ELSE 1
       ELSE IF Len(s) < Len(t) THEN -1 ELSE IF Len(s) > Len(t) THEN 1 ELSE 0

Lowered(s) == [i \in 1..Len(s) |-> Lower(s[i])]

\* Mutant of Compare: the resource is compared without its case as well.
Compare_NoCase(ljid, rjid) == StringCompare(Lowered(ljid), Lowered(rjid))

\* compare(): user and host without their case, the resource with it.
Compare(ljid, rjid) ==
    LET userhost == StringCompare(Lowered(GetUserHost(ljid)), Lowered(GetUserHost(rjid)))
    IN IF userhost = 0 THEN StringCompare(GetResource(ljid), GetResource(rjid)) ELSE userhost

\* JID::Compare, for maps that are keyed by JabberIDs.
Less(lhs, rhs) == Compare(lhs, rhs) < 0
=============================================================================
