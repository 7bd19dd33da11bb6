------------------------------ MODULE JIDOrder ------------------------------
(***************************************************************************)
(* JabberIDs as they are written, of parts that may or may not be valid:    *)
(* the keys of a map, which JID::Compare puts in order.                     *)
(***************************************************************************)
EXTENDS JID, FiniteSets

CONSTANTS Users, Hosts, Resources   \* the parts; <<>> is a part that is not there

Characters == 1..255

ASSUME JIDOrderAssumption == Users \union Hosts \union Resources \subseteq Seq(Characters)

VARIABLE keys

JIDs == [user : Users, host : Hosts, resource : Resources]

UserHost(j) == (IF j.user = <<>> THEN <<>> ELSE j.user \o <<At>>) \o j.host
FullJID(j)  == UserHost(j) \o (IF j.resource = <<>> THEN <<>> ELSE <<Slash>> \o j.resource)

KeysInit == keys = {}

\* An order is about three of them at a time.
Insert == \E j \in JIDs : Cardinality(keys) < 3 /\ keys' = keys \union {j}

KeysSpec == KeysInit /\ [][Insert]_keys

-----------------------------------------------------------------------------

\* User and host are the same without their case, the resource is the same.
Same(s, t) == /\ Lowered(GetUserHost(s)) = Lowered(GetUserHost(t))
              /\ GetResource(s) = GetResource(t)

\* JID::Compare is a strict order of the JabberIDs, whatever characters they are of, and
\* neither of two is less than the other if and only if compare() takes them for one
\* (jabberoo-JID.cc compare, Compare::operator()).
JIDsAreOrdered ==
    \A s, t, u \in {FullJID(j) : j \in keys} :
        /\ Less(s, t) => ~Less(t, s)
        /\ Less(s, t) /\ Less(t, u) => Less(s, u)
        /\ ~Less(s, t) /\ ~Less(t, s) <=> Same(s, t)
        /\ Compare(s, t) = 0 <=> Same(s, t)

\* A JabberID of valid parts is taken apart into them, but one without a user if there is
\* an "@" in the resource (jabberoo-JID.cc getUser, getHost, getUserHost, getResource).
PartsAreFound ==
    \A j \in keys :
        (j.user = <<>> \/ IsValidUser(j.user)) /\ IsValidHost(j.host) =>
            /\ GetUserHost(FullJID(j)) = UserHost(j)
            /\ GetResource(FullJID(j)) = j.resource
            /\ j.user # <<>> \/ Find(j.resource, At) = 0 =>
                 GetUser(FullJID(j)) = j.user /\ GetHost(FullJID(j)) = j.host

\* What JabberIDs are for, in PresenceDB and Roster: to be compared, and taken apart.
JIDsAreSound == JIDsAreOrdered /\ PartsAreFound
=============================================================================
