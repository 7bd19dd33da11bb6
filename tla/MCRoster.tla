------------------------------ MODULE MCRoster ------------------------------
(* Roster with the JabberIDs its configurations share. *)
EXTENDS Roster

Romeo   == [bare |-> "romeo", res |-> ""]
Home    == [bare |-> "romeo", res |-> "home"]
Orchard == [bare |-> "romeo", res |-> "orchard"]
Icq     == [bare |-> "icq", res |-> "registered"]

\* A user and a transport on the roster; the user is there in two places.
MCJIDs     == {Home, Orchard, Icq}
MCItemJIDs == {Romeo, Icq}
MCAgents   == {"icq"}

\* Everybody is there in one place.
MCSingle   == {Home, Icq}

\* One before and one after the virtual group they may be together with.
MCNamed    == {2, 4}

\* One, where the groups do not matter.
MCOneGroup == {2}
=============================================================================
