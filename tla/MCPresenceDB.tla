---------------------------- MODULE MCPresenceDB ----------------------------
(* PresenceDB with the JabberIDs its configurations share. *)
EXTENDS PresenceDB

\* Three ways to be there for one user, so that a list has a front, a middle
\* and an end; and a second user whose entry must stay as it is.
MCJIDs == {[bare |-> "romeo", res |-> ""],
           [bare |-> "romeo", res |-> "home"],
           [bare |-> "romeo", res |-> "orchard"],
           [bare |-> "nurse", res |-> "home"]}

MCPriorities == {0, 1, 5}
=============================================================================
