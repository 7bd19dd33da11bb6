------------------------------ MODULE MCDiscoDB ------------------------------
(* DiscoDB with the keys its configurations share. *)
EXTENDS DiscoDB

\* A server with a node of its own, and a service.
Server  == [jid |-> "server", node |-> ""]
Rooms   == [jid |-> "server", node |-> "rooms"]
Service == [jid |-> "service", node |-> ""]

MCKeys       == {Server, Rooms, Service}
MCListings   == {{}, {Service}, {Rooms, Service}}
MCMaxLookups == 2
=============================================================================
