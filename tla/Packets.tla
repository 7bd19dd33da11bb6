------------------------------ MODULE Packets ------------------------------
(***************************************************************************)
(* Packet, Message and Presence: what a program says with them and what it  *)
(* hears from them.  A packet is [base, type, show]: the stanza, and what   *)
(* is kept beside it.  A call that changes a packet returns it changed.     *)
(***************************************************************************)
EXTENDS Integers, Elements

Packet(base) == [base |-> base, type |-> "", show |-> ""]

-----------------------------------------------------------------------------
(* Packet. *)

FindX(p, tnamespace) ==
    FirstKid(p.base, LAMBDA kid : IsElement(kid) /\ CmpAttrib(kid, "xmlns", tnamespace))

AddX(p, tnamespace) ==
    [p EXCEPT !.base = AppendChild(@, PutAttrib(Element("x", <<>>), "xmlns", tnamespace))]

SetTo(p, to) == [p EXCEPT !.base = PutAttrib(@, "to", to)]
GetTo(p)   == GetAttrib(p.base, "to")
GetFrom(p) == GetAttrib(p.base, "from")
GetID(p)   == GetAttrib(p.base, "id")

-----------------------------------------------------------------------------
(* Message. *)

MessageTypes == {"normal", "error", "chat", "groupchat", "headline"}

\* translateType(): what is not known is normal.
MessageType(s) == IF s \in MessageTypes THEN s ELSE "normal"

SetMessageType(p, mtype) == [p EXCEPT !.base = PutAttrib(@, "type", mtype), !.type = mtype]

\* Mutant of SetField: a field that is there gets a kid more.
SetField_Adds(p, name, value, escaped) ==
    [p EXCEPT !.base = AddElementText(@, name, value, escaped)]

\* setBody(), setSubject(), setThread(): every section of data of the field that is there
\* becomes the value; a field without data stays so.
SetField(p, name, value, escaped) ==
    LET i == FindElement(p.base, name)
        said(node) == IF IsElement(node) THEN node ELSE Text(Stored(value, escaped))
    IN IF i = 0 THEN [p EXCEPT !.base = AddElementText(@, name, value, escaped)]
       ELSE [p EXCEPT !.base.kids[i].kids = [k \in DOMAIN @ |-> said(@[k])]]

GetBody(p)   == GetChildCData(p.base, "body")
GetThread(p) == GetChildCData(p.base, "thread")

\* The constructor for a message to jid.
NewMessage(jid, body, mtype, escaped) ==
    LET to == SetTo(Packet(Element("message", <<>>)), jid)
    IN SetMessageType(IF body = "" THEN to
                      ELSE [to EXCEPT !.base = AddElementText(@, "body", body, escaped)], mtype)

\* The constructor for a message that came: unless it is stamped, it gets a stamp of now.
Now == "now"
Delay == "jabber:x:delay"

Stamped(p) ==
    LET x == FindX(p, Delay)
    IN x # 0 /\ GetAttrib(p.base.kids[x], "stamp") # ""

MessageOf(t) ==
    LET p == [Packet(t) EXCEPT !.type = MessageType(GetAttrib(t, "type"))]
        q == AddX(p, Delay)
        n == Len(q.base.kids)
    IN IF Stamped(p) THEN p
       ELSE [q EXCEPT !.base.kids[n] = PutAttrib(PutAttrib(@, "from", GetFrom(p)), "stamp", Now)]

\* requestDelivered(), requestDisplayed(), requestComposing(): one <x/> holds them all.
Event == "jabber:x:event"

Request(p, event) ==
    LET q == IF FindX(p, Event) = 0 THEN AddX(p, Event) ELSE p
    IN [q EXCEPT !.base.kids[FindX(q, Event)] = AddElement(@, event)]

WithThread(p, q) == IF GetThread(p) = "" THEN q ELSE SetField(q, "thread", GetThread(p), FALSE)

\* replyTo(): addElement() is called for the thread, of which there is none yet.
ReplyTo(p, body) ==
    LET q == SetMessageType(SetTo(Packet(Element("message", <<>>)), GetFrom(p)), p.type)
    IN WithThread(p, [q EXCEPT !.base = AddElementText(@, "body", body, FALSE)])

\* delivered(), displayed(), composing().
Answer(p, event) ==
    LET q == AddX(WithThread(p, NewMessage(GetFrom(p), "", p.type, FALSE)), Event)
        n == Len(q.base.kids)
    IN [q EXCEPT !.base.kids[n] = AddElementText(AddElement(@, event), "id", GetID(p), FALSE)]

-----------------------------------------------------------------------------
(* Presence. *)

PresenceTypes == {"", "subscribe", "unsubscribe", "subscribed", "unsubscribed", "error",
                  "invisible", "unavailable"}

\* Available is "", and what is not known is unavailable.
PresenceType(s) == IF s \in PresenceTypes THEN s ELSE "unavailable"

\* In the order of enum Show.
Shows == <<"invalid", "offline", "online", "chat", "away", "xa", "dnd">>
ShowRank(show) == CHOOSE i \in DOMAIN Shows : Shows[i] = show
Busy == {"chat", "away", "xa", "dnd"}

\* translateShow(): what to make of the <show/> of a presence.
ShowOf(ptype, show) ==
    CASE ptype = "error" -> "offline"
      [] ptype # "error" /\ show \in Busy -> show
      [] ptype = "" /\ show \in {"", "online"} -> "online"
      [] ptype = "" /\ show \notin Busy \union {"", "online"} -> "invalid"
      [] OTHER -> "offline"

\* An available presence keeps the type attribute it may have had.
SetPresenceType(p, ptype) ==
    [p EXCEPT !.type = ptype, !.base = IF ptype = "" THEN @ ELSE PutAttrib(@, "type", ptype)]

\* A show, a status or a priority is added to those that are there, and the first is heard.
Said(p, name, value) == [p EXCEPT !.base = AddElementText(@, name, value, FALSE)]
SetStatus(p, status) == IF status = "" THEN p ELSE Said(p, "status", status)
SetShow(p, show) ==
    [(IF ShowRank(show) > ShowRank("online") THEN Said(p, "show", show) ELSE p) EXCEPT !.show = show]
SetPriority(p, priority) == IF priority = "0" THEN p ELSE Said(p, "priority", priority)

NewPresence(jid, ptype, show, status, priority) ==
    LET p == Packet(Element("presence", <<>>))
    IN SetPriority(SetShow(SetStatus(SetPresenceType(IF jid = "" THEN p ELSE SetTo(p, jid), ptype),
                                     status), show), priority)

PresenceOf(t) ==
    LET ptype == PresenceType(GetAttrib(t, "type"))
    IN [Packet(t) EXCEPT !.type = ptype, !.show = ShowOf(ptype, GetChildCData(t, "show"))]

\* getStatus(): the text of an error, if nothing else is said.
GetStatus(p) ==
    LET status == GetChildCData(p.base, "status")
    IN IF status = "" THEN GetChildCData(p.base, "error") ELSE status

\* getPriority(): atoi(), for the priorities of the model.
Numbers == [s \in {"", "0", "5", "-1"} |->
               CASE s \in {"", "0"} -> 0 [] s = "5" -> 5 [] s = "-1" -> -1]
GetPriority(p) == IF p.type = "unavailable" THEN -1 ELSE Numbers[GetChildCData(p.base, "priority")]
=============================================================================
