------------------------------ MODULE Filters ------------------------------
(***************************************************************************)
(* The rules a server keeps for a user: Filter and FilterList are read from *)
(* an element and written as a text.  A filter is [name, actions,           *)
(* conditions], and an action or a condition [value, param].                *)
(***************************************************************************)
EXTENDS Elements

Actions == [settype |-> "SetType", forward |-> "ForwardTo", reply |-> "ReplyWith",
            offline |-> "StoreOffline", continue |-> "Continue"]

Conditions == [unavailable |-> "Unavailable", from |-> "From", resource |-> "MyResourceEquals",
               subject |-> "SubjectEquals", body |-> "BodyEquals", show |-> "ShowEquals",
               type |-> "TypeEquals"]

\* translate()
Translated(table, s) == IF s \in DOMAIN table THEN table[s] ELSE "Invalid"

\* The kids of a rule that are actions, or those that are conditions.
Parsed(table, rule) ==
    LET kids == SelectSeq(rule.kids, IsElement)
    IN SelectSeq([i \in DOMAIN kids |->
                     [value |-> Translated(table, kids[i].name), param |-> GetCDATA(kids[i])]],
                 LAMBDA x : x.value # "Invalid")

FilterOf(rule) ==
    [name |-> IF GetAttrib(rule, "name") = "" THEN "Default rule" ELSE GetAttrib(rule, "name"),
     actions |-> Parsed(Actions, rule), conditions |-> Parsed(Conditions, rule)]

FilterList(query) ==
    IF ~CmpAttrib(query, "xmlns", "jabber:iq:filter") THEN <<>>
    ELSE LET rules == SelectSeq(query.kids, LAMBDA kid : IsElement(kid) /\ kid.name = "rule")
         IN [i \in DOMAIN rules |-> FilterOf(rules[i])]

-----------------------------------------------------------------------------

\* toXML() of an action or a condition.
ItemXML(table, item) ==
    LET name == CHOOSE n \in DOMAIN table : table[n] = item.value
    IN IF item.value = "Invalid" THEN ""
       ELSE IF item.param = "" THEN "<" \o name \o "/>"
       ELSE "<" \o name \o ">" \o Escape(item.param) \o "</" \o name \o ">"

\* toXML() of a filter: its name is written as it is.
FilterXML(f) ==
    IF f.actions = <<>> /\ f.conditions = <<>> THEN "<rule name='" \o f.name \o "'/>"
    ELSE "<rule name='" \o f.name \o "'>"
         \o Glued([i \in DOMAIN f.actions |-> ItemXML(Actions, f.actions[i])])
         \o Glued([i \in DOMAIN f.conditions |-> ItemXML(Conditions, f.conditions[i])])
         \o "</rule>"

FilterListXML(filters) ==
    IF filters = <<>> THEN "<query xmlns='jabber:iq:filter'/>"
    ELSE "<query xmlns='jabber:iq:filter'>" \o Glued([i \in DOMAIN filters |-> FilterXML(filters[i])])
         \o "</query>"
=============================================================================
