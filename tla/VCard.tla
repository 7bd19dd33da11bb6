------------------------------- MODULE VCard -------------------------------
(***************************************************************************)
(* jabberoo::vCard: the fields of a card as entries.  A card is             *)
(* [elem, entries]: the element, and for each field that was asked for the  *)
(* place of its element in the card and the value that is to be put there.  *)
(***************************************************************************)
EXTENDS XPath

Queries ==
    [Firstname |-> <<"vCard", "N", "GIVEN">>,     Middlename |-> <<"vCard", "N", "MIDDLE">>,
     Lastname  |-> <<"vCard", "N", "FAMILY">>,    Fullname   |-> <<"vCard", "FN">>,
     Nickname  |-> <<"vCard", "NICKNAME">>,       EMail      |-> <<"vCard", "EMAIL">>,
     Birthday  |-> <<"vCard", "BDAY">>,           Telephone  |-> <<"vCard", "TEL">>,
     URL       |-> <<"vCard", "URL">>,            Description |-> <<"vCard", "DESC">>,
     Street    |-> <<"vCard", "ADR", "STREET">>,  Street2    |-> <<"vCard", "ADR", "EXTADD">>,
     City      |-> <<"vCard", "ADR", "LOCALITY">>, State     |-> <<"vCard", "ADR", "REGION">>,
     PCode     |-> <<"vCard", "ADR", "PCODE">>,   Country    |-> <<"vCard", "ADR", "COUNTRY">>,
     OrgName   |-> <<"vCard", "ORG", "ORGNAME">>, OrgUnit    |-> <<"vCard", "ORG", "ORGUNIT">>,
     PersonalTitle |-> <<"vCard", "TITLE">>,      PersonalRole |-> <<"vCard", "ROLE">>]

Card(elem) == [elem |-> elem, entries |-> [f \in {} |-> None]]

\* The query as it is written, lexeme by lexeme.
QueryOf(field) == FlattenSeq([i \in DOMAIN Queries[field] |-> <<"/", Queries[field][i]>>])

\* The tree with another node at the end of a path.
RECURSIVE Changed(_, _, _)
Changed(tree, path, node) ==
    IF path = <<>> THEN node
    ELSE [tree EXCEPT !.kids[Head(path)] = Changed(@, Tail(path), node)]

\* The loop that builds a field: down the names of the query, adding what is missing.
RECURSIVE Built(_, _, _)
Built(tree, path, names) ==
    LET here == NodeAt(tree, path)
        i    == FindElement(here, Head(names))
    IN CASE names = <<>> -> [tree |-> tree, path |-> path]
         [] names # <<>> /\ Head(names) = here.name -> Built(tree, path, Tail(names))
         [] names # <<>> /\ Head(names) # here.name /\ i # 0 -> Built(tree, Append(path, i), Tail(names))
         [] names # <<>> /\ Head(names) # here.name /\ i = 0 ->
              Built(Changed(tree, path, AddElement(here, Head(names))),
                    Append(path, Len(here.kids) + 1), Tail(names))

\* Mutant of Lookup: an entry is built although the card has one.
Lookup_Builds(card, field) ==
    IF field \in DOMAIN card.entries THEN card
    ELSE LET parent == Built(card.elem, <<>>, Front(Queries[field]))
             node   == AddElement(NodeAt(parent.tree, parent.path), Last(Queries[field]))
         IN [elem |-> Changed(parent.tree, parent.path, node),
             entries |-> [f \in DOMAIN card.entries \union {field} |->
                IF f # field THEN card.entries[f]
                ELSE [path |-> Append(parent.path, Len(node.kids)), data |-> ""]]]

\* Where the operations of a query find an element first, or where one is built for them.
Place(elem, ops) ==
    LET names == [i \in DOMAIN ops |-> ops[i].value]
        at(found) == IF found # <<>> THEN [tree |-> elem, path |-> found[1]]
                     ELSE Built(elem, <<>>, names)
    IN at(Execute(ops, elem))

\* operator[]
Lookup(card, field) ==
    LET put(place) ==
            [elem |-> place.tree,
             entries |-> [f \in DOMAIN card.entries \union {field} |->
                IF f # field THEN card.entries[f]
                ELSE [path |-> place.path, data |-> GetCDATA(NodeAt(place.tree, place.path))]]]
    IN IF field \in DOMAIN card.entries THEN card
       ELSE put(Place(card.elem, ParseQuery(QueryOf(field))))

\* What an entry gives when it is read, and how it is assigned to.
Get(card, field)        == Lookup(card, field).entries[field].data
Assign(card, field, value) == [Lookup(card, field) EXCEPT !.entries[field].data = value]

\* update(): the first section of data goes, and the value is put behind the kids, unescaped.
\* No field lies within another, so the kids that move are no entry's.
Updated(node, data) ==
    LET i == FirstKid(node, LAMBDA kid : ~IsElement(kid))
    IN AddCDATA(IF i = 0 THEN node ELSE [node EXCEPT !.kids = RemoveAt(@, i)], data, TRUE)

\* getBaseElement() and toString(): every entry is updated first.
GetBaseElement(card) ==
    LET update(tree, field) ==
            LET entry == card.entries[field]
            IN Changed(tree, entry.path, Updated(NodeAt(tree, entry.path), entry.data))
    IN FoldLeft(update, card.elem, SetToSeq(DOMAIN card.entries))
=============================================================================
