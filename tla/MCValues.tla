------------------------------ MODULE MCValues ------------------------------
(***************************************************************************)
(* The algorithms on values, on bounded inputs: the first step chooses an   *)
(* input of some sort, the second parses what is sent of it, and each       *)
(* property says what comes of it.                                          *)
(***************************************************************************)
EXTENDS XPathMeaning, JIDOrder

B == INSTANCE ElementBuilder
P == INSTANCE Packets
F == INSTANCE Filters
V == INSTANCE VCard

CONSTANT Pieces     \* how many characters are pushed or read at a time

VARIABLES
    input,      \* what the first step has chosen
    sent,       \* what is sent of it, as streams of pieces
    heard       \* what has become of these streams on the other side

vars == <<input, sent, heard, keys>>

-----------------------------------------------------------------------------
(* Queries on trees. *)

NoAttribs == [k \in {} |-> ""]
K(v) == [k \in {"k"} |-> v]
Node(name, attribs, kids) == [name |-> name, attribs |-> attribs, text |-> "", kids |-> kids]

Leaves == {Node("b", NoAttribs, <<Text("x")>>), Node("b", K("x"), <<>>)}
Kids   == Leaves \union {Node("a", K("y"), <<>>)} \union {Node("a", NoAttribs, <<l>>) : l \in Leaves}
Trees  == {Node("a", attribs, kids) :
              attribs \in {NoAttribs, K("x")},
              kids \in {<<>>} \union {<<k>> : k \in Kids} \union {<<k, l>> : k, l \in Kids}}

Lit(v)   == Predicate("literal", v, <<>>)
Attribute == Predicate("attribute", "k", <<>>)
Child(n) == Predicate("child", n, <<>>)
Calls(f) == Predicate(f, "", <<>>)

Base == {Attribute, Predicate("equal", "", <<Attribute, Lit("x")>>), Predicate("notequal", "", <<Attribute, Lit("x")>>),
         Child("b"), Predicate("equal", "", <<Child("b"), Lit("x")>>),
         Predicate("starts-with", "", <<Attribute, Lit("x")>>)}
Pairs == {Predicate(k, "", <<p, q>>) : k \in {"and", "or"}, p \in Base, q \in Base}
Preds == Base \union Pairs \union {Predicate("not", "", <<p>>) : p \in Base}
         \union {Predicate(p.kind, "", <<p, Attribute>>) : p \in Pairs}
         \union {Predicate("equal", "", <<Calls("name"), Lit("b")>>),
                 Predicate("equal", "", <<Calls("text"), Lit("x")>>)}
Positions == {Predicate("position", n, <<>>) : n \in {"1", "2"}}
Few == {<<>>} \union {<<p>> : p \in Base}

Queries ==
    {<<Step(axis, n, <<>>)>> : axis \in {"root", "child", "all"}, n \in {"a", "b"}}
    \union {<<Step(axis, "a", <<p>>)>> : axis \in {"root", "child", "all"}, p \in Preds}
    \union {<<Step("root", "a", ps), Step("child", n, qs)>> :
               ps \in Few, n \in {"a", "b", "*"}, qs \in Few \union {<<p>> : p \in Positions}}
    \union {<<Step("root", "a", ps), Step("all", "b", qs)>> : ps \in Few, qs \in Few}

-----------------------------------------------------------------------------
(* Elements built by calls, and sent. *)

Texts == {"", "&", "<]]>", "&lt;", "'", "\r\n"}

ElementCalls ==
    {<<"data", t, escaped>> : t \in Texts, escaped \in BOOLEAN}
    \union {<<"attrib", "k", t>> : t \in Texts}
    \union {<<"element", "b">>}
    \union {<<"elementText", "b", t, escaped>> : t \in Texts, escaped \in BOOLEAN}

Do(e, call) ==
    CASE call[1] = "data"        -> AddCDATA(e, call[2], call[3])
      [] call[1] = "attrib"      -> PutAttrib(e, call[2], call[3])
      [] call[1] = "element"     -> AddElement(e, call[2])
      [] call[1] = "elementText" -> AddElementText(e, call[2], call[3], call[4])

\* What XML makes of a text between its writer and its reader (1.0, 2.11 and 3.3.3).
OneLineEnd(s) ==
    Glued([i \in 1..Len(s) |->
        LET c == SubSeq(s, i, i)
        IN IF c = "\r" THEN "\n" ELSE IF c = "\n" /\ i > 1 /\ SubSeq(s, i - 1, i - 1) = "\r" THEN "" ELSE c])
OneLine(s) ==
    LET line == OneLineEnd(s)
    IN Glued([i \in 1..Len(line) |-> LET c == SubSeq(line, i, i) IN IF c \in {"\n", "\t"} THEN " " ELSE c])

\* An element as it is received: no empty data, and data behind data is one.
RECURSIVE Received(_)
Received(node) ==
    LET join(kids, kid) ==
            IF ~IsElement(kid) /\ kid.text = "" THEN kids
            ELSE IF ~IsElement(kid) /\ kids # <<>> /\ ~IsElement(Last(kids))
            THEN [kids EXCEPT ![Len(kids)].text = @ \o kid.text]
            ELSE Append(kids, Received(kid))
    IN IF ~IsElement(node) THEN Text(OneLineEnd(node.text))
       ELSE [node EXCEPT !.attribs = [k \in DOMAIN @ |-> OneLine(@[k])],
                         !.kids = FoldLeft(join, <<>>, @)]

\* A text below the root of a stream, whole and in pieces; all that an element is read from.
Stanza(text)             == <<"<s>", text>>
StanzaPieces(text, size) == <<"<s>">> \o B!Chunks(text, size)
Ways(text, size) == <<StanzaPieces(text, size), <<text>>, B!FilePieces("r", text, size),
                      B!FilePieces("", text, size)>>

-----------------------------------------------------------------------------
(* Packets, filters and cards. *)

\* A message with the answers to it, and with requests in it.
Conversation(p) == <<p, P!Answer(p, "delivered"), P!ReplyTo(p, "r"),
                     P!Request(P!Request(p, "displayed"), "composing")>>
Stanzas(packets) == [i \in DOMAIN packets |-> Stanza(AsString(packets[i].base))]

MessageSays == {<<f, b, escaped>> : f \in {"body", "thread"}, b \in {"x", "&lt;"}, escaped \in BOOLEAN}
Messages == {Node("message", attribs, kids) :
    attribs \in {NoAttribs, [from |-> "j", type |-> "chat"], [from |-> "j", id |-> "1", type |-> "what"]},
    kids \in {<<>>, <<Node("body", NoAttribs, <<>>)>>, <<Node("body", NoAttribs, <<Text("y")>>)>>,
              <<Node("thread", NoAttribs, <<Text("t")>>), Node("x", [xmlns |-> "jabber:x:delay", stamp |-> "then"], <<>>)>>,
              <<Text("x"), Node("x", [xmlns |-> "jabber:x:event"], <<>>)>>,
              <<Node("x", [xmlns |-> "jabber:x:delay"], <<>>)>>}}

Rules == {[name |-> n, actions |-> a, conditions |-> c] :
    n \in {"", "r"},
    a \in {<<>>, <<[value |-> "ForwardTo", param |-> "a<b"]>>,
           <<[value |-> "Continue", param |-> ""], [value |-> "Invalid", param |-> "x"], [value |-> "SetType", param |-> "&"]>>},
    c \in {<<>>, <<[value |-> "ShowEquals", param |-> "'"]>>,
           <<[value |-> "TypeEquals", param |-> "]]>"], [value |-> "Unavailable", param |-> ""]>>}}

Cards == {Node(root, [xmlns |-> "vcard-temp"], kids) :
    root \in {"vCard", "VCARD"},
    kids \in {<<>>, <<Node("FN", NoAttribs, <<Text("f")>>)>>,
              <<Node("N", NoAttribs, <<Text(" "), Node("GIVEN", NoAttribs, <<>>)>>)>>,
              <<Text(" "), Node("FN", NoAttribs, <<Node("b", NoAttribs, <<>>), Text("&lt;")>>),
                Node("FN", NoAttribs, <<Text("g")>>), Node("N", NoAttribs, <<>>)>>}}
Fields == {"Fullname", "Firstname", "Lastname"}
Ask(card, call) == IF call[1] = "get" THEN V!Lookup(card, call[2]) ELSE V!Assign(card, call[2], call[3])
CardCalls == {<<"get", f>> : f \in Fields} \union {<<"assign", f, v>> : f \in Fields, v \in {"x", "", "&amp;"}}

-----------------------------------------------------------------------------
(* JabberIDs: of "a" and "b" in both cases, of "_", which is between the cases, *)
(* and of parts that are not valid.                                             *)

MCUsers     == {<<>>, <<97>>, <<65>>, <<95>>, <<98, At>>}
MCHosts     == {<<97>>, <<66>>, <<98, Slash, 97>>}
MCResources == {<<>>, <<97>>, <<65>>, <<Slash, At>>}

-----------------------------------------------------------------------------

\* What there will be an input of.
Sorts == {"query", "element", "message", "presence", "filters", "card", "jids"}

Init ==
    /\ \E sort \in Sorts : input = [sort |-> "none", of |-> sort]
    /\ sent = <<>> /\ heard = <<>> /\ KeysInit

Choosing(sort) == input.sort = "none" /\ input.of = sort

Choose(in, streams) == input' = in /\ sent' = streams /\ UNCHANGED <<heard, keys>>

ChooseQuery ==
    /\ Choosing("query")
    /\ \E q \in Queries, t \in Trees : Choose([sort |-> "query", q |-> q, t |-> t], <<>>)

ChooseElement ==
    LET choose(e, size) ==
            Choose([sort |-> "element", e |-> e, size |-> size], Ways(AsString(e) \o "\n", size))
    IN /\ Choosing("element")
       /\ \E calls \in {<<c>> : c \in ElementCalls} \union {<<c, d>> : c, d \in ElementCalls}, size \in Pieces :
            choose(FoldLeft(Do, Element("m", <<>>), calls), size)

ChooseMessage ==
    LET say(p, s)  == P!SetField(p, s[1], s[2], s[3])
        choose(m, says, p) ==
            Choose([sort |-> "message", m |-> m, says |-> says, p |-> p], Stanzas(Conversation(p)))
    IN /\ Choosing("message")
       /\ \E m \in Messages, s, t \in MessageSays :
            choose(m, <<s, t>>, FoldLeft(say, P!MessageOf(m), <<s, t>>))

ChoosePresence ==
    LET choose(in) ==
            Choose(in, Stanzas(<<P!NewPresence(in.jid, in.type, in.show, in.status, in.priority)>>))
    IN /\ Choosing("presence")
       /\ \E jid \in {"", "j"}, type \in P!PresenceTypes, show \in ToSet(P!Shows),
          status \in {"", "&amp;"}, priority \in {"", "0", "5", "-1"} :
            choose([sort |-> "presence", jid |-> jid, type |-> type, show |-> show,
                    status |-> status, priority |-> priority])

ChooseFilters ==
    /\ Choosing("filters")
    /\ \E f \in {<<>>} \union {<<r>> : r \in Rules} \union {<<r, s>> : r, s \in Rules} :
        Choose([sort |-> "filters", filters |-> f], <<Stanza(F!FilterListXML(f))>>)

ChooseCard ==
    LET choose(elem, calls, card) ==
            Choose([sort |-> "card", elem |-> elem, calls |-> calls],
                   <<Stanza(AsString(V!GetBaseElement(card)))>>)
    IN /\ Choosing("card")
       /\ \E elem \in Cards, calls \in {<<c>> : c \in CardCalls} \union {<<c, d>> : c, d \in CardCalls} :
            choose(elem, calls, FoldLeft(Ask, V!Card(elem), calls))

\* The streams are parsed; of the parser only its error is kept.
Hear ==
    LET told(st) == [st EXCEPT !.parser = [error |-> st.parser.error]]
    IN /\ sent # <<>>
       /\ heard' = [i \in DOMAIN sent |-> told(B!PushAll(B!Fresh, sent[i]))]
       /\ sent' = <<>> /\ UNCHANGED <<input, keys>>

\* Of JabberIDs there are some, one after the other.
ChooseJID == Choosing("jids") /\ Insert /\ UNCHANGED <<input, sent, heard>>

Next ==
    \/ ChooseQuery \/ ChooseElement \/ ChooseMessage \/ ChoosePresence
    \/ ChooseFilters \/ ChooseCard \/ ChooseJID \/ Hear

Spec == Init /\ [][Next]_vars

\* All has been said, and heard, of an input of a sort; what the listener was handed first.
Is(sort)    == input.sort = sort /\ heard # <<>>
Handed(i)   == heard[i].handed[1]

-----------------------------------------------------------------------------

\* A query selects the elements that XPath 1.0 says, in whatever order its operations run
\* (XPath.cpp getOp, XPathOps.h).
QueriesSelect ==
    input.sort = "query" =>
        ToSet(Execute(ParseQuery(Written(input.q)), input.t)) = Selected(input.t, input.q)

\* A stanza that is built and written reaches the listener of the other side as it was
\* built, however it is cut into pieces; so does one that is read at once or from a file.
\* (A file is lost if its last piece begins behind the end of the document.)
StanzasSurvive ==
    Is("element") =>
        LET meant  == Received(input.e)
            length == Len(AsString(input.e))
            arrives(st)  == /\ st.parser.error = "NONE" /\ ~st.asserted /\ st.stack = <<>>
                            /\ SelectSeq(st.handed, IsElement) = <<meant>>
            once(read)   == read.thrown = "" /\ Received(read.root) = meant
            framed(file) == file.ok /\ file.root = Node("r", NoAttribs, <<meant>>)
            bare(file)   == IF length % input.size = 0 THEN file.asserted
                            ELSE file.ok /\ file.root.kids = SelectSeq(meant.kids, IsElement)
        IN /\ arrives(heard[1]) /\ once(B!AtOnce(heard[2]))
           /\ framed(B!FileRead(heard[3])) /\ bare(B!FileRead(heard[4]))

\* What is said in a message is heard: the last of what a field was set to, unless the field
\* was there without data; an answer or a reply goes to the sender, in its thread; and a
\* message gets one stamp however often it is passed on, unless there is a delay without one.
MessageIsHeard(m, says, p) ==
    LET from     == P!MessageOf(m)
        last(f)  == SelectSeq(says, LAMBDA s : s[1] = f)
        field(f) == FindElement(m, f)
        expected(f) == IF last(f) = <<>> THEN GetChildCData(m, f)
                       ELSE IF field(f) # 0 /\ m.kids[field(f)].kids = <<>> THEN ""
                       ELSE Stored(Last(last(f))[2], Last(last(f))[3])
        events(e) == e.kids[P!FindX(P!Packet(e), P!Event)]
        comes(q)  == /\ q.type = from.type
                     /\ \A f \in {"body", "thread"} : GetChildCData(q.base, f) = expected(f)
                     /\ (P!FindX(P!Packet(m), P!Delay) = 0 \/ P!Stamped(P!Packet(m)))
                           => q.base.kids = Received(p.base).kids
        goesBack(q) == /\ P!GetTo(q) = P!GetFrom(from) /\ q.type = from.type
                       /\ P!GetThread(q) = P!GetThread(p)
        answers(q)  == /\ FindElement(events(q.base), "delivered") # 0
                       /\ GetChildCData(events(q.base), "id") = P!GetID(from)
    IN /\ comes(P!MessageOf(Handed(1)))
       /\ answers(P!MessageOf(Handed(2))) /\ goesBack(P!MessageOf(Handed(2)))
       /\ P!GetBody(P!MessageOf(Handed(3))) = "r" /\ goesBack(P!MessageOf(Handed(3)))
       /\ {"displayed", "composing"} \subseteq {kid.name : kid \in ToSet(events(Handed(4)).kids)}

\* What is said in a presence is heard, if its show is one that its type can have.  Of its
\* priority this says what presence.hh:151 does, "0 or greater. 0 if nonexistent": where
\* getPriority() is negative, for an unavailable presence and for a negative priority, that
\* comment and the code disagree.
PresenceIsHeard(in) ==
    LET can == CASE in.type = ""      -> P!Busy \union {"online"}
                 [] in.type = "error" -> {"offline"}
                 [] OTHER             -> P!Busy \union {"offline"}
        comes(p) ==
            /\ p.type = in.type /\ P!GetTo(p) = in.jid
            /\ in.show \in can => p.show = in.show
            /\ P!GetStatus(p) = in.status
            /\ in.type # "unavailable" /\ P!Numbers[in.priority] >= 0
                   => P!GetPriority(p) = P!Numbers[in.priority]
    IN comes(P!PresenceOf(Handed(1)))

\* Filters are read as they were written: a rule without a name has the default one, and what
\* is no action or condition is not there.
FiltersAreHeard(filters) ==
    LET valid(items) == SelectSeq(items, LAMBDA x : x.value # "Invalid")
        meant(f) == [name |-> IF f.name = "" THEN "Default rule" ELSE f.name,
                     actions |-> valid(f.actions), conditions |-> valid(f.conditions)]
    IN F!FilterList(Handed(1)) = [i \in DOMAIN filters |-> meant(filters[i])]

WhatIsSaidIsHeard ==
    /\ Is("message")  => MessageIsHeard(input.m, input.says, input.p)
    /\ Is("presence") => PresenceIsHeard(input)
    /\ Is("filters")  => FiltersAreHeard(input.filters)

\* The fields of a card are kept: one that was assigned to has the last value, any other the
\* one it had; but what was asked for or assigned is unescaped once (vCard.h, Entry::update).
FieldsAreKept ==
    LET of(f)     == SelectSeq(input.calls, LAMBDA call : call[2] = f)
        values(f) == SelectSeq(of(f), LAMBDA call : call[1] = "assign")
        expected(f, old) == IF values(f) # <<>> THEN Unescape(Last(values(f))[3])
                            ELSE IF of(f) # <<>> THEN Unescape(old) ELSE old
    IN Is("card") => \A f \in Fields :
          V!Get(V!Card(Handed(1)), f) = expected(f, V!Get(V!Card(input.elem), f))
=============================================================================
