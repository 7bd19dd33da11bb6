---------------------------- MODULE XmlDocument ----------------------------
(***************************************************************************)
(* What a document says: the reference the parser is checked against.  A    *)
(* document is given by its parts, as the recommendation names them; it can *)
(* be written, and it has a meaning, the elements with their attributes and *)
(* the character data between them.                                         *)
(*                                                                          *)
(* A part of the content is one of                                          *)
(*   <<"data", text>>        <<"cdata", text>>      <<"reference", entity>> *)
(*   <<"number", digits, c>> <<"comment", text>>    <<"pi", text>>          *)
(*   <<"element", name, attributes, content>>                               *)
(* where an element without content is written as an empty tag, and an      *)
(* attribute is <<name, quote, parts>>.  Texts are strings; "~" is the      *)
(* letter that is not ASCII, "^" the byte that XML does not allow.          *)
(***************************************************************************)
EXTENDS XmlParse

Bytes(text) == FlattenSeq([k \in 1..Len(text) |->
                   CASE SubSeq(text, k, k) = "~" -> <<"lead", "trail">>
                     [] SubSeq(text, k, k) = "^" -> <<"control">>
                     [] OTHER -> <<SubSeq(text, k, k)>>])

Joined(texts) == FoldLeft(LAMBDA a, b : a \o b, "", texts)

-----------------------------------------------------------------------------
(* Writing. *)

RECURSIVE Written(_)
Written(parts) ==
    LET written(part) ==
            CASE part[1] = "data"      -> part[2]
              [] part[1] = "cdata"     -> "<![CDATA[" \o part[2] \o "]]>"
              [] part[1] = "reference" -> "&" \o part[2] \o ";"
              [] part[1] = "number"    -> "&#" \o part[2] \o ";"
              [] part[1] = "comment"   -> "<!--" \o part[2] \o "-->"
              [] part[1] = "pi"        -> "<?p " \o part[2] \o "?>"
              [] part[1] = "element"   ->
                   LET atts == Joined([k \in 1..Len(part[3]) |->
                                   " " \o part[3][k][1] \o "=" \o part[3][k][2]
                                       \o Written(part[3][k][3]) \o part[3][k][2]])
                   IN IF part[4] = <<>> THEN "<" \o part[2] \o atts \o "/>"
                      ELSE "<" \o part[2] \o atts \o ">" \o Written(part[4]) \o "</" \o part[2] \o ">"
    IN Joined([k \in 1..Len(parts) |-> written(parts[k])])

\* A declaration is <<"entity", name, parts>> or <<"attribute", element, name, type, parts>>.
WrittenDeclaration(d) ==
    CASE d[1] = "entity"    -> "<!ENTITY " \o d[2] \o " '" \o Written(d[3]) \o "'>"
      [] d[1] = "attribute" -> "<!ATTLIST " \o d[2] \o " " \o d[3] \o " " \o d[4]
                               \o " '" \o Written(d[5]) \o "'>"

\* doc.before and doc.after stand around the doctype and the root element.
WrittenDocument(doc) ==
    doc.before
    \o (IF doc.declarations = <<>> THEN ""
        ELSE "<!DOCTYPE a [" \o Joined([k \in 1..Len(doc.declarations) |->
                                           WrittenDeclaration(doc.declarations[k])]) \o "]>")
    \o Written(<<doc.root>>) \o doc.after

-----------------------------------------------------------------------------
(* Meaning. *)

\* 2.11: one end of a line.
OneLineEnd(bytes) ==
    FlattenSeq([k \in 1..Len(bytes) |->
        IF bytes[k] = "\r" THEN <<"\n">>
        ELSE IF bytes[k] = "\n" /\ k > 1 /\ bytes[k - 1] = "\r" THEN <<>> ELSE <<bytes[k]>>])

IsEntity(doc, name) == \E k \in 1..Len(doc.declarations) :
                           doc.declarations[k][1] = "entity" /\ doc.declarations[k][2] = name

\* 4.5: the replacement text of an entity, its first declaration's.
Replacement(doc, name) ==
    LET first == SelectSeq(doc.declarations, LAMBDA d : d[1] = "entity" /\ d[2] = name)[1]
    IN [k \in 1..Len(first[3]) |->
           IF first[3][k][1] = "number" THEN <<"data", first[3][k][3]>> ELSE first[3][k]]

\* 3.3.3: white space is a space, but not if it is referred to.
RECURSIVE AttributeText(_, _)
AttributeText(doc, parts) ==
    LET text(part) ==
            CASE part[1] = "data" ->
                   LET line == OneLineEnd(Bytes(part[2]))
                   IN [k \in 1..Len(line) |-> IF line[k] \in Blanks THEN " " ELSE line[k]]
              [] part[1] = "number" -> Bytes(part[3])
              [] part[1] = "reference" ->
                   IF IsEntity(doc, part[2]) THEN AttributeText(doc, Replacement(doc, part[2]))
                   ELSE <<PredefinedEntityName(Chars(part[2]))>>
    IN FlattenSeq([k \in 1..Len(parts) |-> text(parts[k])])

Tokens(bytes) ==
    LET kept == {k \in 1..Len(bytes) : bytes[k] # " " \/ (k > 1 /\ bytes[k - 1] # " "
                                          /\ \E l \in k..Len(bytes) : bytes[l] # " ")}
    IN FlattenSeq([k \in 1..Len(bytes) |-> IF k \in kept THEN <<bytes[k]>> ELSE <<>>])

\* The value of an attribute of an element, by what is declared of it first.
Declared(doc, element, name) ==
    SelectSeq(doc.declarations, LAMBDA d : d[1] = "attribute" /\ d[2] = element /\ d[3] = name)

AttributeValue(doc, element, name, parts) ==
    LET said == Declared(doc, element, name)
    IN IF said # <<>> /\ said[1][4] # "CDATA" THEN Tokens(AttributeText(doc, parts))
       ELSE AttributeText(doc, parts)

\* 3.3.2: those that are given, then the defaults of those that are not.
AttributesOf(doc, element, atts) ==
    LET given(name) == \E k \in 1..Len(atts) : atts[k][1] = name
        defaults == SelectSeq(doc.declarations,
                       LAMBDA d : /\ d[1] = "attribute" /\ d[2] = element /\ ~given(d[3])
                                  /\ d = Declared(doc, element, d[3])[1])
        value(name, parts) == <<Bytes(name), AttributeValue(doc, element, name, parts)>>
    IN [k \in 1..Len(atts) |-> value(atts[k][1], atts[k][3])]
       \o [k \in 1..Len(defaults) |-> value(defaults[k][3], defaults[k][5])]

RECURSIVE EventsOf(_, _)
EventsOf(doc, parts) ==
    LET events(part) ==
            CASE part[1] \in {"data", "cdata"} ->
                   IF part[2] = "" THEN <<>> ELSE <<<<"data", OneLineEnd(Bytes(part[2]))>>>>
              [] part[1] = "number" -> <<<<"data", Bytes(part[3])>>>>
              [] part[1] \in {"comment", "pi"} -> <<>>
              [] part[1] = "reference" ->
                   IF IsEntity(doc, part[2]) THEN EventsOf(doc, Replacement(doc, part[2]))
                   ELSE <<<<"data", <<PredefinedEntityName(Chars(part[2]))>>>>>>
              [] part[1] = "element" ->
                   <<<<"start", Bytes(part[2]), AttributesOf(doc, part[2], part[3])>>>>
                   \o EventsOf(doc, part[4]) \o <<<<"end", Bytes(part[2])>>>>
    IN FlattenSeq([k \in 1..Len(parts) |-> events(parts[k])])

\* Data that comes in pieces, put together.
Merged(events) ==
    LET merge(so, event) ==
            IF so # <<>> /\ event[1] = "data" /\ so[Len(so)][1] = "data"
            THEN [so EXCEPT ![Len(so)] = <<"data", @[2] \o event[2]>>] ELSE Append(so, event)
    IN FoldLeft(merge, <<>>, events)

Meaning(doc) == Merged(EventsOf(doc, <<doc.root>>))
=============================================================================
