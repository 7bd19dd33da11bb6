------------------------------ MODULE Elements ------------------------------
(***************************************************************************)
(* judo::Element and judo::CDATA: the tree a stanza is, how it is built and *)
(* how it is written.  An element is                                        *)
(*   [name |-> ..., attribs |-> a function, text |-> "", kids |-> <<...>>]  *)
(* and character data a node named "#CDATA" with a text.  What the code     *)
(* does through a pointer to a kid is done to the kid at an index.          *)
(***************************************************************************)
EXTENDS Naturals, Sequences, SequencesExt

CDATA == "#CDATA"

Text(s) == [name |-> CDATA, attribs |-> <<>>, text |-> s, kids |-> <<>>]

\* Elements are told from data by name, so no element may be named "#CDATA".
IsElement(node) == node.name # CDATA

-----------------------------------------------------------------------------
(* Character data. *)

Chars(s)  == [i \in 1..Len(s) |-> SubSeq(s, i, i)]
Glued(texts) == FoldLeft(LAMBDA r, t : r \o t, "", texts)
Dropped(s, n) == SubSeq(s, n + 1, Len(s))

Escaped == [c \in {"&", "'", "\"", "<", ">"} |->
               CASE c = "&"  -> "&amp;"  [] c = "'" -> "&apos;" [] c = "\"" -> "&quot;"
                 [] c = "<"  -> "&lt;"   [] c = ">" -> "&gt;"]

\* Mutant of Escape: quotes are left as they are.
Escape_NoQuotes(s) ==
    Glued([i \in 1..Len(s) |-> LET c == SubSeq(s, i, i)
                               IN IF c \in {"&", "<", ">"} THEN Escaped[c] ELSE c])

Escape(s) ==
    Glued([i \in 1..Len(s) |-> LET c == SubSeq(s, i, i)
                               IN IF c \in DOMAIN Escaped THEN Escaped[c] ELSE c])

\* One pass: what an escape leaves is not looked at again.  An `&' that begins none is kept.
RECURSIVE Unescape(_)
Unescape(s) ==
    LET begun == {c \in DOMAIN Escaped : /\ Len(Escaped[c]) <= Len(s)
                                        /\ SubSeq(s, 1, Len(Escaped[c])) = Escaped[c]}
    IN IF s = "" THEN ""
       ELSE IF begun = {} THEN SubSeq(s, 1, 1) \o Unescape(Dropped(s, 1))
       ELSE LET c == CHOOSE c \in begun : TRUE
            IN c \o Unescape(Dropped(s, Len(Escaped[c])))

Stored(data, escaped) == IF escaped THEN Unescape(data) ELSE data

-----------------------------------------------------------------------------
(* Building. *)

\* The constructor: the first of two attributes of one name stays.
Element(name, attribs) ==
    [name |-> name, text |-> "", kids |-> <<>>,
     attribs |-> [k \in {attribs[i][1] : i \in DOMAIN attribs} |->
                    LET first == CHOOSE i \in DOMAIN attribs :
                                    /\ attribs[i][1] = k
                                    /\ \A j \in 1..(i - 1) : attribs[j][1] # k
                    IN attribs[first][2]]]

AppendChild(e, node) == [e EXCEPT !.kids = Append(@, node)]

\* Data behind data is one node: each call unescapes what it was given.
AddCDATA(e, data, escaped) ==
    LET n == Len(e.kids)
    IN IF n > 0 /\ ~IsElement(e.kids[n])
       THEN [e EXCEPT !.kids[n].text = @ \o Stored(data, escaped)]
       ELSE AppendChild(e, Text(Stored(data, escaped)))

\* addElement() with a value: the new kid holds data even if the value is empty.
AddElement(e, name) == AppendChild(e, Element(name, <<>>))
AddElementText(e, name, value, escaped) ==
    AppendChild(e, AddCDATA(Element(name, <<>>), value, escaped))

PutAttrib(e, k, value) ==
    [e EXCEPT !.attribs = [x \in DOMAIN @ \union {k} |-> IF x = k THEN value ELSE @[x]]]

-----------------------------------------------------------------------------
(* Reading. *)

GetAttrib(e, k) == IF k \in DOMAIN e.attribs THEN e.attribs[k] ELSE ""

CmpAttrib(e, k, value) == k \in DOMAIN e.attribs /\ e.attribs[k] = value

\* The first kid of which P holds, 0 if there is none.
FirstKid(e, P(_)) ==
    LET found == {i \in DOMAIN e.kids : P(e.kids[i])}
    IN IF found = {} THEN 0 ELSE CHOOSE i \in found : \A j \in found : i <= j

FindElement(e, name) == FirstKid(e, LAMBDA kid : IsElement(kid) /\ kid.name = name)

\* getCDATA(): the first section of character data.
GetCDATA(e) ==
    LET i == FirstKid(e, LAMBDA kid : ~IsElement(kid))
    IN IF i = 0 THEN "" ELSE e.kids[i].text

GetChildCData(e, name) ==
    LET i == FindElement(e, name)
    IN IF i = 0 THEN "" ELSE GetCDATA(e.kids[i])

-----------------------------------------------------------------------------
(* Writing. *)

\* The attributes, in some order (std::map has that of their names).
WrittenAttribs(e) ==
    LET names == SetToSeq(DOMAIN e.attribs)
    IN Glued([i \in DOMAIN names |-> " " \o names[i] \o "='" \o Escape(e.attribs[names[i]]) \o "'"])

\* toString(), by accumulate().
RECURSIVE AsString(_)
AsString(node) ==
    IF ~IsElement(node) THEN Escape(node.text)
    ELSE "<" \o node.name \o WrittenAttribs(node)
         \o (IF node.kids = <<>> THEN "/>"
             ELSE ">" \o Glued([i \in DOMAIN node.kids |-> AsString(node.kids[i])])
                  \o "</" \o node.name \o ">")

\* toStringEx(): the tag alone, or all of it; closed or left open.
AsStringEx(e, recursive, closetag) ==
    "<" \o e.name \o WrittenAttribs(e)
    \o (IF recursive /\ e.kids # <<>>
        THEN ">" \o Glued([i \in DOMAIN e.kids |-> AsString(e.kids[i])])
             \o (IF closetag THEN "</" \o e.name \o ">" ELSE "")
        ELSE IF closetag THEN "/>" ELSE ">")
=============================================================================
