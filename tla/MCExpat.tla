------------------------------ MODULE MCExpat ------------------------------
(***************************************************************************)
(* expat under libjudo, in three games.  In one a text is pushed in pieces, *)
(* as it comes from the net; in another the tokens of a prolog are given to *)
(* the handlers, with the grammar beside them; in the third there are just  *)
(* bytes, for the buffer, and whatever the processor takes of them.         *)
(***************************************************************************)
EXTENDS XmlDocument, PrologGrammar, ContentModel, BufferedParser

CONSTANTS
    PieceSizes,     \* how many bytes come at a time
    LongPieceSizes, \* the same of a long text
    LongText        \* from how many bytes a text is long

VARIABLES
    text,    \* what is pushed
    doc,     \* the document it is, None if it is none
    fed,     \* how much of it has been pushed
    parser,
    game,    \* "push", "prolog" or "bytes"
    rest,    \* what may follow by the grammar
    expected \* the roles the last token may have by the grammar

pushVars == <<text, doc, fed, parser>>
vars     == <<pushVars, game, modelVars, rest, expected, bufferVars>>

-----------------------------------------------------------------------------

D(x)   == <<"data", x>>
Ref(x) == <<"reference", x>>
Num(digits, c) == <<"number", digits, c>>
El(name, atts, parts) == <<"element", name, atts, parts>>
Document(before, declarations, root, after) ==
    [before |-> before, declarations |-> declarations, root |-> root, after |-> after]
Plain(root) == Document("", <<>>, root, "")

Contents == {D("x"), D("]]"), D("~]"), D("\r"), D("\r\n"), D(">"), Ref("lt"), Num("38", "&"),
             Num("xd", "\r"), <<"cdata", "]">>, <<"cdata", "<&\r">>, <<"comment", "-x">>,
             <<"pi", "?x">>, El("b", <<>>, <<>>), El("~", <<>>, <<D("]")>>)}

WithContent == {Plain(El("a", <<>>, <<x, y>>)) :
                   x \in Contents, y \in Contents}
               \ {Plain(El("a", <<>>, <<D("]]"), D(">")>>))}

Values == {D(" "), D("\r\n"), D("x"), D("\t>"), D("~"), Ref("quot"), Num("32", " "), Num("10", "\n")}

WithAttribute == {Plain(El("a", <<<<"b", "'", <<v, w>>>>>>, <<>>)) : v \in Values, w \in Values}

WithType == {Document("", <<<<"attribute", "a", "b", t, <<d>>>>>>, root, "") :
                t \in {"CDATA", "NMTOKEN"}, d \in {D("  x "), Num("32", " ")},
                root \in {El("a", <<>>, <<>>), El("a", <<<<"c", "'", <<D(" ")>>>>>>, <<>>),
                          El("a", <<<<"b", "\"", <<Num("32", " "), D(" y ")>>>>>>, <<>>)}}

WithEntity == {Document("", declarations, root, "") :
    declarations \in {<<<<"entity", "e", <<D("]\r"), Ref("gt")>>>>>>,
                      <<<<"entity", "e", <<Num("10", "\n"), Ref("f")>>>>,
                        <<"entity", "f", <<D(" y")>>>>, <<"entity", "e", <<D("z")>>>>>>},
    root \in {El("a", <<>>, <<Ref("e"), D("]>")>>), El("a", <<<<"b", "'", <<Ref("e")>>>>>>, <<>>)}}
    \union {Document("", <<<<"entity", "e", <<El("b", <<>>, <<D("]]")>>)>>>>>>,
                     El("a", <<>>, <<Ref("e"), Ref("e")>>), "")}

WithProlog == {Document(b, <<>>, El("a", <<>>, <<>>), e) :
    b \in {"<?xml version='1.0'?>", "<?xml version='1.0' encoding=\"utf-8\" standalone='yes' ?>\r\n",
           "<!--c-->\r", "<?p ?>\n "},
    e \in {"", "\r\n", "<!--x--> "}}

Documents == WithContent \union WithAttribute \union WithType \union WithEntity \union WithProlog

\* Texts that are no documents.
NoDocuments ==
    {"<a></b>", "<a b='1' b='2'/>", "<a>x]]></a>", "<a>&e;</a>", "<a b='<'/>", "<a>&#0;</a>",
     "<a/><b/>", "<a>x^</a>", "x<a/>", "<a><?xml version='1.0'?></a>", " <?xml version='1.0'?><a/>",
     "<?xml version='1.0' encoding='x'?><a/>", "<a>&#x110000;</a>", "<a>&#xd800;</a>",
     "<!DOCTYPE a [<!ENTITY e '&e;'>]><a>&e;</a>", "<!DOCTYPE a [<!ENTITY e '<b>'>]><a>&e;</b></a>",
     "<!DOCTYPE a [<!ENTITY e SYSTEM 'x'>]><a b='&e;'/>", "<!DOCTYPE a [<!ENTITY e '%p;'>]><a/>"}

-----------------------------------------------------------------------------

InitPush ==
    /\ game = "push"
    /\ doc \in Documents \union {None}
    /\ IF doc = None THEN \E t \in NoDocuments : text = Bytes(t)
       ELSE text = Bytes(WrittenDocument(doc))
    /\ rest = Nothing /\ expected = {}

InitProlog ==
    /\ game = "prolog"
    /\ doc = None /\ text = <<>>
    /\ rest = Prolog /\ expected = {"NONE"}

InitBytes ==
    /\ game = "bytes"
    /\ doc = None /\ text = <<>>
    /\ rest = Nothing /\ expected = {}

Init ==
    /\ InitPush \/ InitProlog \/ InitBytes
    /\ fed = 0 /\ parser = NewParser
    /\ HandlersInit
    /\ BufferInit

\* A piece of the text comes: ElementStream::push() until there is an error.
Push ==
    /\ game = "push" /\ parser.error = "NONE"
    /\ \E n \in (IF Len(text) < LongText THEN PieceSizes ELSE LongPieceSizes) \union {Len(text) - fed} :
         /\ n > 0 /\ fed + n <= Len(text)
         /\ fed' = fed + n
         /\ parser' = [Parse(parser, SubSeq(text, fed + 1, fed + n)) EXCEPT !.events = Merged(@)]
    /\ UNCHANGED <<text, doc, game, modelVars, rest, expected, bufferVars>>

\* A token of a prolog; a byte order mark is only seen where a text begins.
TakePrologToken ==
    /\ game = "prolog"
    /\ \E t \in PrologTokens \ {AnyName} :
         /\ t = <<"BOM">> => lastToken = <<>>
         /\ TakeToken(t)
         /\ rest' = After(rest, t)
         /\ expected' = RolesOf(rest, t)
    /\ UNCHANGED <<pushVars, game, bufferVars>>

PushBytes ==
    /\ game = "bytes"
    /\ BufferNext
    /\ UNCHANGED <<pushVars, game, modelVars, rest, expected>>

Next == Push \/ TakePrologToken \/ PushBytes

Spec == Init /\ [][Next]_vars

-----------------------------------------------------------------------------

\* How a text is cut does not matter: after each piece the parser has reported what it
\* reports of the whole in one call, and has found the same error.  (Of a text that is
\* wrong, one call may report less.)
PiecesDoNotMatter ==
    LET agrees(whole) ==
            /\ parser.error = whole.error
            /\ parser.error = "NONE" =>
                 /\ parser.events = Merged(whole.events)
                 /\ Unparsed(parser.buffer) = Unparsed(whole.buffer)
    IN game = "push" => agrees(Parse(NewParser, SubSeq(text, 1, fed)))

\* A document is parsed to its end and reported as what it means; what is none is refused.
DocumentIsReported ==
    game = "push" /\ fed = Len(text) =>
        IF doc = None THEN parser.error # "NONE"
        ELSE /\ parser.error = "NONE" /\ parser.processor = "epilog"
             /\ parser.events = Meaning(doc) /\ parser.tags = <<>>

\* The handlers take what the grammar allows, in the roles it gives.
PrologIsTheGrammar ==
    game = "prolog" =>
        /\ state.role = "ERROR" <=> rest = Nothing
        /\ state.role # "ERROR" => state.role \in expected
=============================================================================
