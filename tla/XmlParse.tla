------------------------------ MODULE XmlParse ------------------------------
(***************************************************************************)
(* The parser of xmlparse.c as libjudo uses it: created without an          *)
(* encoding, given handlers for elements and character data only, and       *)
(* called with isFinal = 0, so that what a call leaves unparsed is kept for *)
(* the next.  Only the text of an entity is parsed to its end (nextPtr = 0).*)
(*                                                                          *)
(* The parser is a record; names and texts are sequences of bytes.  A       *)
(* function of the code that returns an error and stores how far it came    *)
(* returns the parser with its `error' and `next'.                          *)
(***************************************************************************)
EXTENDS XmlTok, XmlRole, ParserBuffer

Chars(word) == [k \in 1..Len(word) |-> SubSeq(word, k, k)]
None == <<>>

NewParser ==
    [processor |-> "prologInit", error |-> "NONE", next |-> 1,
     buffer |-> NoBuffer,
     state |-> PrologStateInit, tags |-> <<>>, events |-> <<>>,
     complete |-> TRUE, standalone |-> FALSE, hadExternalDoctype |-> FALSE,
     entities |-> <<>>, declEntity |-> None,
     elementTypes |-> <<>>, maybeTokenized |-> {},
     declElement |-> None, declAttribute |-> None, declIsCdata |-> FALSE, declIsId |-> FALSE]

Fail(p, code) == [p EXCEPT !.error = code]
Keep(p, i)    == [p EXCEPT !.next = i]

\* A call of one of the handlers.
Report(p, event) == [p EXCEPT !.events = Append(@, event)]
Data(p, bytes)   == IF bytes = <<>> THEN p ELSE Report(p, <<"data", bytes>>)

-----------------------------------------------------------------------------
(* Characters and names. *)

\* The characters from 32 to 126 (the grave accent, which no text of the model has, as "?").
Ascii == " !\"#$%&'()*+,-./0123456789:;<=>?@ABCDEFGHIJKLMNOPQRSTUVWXYZ[\\]^_?abcdefghijklmnopqrstuvwxyz{|}~"

\* XmlEncode(): all that is not ASCII is the one letter of the model.
Encode(n) ==
    CASE n = 9  -> <<"\t">>
      [] n = 10 -> <<"\n">>
      [] n = 13 -> <<"\r">>
      [] n \in 32..126 -> <<SubSeq(Ascii, n - 31, n - 31)>>
      [] OTHER -> <<"lead", "trail">>

DigitValue(byte) ==
    CHOOSE v \in 0..15 : byte \in {SubSeq("0123456789abcdef", v + 1, v + 1),
                                   SubSeq("0123456789ABCDEF", v + 1, v + 1)}

TooLarge == 1114112

\* The digits up to ";" in a base: the loop ends at the first number that is too large.
RECURSIVE Number(_, _, _, _)
Number(s, i, base, n) ==
    IF n >= TooLarge \/ s[i] = ";" THEN n
    ELSE Number(s, i + 1, base, base * n + DigitValue(s[i]))

\* checkCharRefNumber(): surrogates, controls and the two that are no characters.
IsCharacter(n) ==
    /\ n < TooLarge
    /\ n \div 256 \notin 216..223
    /\ n < 32 => n \in {9, 10, 13}
    /\ n \notin {65534, 65535}

\* XmlCharRefNumber() of the reference at i: -1 for what is none.
CharRefNumber(s, i) ==
    LET n == IF s[i + 2] = "x" THEN Number(s, i + 3, 16, 0) ELSE Number(s, i + 2, 10, 0)
    IN IF IsCharacter(n) THEN n ELSE -1

Predefined == {<<"lt", "<">>, <<"gt", ">">>, <<"amp", "&">>, <<"quot", "\"">>, <<"apos", "'">>}

\* The character of a predefined entity, "" of any other.
PredefinedEntityName(name) ==
    LET of == {e[2] : e \in {f \in Predefined : Chars(f[1]) = name}}
    IN IF of = {} THEN "" ELSE CHOOSE char \in of : TRUE

\* The name at i, which is known to be one.
NameAt(s, i) == SubSeq(s, i, NameEnd(s, i) - 1)

-----------------------------------------------------------------------------
(* Attributes. *)

\* XmlGetAttributes(): what is not normalized may change when its value is stored.
Normalized(value) ==
    \A k \in 1..Len(value) :
        /\ value[k] \notin {"&", "\t"} \union LineEnds
        /\ value[k] = " " => k > 1 /\ k < Len(value) /\ value[k + 1] # " "

RECURSIVE GetAtts(_, _)
GetAtts(s, i) ==
    LET name  == Skip(s, i, Blanks)
        quote == Skip(s, Skip(s, NameEnd(s, name), Blanks) + 1, Blanks)
        close == TextEnd(s, quote + 1, {s[quote]})
    IN IF s[name] \in {"/", ">"} THEN <<>>
       ELSE <<[name |-> NameAt(s, name), value |-> SubSeq(s, quote + 1, close - 1)]>>
            \o GetAtts(s, close + 1)

\* An error, and the value as far as it has been put together.
Value(error, value) == [error |-> error, value |-> value]

EndsInSpace(value) == value = <<>> \/ value[Len(value)] = " "

\* appendAttributeValue() of s from i on; the entities in open are being expanded.
RECURSIVE AppendAttributeValue(_, _, _, _, _, _)

\* The reference to an entity from i on, behind which next is.
AppendEntity(p, isCdata, s, i, next, open, value) ==
    LET name == SubSeq(s, i + 1, next - 2)
        char == PredefinedEntityName(name)
        on(v) == IF v.error # "NONE" THEN v ELSE AppendAttributeValue(p, isCdata, s, next, open, v.value)
    IN CASE char # "" -> on(Value("NONE", Append(value, char)))
         [] char = "" /\ name \notin DOMAIN p.entities ->
              IF p.complete THEN Value("UNDEFINED_ENTITY", value) ELSE on(Value("NONE", value))
         [] char = "" /\ name \in DOMAIN p.entities ->
              IF name \in open THEN Value("RECURSIVE_ENTITY_REF", value)
              ELSE IF p.entities[name].notation THEN Value("BINARY_ENTITY_REF", value)
              ELSE IF ~p.entities[name].internal THEN Value("ATTRIBUTE_EXTERNAL_ENTITY_REF", value)
              ELSE on(AppendAttributeValue(p, isCdata, p.entities[name].text, 1,
                                           open \union {name}, value))

\* The token t from i on.
AppendToken(p, isCdata, s, i, t, open, value) ==
    LET next  == IF t.tok = "TRAILING_CR" THEN i + 1 ELSE t.next
        more(bytes) == AppendAttributeValue(p, isCdata, s, next, open, value \o bytes)
        space == IF ~isCdata /\ EndsInSpace(value) THEN <<>> ELSE <<" ">>
        refer(code) == IF code = -1 THEN Value("BAD_CHAR_REF", value)
                       ELSE more(IF code = 32 THEN space ELSE Encode(code))
    IN CASE t.tok = "NONE" -> Value("NONE", value)
         [] t.tok \in {"INVALID", "PARTIAL"} -> Value("INVALID_TOKEN", value)
         [] t.tok = "DATA_CHARS" -> more(SubSeq(s, i, t.next - 1))
         [] t.tok \in {"TRAILING_CR", "ATTRIBUTE_VALUE_S", "DATA_NEWLINE"} -> more(space)
         [] t.tok = "CHAR_REF" -> refer(CharRefNumber(s, i))
         [] t.tok = "ENTITY_REF" -> AppendEntity(p, isCdata, s, i, next, open, value)
         [] OTHER -> Value("UNEXPECTED_STATE", value)

AppendAttributeValue(p, isCdata, s, i, open, value) ==
    AppendToken(p, isCdata, s, i, AttributeValueTok(s, i), open, value)

StoreAttributeValue(p, isCdata, text, open) ==
    LET trimmed(v) == IF v.error = "NONE" /\ ~isCdata /\ v.value # <<>> /\ EndsInSpace(v.value)
                      THEN [v EXCEPT !.value = Front(@)] ELSE v
    IN trimmed(AppendAttributeValue(p, isCdata, text, 1, open, <<>>))

\* What <!ATTLIST> has said of an element: <<attribute, whether CDATA, value or none>>s.
DefaultAtts(p, element) ==
    IF element \in DOMAIN p.elementTypes THEN p.elementTypes[element] ELSE <<>>

\* Whether an attribute is CDATA: the first that is said of it holds.
IsCdata(p, element, name) ==
    LET said == SelectSeq(DefaultAtts(p, element), LAMBDA d : d.id = name)
    IN name \in p.maybeTokenized /\ said # <<>> => said[1].isCdata

\* The value of an attribute as it is stored.
StoredValue(p, element, att, open) ==
    IF Normalized(att.value) THEN Value("NONE", att.value)
    ELSE StoreAttributeValue(p, IsCdata(p, element, att.name), att.value, open)

\* One attribute of a tag, behind those in so.
Specified(p, element, open, so, att) ==
    LET put(v) == [error |-> v.error, atts |-> Append(so.atts, <<att.name, v.value>>)]
    IN IF so.error # "NONE" THEN so
       ELSE IF \E k \in 1..Len(so.atts) : so.atts[k][1] = att.name
       THEN [so EXCEPT !.error = "DUPLICATE_ATTRIBUTE"]
       ELSE put(StoredValue(p, element, att, open))

\* storeAtts(): the attributes of the tag whose name ends before i, then the defaults.
StoreAtts(p, element, s, i, open) ==
    LET default(atts, d) ==
            IF d.value = None \/ \E k \in 1..Len(atts) : atts[k][1] = d.id THEN atts
            ELSE Append(atts, <<d.id, d.value[1]>>)
    IN [FoldLeft(LAMBDA so, att : Specified(p, element, open, so, att),
                 [error |-> "NONE", atts |-> <<>>], GetAtts(s, i))
           EXCEPT !.atts = FoldLeft(default, @, DefaultAtts(p, element))]

\* defineAttribute() for what has been declared last; value is None or <<text>>.
DefineAttribute(p, isId, value) ==
    LET atts == DefaultAtts(p, p.declElement)
        known == \E k \in 1..Len(atts) : atts[k].id = p.declAttribute
        att  == [id |-> p.declAttribute, isCdata |-> p.declIsCdata, value |-> value]
    IN IF ~p.complete \/ ((value # None \/ isId) /\ known) THEN p
       ELSE [p EXCEPT
                !.elementTypes = [e \in DOMAIN @ \union {p.declElement} |->
                                     IF e = p.declElement THEN Append(atts, att) ELSE @[e]],
                !.maybeTokenized = IF p.declIsCdata THEN @ ELSE @ \union {p.declAttribute}]

-----------------------------------------------------------------------------
(* Content. *)

\* doCdataSection() from i: `after' is where the section is closed, or 0.
RECURSIVE DoCdataSection(_, _, _, _)
DoCdataSection(p, s, i, nested) ==
    LET t == CdataSectionTok(s, i)
        kept(code) == [parser |-> IF nested THEN Fail(p, code) ELSE Keep(p, i), after |-> 0]
    IN CASE t.tok = "CDATA_SECT_CLOSE" -> [parser |-> p, after |-> t.next]
         [] t.tok = "DATA_NEWLINE" -> DoCdataSection(Data(p, <<"\n">>), s, t.next, nested)
         [] t.tok = "DATA_CHARS" ->
              DoCdataSection(Data(p, SubSeq(s, i, t.next - 1)), s, t.next, nested)
         [] t.tok = "INVALID" -> [parser |-> Fail(p, "INVALID_TOKEN"), after |-> 0]
         [] t.tok = "PARTIAL_CHAR" -> kept("PARTIAL_CHAR")
         [] t.tok \in {"PARTIAL", "NONE"} -> kept("UNCLOSED_CDATA_SECTION")

\* epilogProcessor().
RECURSIVE Epilog(_, _, _)
Epilog(p, s, i) ==
    LET q == [p EXCEPT !.processor = "epilog"]
        take(t) ==
            CASE t.tok = "NONE" \/ (t.tok = "PROLOG_S" /\ t.open) -> Keep(q, Len(s) + 1)
              [] t.tok \in {"PROLOG_S", "PI", "COMMENT"} /\ ~t.open -> Epilog(q, s, t.next)
              [] t.tok = "INVALID" -> Fail(q, "INVALID_TOKEN")
              [] t.tok \in {"PARTIAL", "PARTIAL_CHAR"} -> Keep(q, i)
              [] OTHER -> Fail(q, "JUNK_AFTER_DOC_ELEMENT")
    IN take(PrologTok(s, i))

\* The text of an entity ends at i, inside of what t is: nothing can follow.
EndOfEntity(p, s, i, t, start) ==
    LET rest == CASE t = "TRAILING_CR"   -> <<"\n">>
                  [] t = "TRAILING_RSQB" -> SubSeq(s, i, Len(s))
                  [] OTHER -> <<>>
    IN CASE t = "PARTIAL"      -> Fail(p, "UNCLOSED_TOKEN")
         [] t = "PARTIAL_CHAR" -> Fail(p, "PARTIAL_CHAR")
         [] OTHER -> IF Len(p.tags) # start THEN Fail(Data(p, rest), "ASYNC_ENTITY")
                     ELSE Data(p, rest)

StartElement(p, name, atts) == Report(p, <<"start", name, atts>>)
EndElement(p, name)         == Report(p, <<"end", name>>)

\* A start tag or an empty element whose name begins at i.
StartTag(p, s, i, open) ==
    LET name == NameAt(s, i)
        started(stored) ==
            IF stored.error # "NONE" THEN Fail(p, stored.error)
            ELSE StartElement([p EXCEPT !.tags = Append(@, name)], name, stored.atts)
    IN started(StoreAtts(p, name, s, i + Len(name), open))

\* Mutant of EndTag: the name is not looked at.
EndTag_AnyName(p, name) == EndElement([p EXCEPT !.tags = Front(@)], p.tags[Len(p.tags)])

EndTag(p, name) ==
    IF name # p.tags[Len(p.tags)] THEN Fail(p, "TAG_MISMATCH")
    ELSE EndElement([p EXCEPT !.tags = Front(@)], name)

\* Why an entity may not be referred to in content, "NONE" if it may.
ReferenceError(p, name, open) ==
    IF name \notin DOMAIN p.entities
    THEN IF p.complete \/ p.standalone THEN "UNDEFINED_ENTITY" ELSE "NONE"
    ELSE IF name \in open THEN "RECURSIVE_ENTITY_REF"
    ELSE IF p.entities[name].notation THEN "BINARY_ENTITY_REF" ELSE "NONE"

\* Data and references to characters: what they stand for, with nothing for a reference to
\* no character.
CharactersOf(s, i, t) ==
    LET code == CharRefNumber(s, i)
    IN CASE t.tok = "DATA_NEWLINE" -> <<"\n">>
         [] t.tok = "DATA_CHARS"   -> SubSeq(s, i, t.next - 1)
         [] t.tok = "CHAR_REF"     -> IF code = -1 THEN <<>> ELSE Encode(code)

RECURSIVE DoContent(_, _, _, _, _)

Content(p, s, i) == DoContent([p EXCEPT !.processor = "content"], s, i, 0, {})

\* A reference to an entity, as far as behind it.
Refer(p, entity, open) ==
    LET char   == PredefinedEntityName(entity)
        reason == ReferenceError(p, entity, open)
    IN IF char # "" THEN Data(p, <<char>>)
       ELSE IF reason # "NONE" THEN Fail(p, reason)
       ELSE IF entity \in DOMAIN p.entities /\ p.entities[entity].internal
       THEN DoContent(p, p.entities[entity].text, 1, Len(p.tags), open \union {entity})
       ELSE p

\* What the token t from i on does to the parser; a tag that is closed may be the last.
Contained(p, s, i, t, start, open) ==
    LET put(bytes)  == IF bytes = <<>> THEN Fail(p, "BAD_CHAR_REF") ELSE Data(p, bytes)
        empty       == t.tok \in {"EMPTY_ELEMENT_NO_ATTS", "EMPTY_ELEMENT_WITH_ATTS"}
        end(q)      == IF empty /\ q.error = "NONE" THEN EndTag(q, NameAt(s, i + 1)) ELSE q
    IN CASE t.tok = "INVALID"  -> Fail(p, "INVALID_TOKEN")
         [] t.tok = "XML_DECL" -> Fail(p, "MISPLACED_XML_PI")
         [] t.tok \in {"PI", "COMMENT"} -> p
         [] t.tok \in {"DATA_NEWLINE", "DATA_CHARS", "CHAR_REF"} -> put(CharactersOf(s, i, t))
         [] t.tok = "ENTITY_REF" -> Refer(p, SubSeq(s, i + 1, t.next - 2), open)
         [] t.tok \in {"START_TAG_NO_ATTS", "START_TAG_WITH_ATTS"} \/ empty ->
              end(StartTag(p, s, i + 1, open))
         [] t.tok = "END_TAG" -> IF Len(p.tags) = start THEN Fail(p, "ASYNC_ENTITY")
                                 ELSE EndTag(p, NameAt(s, i + 2))

\* Behind a CDATA section, or where the text ends within one.
BehindCdata(cdata, s, start, open) ==
    IF cdata.after = 0 THEN [cdata.parser EXCEPT !.processor = "cdataSection"]
    ELSE DoContent(cdata.parser, s, cdata.after, start, open)

\* doContent() of the token t from i on, and of what is behind it: where the root is closed
\* that is the epilog.
InContent(p, s, i, t, start, open) ==
    LET closes == t.tok \in {"EMPTY_ELEMENT_NO_ATTS", "EMPTY_ELEMENT_WITH_ATTS", "END_TAG"}
        on(q)  == IF q.error # "NONE" THEN q
                  ELSE IF closes /\ q.tags = <<>> THEN Epilog(q, s, t.next)
                  ELSE DoContent(q, s, t.next, start, open)
    IN IF t.tok \in {"NONE", "PARTIAL", "PARTIAL_CHAR", "TRAILING_CR", "TRAILING_RSQB"}
       THEN IF start = 0 THEN Keep(p, i) ELSE EndOfEntity(p, s, i, t.tok, start)
       ELSE IF t.tok = "CDATA_SECT_OPEN"
       THEN BehindCdata(DoCdataSection(p, s, t.next, start > 0), s, start, open)
       ELSE on(Contained(p, s, i, t, start, open))

\* doContent() from i.  start is the number of tags that are open around the text, 0 for
\* what has been pushed; open are the entities that are being expanded.
DoContent(p, s, i, start, open) == InContent(p, s, i, ContentTok(s, i), start, open)

CdataSection(p, s, i) ==
    BehindCdata(DoCdataSection([p EXCEPT !.processor = "content"], s, i, FALSE), s, 0, {})

-----------------------------------------------------------------------------
(* The prolog. *)

\* storeEntityValue(): references to entities stay, all else is resolved.
RECURSIVE StoreEntityValue(_, _, _)

\* The token t from i on.
StoreToken(s, i, t, value) ==
    LET next == IF t.tok = "TRAILING_CR" THEN i + 1 ELSE t.next
        more(bytes) == StoreEntityValue(s, next, value \o bytes)
        refer(code) == IF code = -1 THEN Value("BAD_CHAR_REF", value) ELSE more(Encode(code))
    IN CASE t.tok = "NONE" -> Value("NONE", value)
         [] t.tok \in {"ENTITY_REF", "DATA_CHARS"} -> more(SubSeq(s, i, next - 1))
         [] t.tok \in {"TRAILING_CR", "DATA_NEWLINE"} -> more(<<"\n">>)
         [] t.tok = "CHAR_REF" -> refer(CharRefNumber(s, i))
         [] t.tok \in {"PARTIAL", "INVALID"} -> Value("INVALID_TOKEN", value)
         [] t.tok = "PARAM_ENTITY_REF" -> Value("SYNTAX", value)
         [] OTHER -> Value("UNEXPECTED_STATE", value)

StoreEntityValue(s, i, value) == StoreToken(s, i, EntityValueTok(s, i), value)

\* parsePseudoAttribute() from i: none of a name, an error, or what it is and the end of it.
ValueBytes == (NameBytes \ {":"})
PseudoAttribute(s, i) ==
    LET name  == Skip(s, i, Blanks)
        stops == Blanks \union {"="}
        ends  == {k \in name..Len(s) : s[k] \in stops}
        end   == CHOOSE k \in ends : \A l \in ends : k <= l
        equals == Skip(s, end, Blanks)
        quote == Skip(s, equals + 1, Blanks)
        close == Skip(s, quote + 1, ValueBytes)
        bad   == [tok |-> "bad"]
    IN IF name > Len(s) THEN [tok |-> "none", next |-> name]
       ELSE IF name = i \/ ends = {} THEN bad
       ELSE IF end = name \/ equals > Len(s) \/ s[equals] # "=" THEN bad
       ELSE IF quote > Len(s) \/ s[quote] \notin {"\"", "'"} THEN bad
       ELSE IF close > Len(s) \/ s[close] # s[quote] THEN bad
       ELSE [tok |-> "attribute", name |-> SubSeq(s, name, end - 1),
             value |-> SubSeq(s, quote + 1, close - 1), next |-> close + 1]

\* What follows i is the attribute called word.
Is(word, a) == a.tok = "attribute" /\ a.name = Chars(word)

\* doParseXmlDecl(), from its end: standalone or none, before it encoding or none, before
\* it version.
NoDecl == [ok |-> FALSE, encoding |-> <<>>, standalone |-> FALSE]

StandaloneDecl(s, encoding, a) ==
    LET answer(standalone) == [ok |-> TRUE, encoding |-> encoding, standalone |-> standalone]
    IN IF a.tok = "none" THEN answer(FALSE)
       ELSE IF ~Is("standalone", a) \/ a.value \notin {Chars("yes"), Chars("no")} THEN NoDecl
       ELSE IF Skip(s, a.next, Blanks) <= Len(s) THEN NoDecl
       ELSE answer(a.value = Chars("yes"))

EncodingDecl(s, a) ==
    IF a.tok = "bad" THEN NoDecl
    ELSE IF ~Is("encoding", a) THEN StandaloneDecl(s, <<>>, a)
    ELSE IF a.value = <<>> \/ a.value[1] \notin NameStart \ {"_", ":"} THEN NoDecl
    ELSE StandaloneDecl(s, a.value, PseudoAttribute(s, a.next))

DoParseXmlDecl(s) ==
    LET behind(version) == IF ~Is("version", version) THEN NoDecl
                           ELSE EncodingDecl(s, PseudoAttribute(s, version.next))
    IN behind(PseudoAttribute(s, 1))

\* processXmlDecl() of the text between "<?xml" and "?>".  Of the encodings the tables
\* have, the texts of the model name these two.
ProcessXmlDecl(p, s) ==
    LET process(decl) ==
            LET q == [p EXCEPT !.standalone = @ \/ decl.standalone]
            IN IF ~decl.ok THEN Fail(p, "SYNTAX")
               ELSE CASE decl.encoding \in {<<>>, Chars("utf-8"), Chars("UTF-8")} -> q
                      [] decl.encoding \in {Chars("utf-16"), Chars("UTF-16")} ->
                             Fail(q, "INCORRECT_ENCODING")
                      [] OTHER -> Fail(q, "UNKNOWN_ENCODING")
    IN process(DoParseXmlDecl(s))

IsPublicId(literal) ==
    \A k \in 2..(Len(literal) - 1) :
        literal[k] \in NameBytes \union LineEnds \union
            {" ", "'", "(", ")", "+", ",", "/", "=", "?", ";", "!", "*", "%", "#", "$", "@"}

\* GENERAL_ENTITY_NAME: the first declaration of an entity holds, and none is looked at
\* behind one that has not been read.
DeclareEntity(p, name) ==
    IF PredefinedEntityName(name) # "" \/ ~p.complete \/ name \in DOMAIN p.entities
    THEN [p EXCEPT !.declEntity = None]
    ELSE [p EXCEPT !.declEntity = <<name>>,
                   !.entities = [e \in DOMAIN @ \union {name} |->
                       IF e = name THEN [internal |-> FALSE, text |-> <<>>, notation |-> FALSE]
                       ELSE @[e]]]

\* A change of the entity that is being declared, if it is one.
OfEntity(p, Change(_)) ==
    IF p.declEntity = None THEN p ELSE [p EXCEPT !.entities[p.declEntity[1]] = Change(@)]

\* Literals are stored without their quotes.
Unquoted(bytes) == SubSeq(bytes, 2, Len(bytes) - 1)

\* The body of the loop of doProlog(), by what the role is about.  bytes are the token's,
\* word is the keyword it is.
InDoctype(p, role, bytes) ==
    CASE role = "XML_DECL"          -> ProcessXmlDecl(p, SubSeq(bytes, 6, Len(bytes) - 2))
      [] role = "DOCTYPE_SYSTEM_ID" -> [p EXCEPT !.hadExternalDoctype = TRUE]
      [] role = "DOCTYPE_CLOSE"     -> [p EXCEPT !.complete = @ /\ ~p.hadExternalDoctype]
      [] role = "PARAM_ENTITY_REF"  -> [p EXCEPT !.complete = FALSE]
      [] role \in {"DOCTYPE_PUBLIC_ID", "ENTITY_PUBLIC_ID", "NOTATION_PUBLIC_ID"} ->
           IF IsPublicId(bytes) THEN p ELSE Fail(p, "SYNTAX")

InAttlist(p, role, word, bytes) ==
    LET put(default) == IF default.error # "NONE" THEN Fail(p, default.error)
                        ELSE DefineAttribute(p, FALSE, <<default.value>>)
    IN CASE role = "ATTLIST_ELEMENT_NAME" -> [p EXCEPT !.declElement = bytes]
         [] role = "ATTRIBUTE_NAME" ->
              [p EXCEPT !.declAttribute = bytes, !.declIsCdata = FALSE, !.declIsId = FALSE]
         [] role = "ATTRIBUTE_TYPE" ->
              [p EXCEPT !.declIsCdata = @ \/ word = "CDATA", !.declIsId = @ \/ word = "ID"]
         [] role \in {"IMPLIED_ATTRIBUTE_VALUE", "REQUIRED_ATTRIBUTE_VALUE"} ->
              DefineAttribute(p, p.declIsId, None)
         [] role \in {"DEFAULT_ATTRIBUTE_VALUE", "FIXED_ATTRIBUTE_VALUE"} ->
              put(StoreAttributeValue(p, p.declIsCdata, Unquoted(bytes), {}))

InEntity(p, role, bytes) ==
    LET put(v) == Fail(OfEntity(p, LAMBDA e : [e EXCEPT !.internal = TRUE, !.text = v.value]), v.error)
    IN CASE role = "GENERAL_ENTITY_NAME"  -> DeclareEntity(p, bytes)
         [] role = "PARAM_ENTITY_NAME"    -> [p EXCEPT !.declEntity = None]
         [] role = "ENTITY_NOTATION_NAME" -> OfEntity(p, LAMBDA e : [e EXCEPT !.notation = TRUE])
         [] role = "ENTITY_VALUE"         -> put(StoreEntityValue(Unquoted(bytes), 1, <<>>))

\* The roles of no effect are those of the declarations nobody listens to.
InRole(p, role, tok, word, bytes) ==
    CASE role \in {"XML_DECL", "DOCTYPE_SYSTEM_ID", "DOCTYPE_PUBLIC_ID", "DOCTYPE_CLOSE",
                   "PARAM_ENTITY_REF", "ENTITY_PUBLIC_ID", "NOTATION_PUBLIC_ID"} ->
           InDoctype(p, role, bytes)
      [] role \in {"ATTLIST_ELEMENT_NAME", "ATTRIBUTE_NAME", "ATTRIBUTE_TYPE",
                   "IMPLIED_ATTRIBUTE_VALUE", "REQUIRED_ATTRIBUTE_VALUE",
                   "DEFAULT_ATTRIBUTE_VALUE", "FIXED_ATTRIBUTE_VALUE"} ->
           InAttlist(p, role, word, bytes)
      [] role \in {"GENERAL_ENTITY_NAME", "PARAM_ENTITY_NAME", "ENTITY_NOTATION_NAME",
                   "ENTITY_VALUE"} ->
           InEntity(p, role, bytes)
      [] role = "ERROR" ->
           Fail(p, CASE tok = "PARAM_ENTITY_REF" -> "PARAM_ENTITY_REF"
                     [] tok = "XML_DECL" -> "MISPLACED_XML_PI" [] OTHER -> "SYNTAX")
      [] OTHER -> p

Keywords == {r[2][2] : r \in {q \in Rows : Len(q[2]) = 2}} \ {""}

\* The keyword a token is: behind "<!" or "#" where it begins with these.
WordOf(tok, bytes) ==
    LET from == CASE tok = "DECL_OPEN" -> 3 [] tok = "POUND_NAME" -> 2 [] OTHER -> 1
        are  == {w \in Keywords : Chars(w) = SubSeq(bytes, from, Len(bytes))}
    IN IF are = {} THEN "" ELSE CHOOSE w \in are : TRUE

\* doProlog() from i.
RECURSIVE DoProlog(_, _, _)

\* The token t from i on, with its bytes and the keyword they are, and the state behind it.
InProlog(p, s, i, t, bytes, word, state) ==
    LET on(q) == IF q.error # "NONE" THEN q ELSE DoProlog(q, s, t.next)
        q     == [p EXCEPT !.state = state]
    IN IF state.role = "INSTANCE_START" THEN Content(q, s, i)
       ELSE on(InRole(q, state.role, t.tok, word, bytes))

KnownToken(p, s, i, t, bytes, word) ==
    InProlog(p, s, i, t, bytes, word,
             TokenRole(p.state, IF t.tok \in {"NAME", "DECL_OPEN", "POUND_NAME"}
                                THEN <<t.tok, word>> ELSE <<t.tok>>))

PrologToken(p, s, i, t) ==
    LET bytes == SubSeq(s, i, t.next - 1)
    IN IF t.open \/ t.tok \in {"NONE", "PARTIAL", "PARTIAL_CHAR"} THEN Keep(p, i)
       ELSE IF t.tok = "INVALID" THEN Fail(p, "INVALID_TOKEN")
       ELSE KnownToken(p, s, i, t, bytes, WordOf(t.tok, bytes))

DoProlog(p, s, i) == PrologToken(p, s, i, PrologTok(s, i))

\* initScan(): one byte does not tell the encoding.  (Without a byte order mark and
\* without a 0 among the first two, it is UTF-8.)
FirstProlog(p, s) ==
    LET q == [p EXCEPT !.processor = "prolog"]
    IN IF p.processor = "prologInit" /\ Len(s) = 1 THEN Keep(q, 1) ELSE DoProlog(q, s, 1)

-----------------------------------------------------------------------------
(* Pushing. *)

\* The processor, on all of s.
Process(p, s) ==
    LET stop(q) == IF q.error = "NONE" THEN q ELSE [q EXCEPT !.processor = "error"]
    IN stop(CASE p.processor \in {"prologInit", "prolog"} -> FirstProlog(p, s)
              [] p.processor = "content"      -> Content(p, s, 1)
              [] p.processor = "cdataSection" -> CdataSection(p, s, 1)
              [] p.processor = "epilog"       -> Epilog(p, s, 1)
              [] p.processor = "error"        -> p)

\* XML_Parse() of some bytes.
Parse(p, bytes) ==
    LET parsed(q) ==
            [q EXCEPT !.buffer = IF q.error = "NONE" THEN Parsed(@, bytes, q.next - 1)
                                 ELSE Refused(@, bytes)]
    IN IF bytes = <<>> THEN p ELSE parsed(Process(p, Given(p.buffer, bytes)))
=============================================================================
