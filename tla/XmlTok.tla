------------------------------- MODULE XmlTok -------------------------------
(***************************************************************************)
(* The tokens of XML: the scanners of xmltok_impl.c for UTF-8, as built     *)
(* without XML_NS, so that ":" is a letter.                                 *)
(*                                                                          *)
(* A text is a sequence of bytes, a byte a string: an ASCII character, or   *)
(* "lead" and "trail" for the two bytes of a letter that is not ASCII (0xC3 *)
(* 0xA9), or "control" for a byte that XML does not allow.  A scanner is given a text and a  *)
(* position and returns a token and the position behind it (or, of an       *)
(* INVALID one, the position of what is wrong).  PARTIAL and PARTIAL_CHAR   *)
(* say that the text ends too early; a token that is `open' may go on       *)
(* behind the end of the text (-XML_TOK_...).                               *)
(***************************************************************************)
EXTENDS Naturals, Sequences, SequencesExt

Token(tok, next) == [tok |-> tok, next |-> next, open |-> FALSE]
Open(tok)        == [tok |-> tok, next |-> 0, open |-> TRUE]
Partial          == Token("PARTIAL", 0)
PartialChar      == Token("PARTIAL_CHAR", 0)
Bad(i)           == Token("INVALID", i)

-----------------------------------------------------------------------------
(* Byte types. *)

HexLetters  == {"a", "b", "c", "d", "e", "f", "A", "B", "C", "D", "E", "F"}
Digits      == {"0", "1", "2", "3", "4", "5", "6", "7", "8", "9"}
NameStart   == HexLetters \union
               {"g", "h", "i", "j", "k", "l", "m", "n", "o", "p", "q", "r", "s", "t", "u", "v",
                "w", "x", "y", "z", "G", "H", "I", "J", "K", "L", "M", "N", "O", "P", "Q", "R",
                "S", "T", "U", "V", "W", "X", "Y", "Z", "_", ":"}
NameBytes   == NameStart \union Digits \union {"-", "."}
LineEnds    == {"\n", "\r"}
Blanks      == {" ", "\t"} \union LineEnds
NeverAlone  == {"trail", "control"}

\* A lead byte takes the byte behind it for the other half of its character, whatever
\* it is (utf8_isInvalid2 is isNever), and the tables are asked for the low six bits of
\* it alone: only 0xD7 and 0xF7 are no letters.
IsLetterPair(s, i) == s[i] = "lead" /\ i < Len(s) /\ s[i + 1] \notin {"W", "7", "w"}

\* CHECK_NMSTRT_CASES: one character that a name may start with, then K.
NameStartThen(s, i, K(_)) ==
    IF i > Len(s) THEN Partial
    ELSE IF s[i] \in NameStart THEN K(i + 1)
    ELSE IF s[i] # "lead" THEN Bad(i)
    ELSE IF i = Len(s) THEN PartialChar
    ELSE IF IsLetterPair(s, i) THEN K(i + 2)
    ELSE Bad(i)

RECURSIVE NameEnd(_, _)
NameEnd(s, i) ==
    IF i > Len(s) THEN i
    ELSE IF s[i] \in NameBytes THEN NameEnd(s, i + 1)
    ELSE IF IsLetterPair(s, i) THEN NameEnd(s, i + 2)
    ELSE i

\* CHECK_NAME_CASES: the characters of a name, then K of what ends it.
NameThen(s, i, K(_)) ==
    LET ending(j) == IF j > Len(s) THEN Partial
                     ELSE IF s[j] # "lead" THEN K(j)
                     ELSE IF j = Len(s) THEN PartialChar ELSE Bad(j)
    IN ending(NameEnd(s, i))

\* INVALID_CASES: characters up to one of stops.
RECURSIVE TextEnd(_, _, _)
TextEnd(s, i, stops) ==
    IF i > Len(s) THEN i
    ELSE IF s[i] \in stops \union NeverAlone THEN i
    ELSE IF s[i] # "lead" THEN TextEnd(s, i + 1, stops)
    ELSE IF i = Len(s) THEN i ELSE TextEnd(s, i + 2, stops)

TextThen(s, i, stops, K(_)) ==
    LET ending(j) == IF j > Len(s) THEN Partial
                     ELSE IF s[j] \in stops THEN K(j)
                     ELSE IF s[j] = "lead" THEN PartialChar ELSE Bad(j)
    IN ending(TextEnd(s, i, stops))

RECURSIVE Skip(_, _, _)
Skip(s, i, bytes) == IF i <= Len(s) /\ s[i] \in bytes THEN Skip(s, i + 1, bytes) ELSE i

\* The byte at i, which has to be there, then K.
ByteThen(s, i, K(_)) == IF i > Len(s) THEN Partial ELSE K(s[i])

Expect(s, i, byte, token) == ByteThen(s, i, LAMBDA b : IF b = byte THEN token ELSE Bad(i))

-----------------------------------------------------------------------------
(* Markup. *)

\* Behind "<!-".
RECURSIVE CommentText(_, _)
CommentText(s, i) ==
    TextThen(s, i, {"-"}, LAMBDA j :
        ByteThen(s, j + 1, LAMBDA b :
            IF b = "-" THEN Expect(s, j + 2, ">", Token("COMMENT", j + 3))
            ELSE CommentText(s, j + 1)))

ScanComment(s, i) == ByteThen(s, i, LAMBDA b : IF b = "-" THEN CommentText(s, i + 1) ELSE Bad(i))

\* Behind "<!" of a prolog.
ScanDecl(s, i) ==
    LET j == Skip(s, i, NameStart)
    IN ByteThen(s, i, LAMBDA b :
         CASE b = "-" -> ScanComment(s, i + 1)
           [] b = "[" -> Token("COND_SECT_OPEN", i + 1)
           [] b \in NameStart ->
                ByteThen(s, j, LAMBDA c :
                    IF c \in Blanks THEN Token("DECL_OPEN", j)
                    ELSE IF c # "%" THEN Bad(j)
                    ELSE ByteThen(s, j + 1, LAMBDA d :
                             IF d \in Blanks \union {"%"} THEN Bad(j) ELSE Token("DECL_OPEN", j)))
           [] OTHER -> Bad(i))

\* checkPiTarget(): "xml" is the declaration, and is spelled no other way.
PiTarget(target) ==
    CASE target = <<"x", "m", "l">> -> "XML_DECL"
      [] /\ Len(target) = 3
         /\ target[1] \in {"x", "X"} /\ target[2] \in {"m", "M"} /\ target[3] \in {"l", "L"}
         /\ target # <<"x", "m", "l">> -> "INVALID"
      [] OTHER -> "PI"

\* Behind "<?".
RECURSIVE PiText(_, _, _)
PiText(s, i, tok) ==
    TextThen(s, i, {"?"}, LAMBDA j :
        ByteThen(s, j + 1, LAMBDA b :
            IF b = ">" THEN Token(tok, j + 2) ELSE PiText(s, j + 1, tok)))

ScanPi(s, i) ==
    NameStartThen(s, i, LAMBDA i2 : NameThen(s, i2, LAMBDA j :
        LET tok == PiTarget(SubSeq(s, i, j - 1))
        IN CASE s[j] \notin Blanks \union {"?"} \/ tok = "INVALID" -> Bad(j)
             [] s[j] \in Blanks /\ tok # "INVALID" -> PiText(s, j + 1, tok)
             [] s[j] = "?" /\ tok # "INVALID" -> Expect(s, j + 1, ">", Token(tok, j + 2))))

\* Behind "<![" of the content.
ScanCdataSection(s, i) ==
    LET wanted == <<"C", "D", "A", "T", "A", "[">>
        wrong  == {k \in 1..6 : s[i + k - 1] # wanted[k]}
    IN IF Len(s) - i + 1 < 6 THEN Partial
       ELSE IF wrong = {} THEN Token("CDATA_SECT_OPEN", i + 6)
       ELSE Bad(i - 1 + CHOOSE k \in wrong : \A l \in wrong : k <= l)

\* Behind "</".
ScanEndTag(s, i) ==
    NameStartThen(s, i, LAMBDA i2 : NameThen(s, i2, LAMBDA j :
        IF s[j] \in Blanks \union {">"} THEN Expect(s, Skip(s, j, Blanks), ">",
                                                    Token("END_TAG", Skip(s, j, Blanks) + 1))
        ELSE Bad(j)))

\* Behind "&#" and "&#x".
CharRefDigits(s, i, digits) ==
    ByteThen(s, i, LAMBDA b :
        IF b \notin digits THEN Bad(i)
        ELSE Expect(s, Skip(s, i, digits), ";", Token("CHAR_REF", Skip(s, i, digits) + 1)))

ScanCharRef(s, i) ==
    ByteThen(s, i, LAMBDA b :
        IF b = "x" THEN CharRefDigits(s, i + 1, Digits \union HexLetters)
        ELSE CharRefDigits(s, i, Digits))

\* Behind "&".
ScanRef(s, i) ==
    IF i <= Len(s) /\ s[i] = "#" THEN ScanCharRef(s, i + 1)
    ELSE NameStartThen(s, i, LAMBDA i2 : NameThen(s, i2, LAMBDA j :
             IF s[j] = ";" THEN Token("ENTITY_REF", j + 1) ELSE Bad(j)))

\* The value of an attribute up to the quote: Token("", position of it).
RECURSIVE AttValue(_, _, _)
AttValue(s, i, quote) ==
    LET behind(ref) == IF ref.tok \in {"ENTITY_REF", "CHAR_REF"}
                       THEN AttValue(s, ref.next, quote) ELSE ref
    IN TextThen(s, i, {quote, "&", "<"}, LAMBDA j :
           CASE s[j] = quote -> Token("", j)
             [] s[j] = "<"   -> Bad(j)
             [] s[j] = "&"   -> behind(ScanRef(s, j + 1)))

RECURSIVE ScanAtts(_, _)

\* Behind the value of an attribute.
ScanAfterValue(s, value) ==
    LET behind == value.next + 1
        next   == Skip(s, behind, Blanks)
    IN IF value.tok # "" THEN value
       ELSE ByteThen(s, next, LAMBDA b :
              CASE b = ">" -> Token("START_TAG_WITH_ATTS", next + 1)
                [] b = "/" -> Expect(s, next + 1, ">", Token("EMPTY_ELEMENT_WITH_ATTS", next + 2))
                [] b \notin {">", "/"} /\ next > behind ->
                       NameStartThen(s, next, LAMBDA n : ScanAtts(s, n))
                [] b \notin {">", "/"} /\ next = behind -> Bad(next))

\* Behind the first character of an attribute's name.
ScanAtts(s, i) ==
    NameThen(s, i, LAMBDA j :
        LET equals == Skip(s, j, Blanks)
            quote  == Skip(s, equals + 1, Blanks)
        IN ByteThen(s, equals, LAMBDA e :
             IF e # "=" THEN Bad(equals)
             ELSE ByteThen(s, quote, LAMBDA q :
                    IF q \notin {"\"", "'"} THEN Bad(quote)
                    ELSE ScanAfterValue(s, AttValue(s, quote + 1, q)))))

\* Behind "<".
ScanLt(s, i) ==
    ByteThen(s, i, LAMBDA first :
        CASE first = "!" -> ByteThen(s, i + 1, LAMBDA b :
                              CASE b = "-" -> ScanComment(s, i + 2)
                                [] b = "[" -> ScanCdataSection(s, i + 2)
                                [] OTHER   -> Bad(i + 1))
          [] first = "?" -> ScanPi(s, i + 1)
          [] first = "/" -> ScanEndTag(s, i + 1)
          [] OTHER ->
               NameStartThen(s, i, LAMBDA i2 : NameThen(s, i2, LAMBDA j :
                   LET next == Skip(s, j, Blanks)
                   IN ByteThen(s, next, LAMBDA b :
                        CASE b = ">" -> Token("START_TAG_NO_ATTS", next + 1)
                          [] b = "/" -> Expect(s, next + 1, ">", Token("EMPTY_ELEMENT_NO_ATTS", next + 2))
                          [] b \notin {">", "/"} /\ next > j ->
                                 NameStartThen(s, next, LAMBDA n : ScanAtts(s, n))
                          [] b \notin {">", "/"} /\ next = j -> Bad(j)))))

-----------------------------------------------------------------------------
(* Content. *)

\* "\r\n" and "\r" are one end of a line; at the end of the text one cannot tell.
ScanLineEnd(s, i, atEnd) ==
    IF s[i] = "\n" THEN Token("DATA_NEWLINE", i + 1)
    ELSE IF i = Len(s) THEN atEnd
    ELSE Token("DATA_NEWLINE", IF s[i + 1] = "\n" THEN i + 2 ELSE i + 1)

\* Whether "]]>" is at i, as far as there is a text.
ClosesAt(s, i) == \A k \in 1..3 : i + k - 1 <= Len(s) => s[i + k - 1] = <<"]", "]", ">">>[k]

\* Data goes up to what has to be looked at: a "]" only if "]]>" may begin with it.
RECURSIVE DataEnd(_, _)
DataEnd(s, i) ==
    LET j == TextEnd(s, i, {"<", "&", "]"} \union LineEnds)
    IN IF j <= Len(s) /\ s[j] = "]" /\ ~ClosesAt(s, j) THEN DataEnd(s, j + 1) ELSE j

\* Mutant of ScanData: the brackets at the end of the text are data.
ScanData_NoBrackets(s, i) ==
    LET j == TextEnd(s, i, {"<", "&"} \union LineEnds) IN Token("DATA_CHARS", j)

\* Data from i, where the first character has been found to be one.
ScanData(s, i) ==
    LET ending(j) == IF j + 2 <= Len(s) /\ s[j] = "]" THEN Bad(j + 2) ELSE Token("DATA_CHARS", j)
    IN ending(DataEnd(s, i))

ContentTok(s, i) ==
    IF i > Len(s) THEN Token("NONE", 0)
    ELSE CASE s[i] = "<" -> ScanLt(s, i + 1)
           [] s[i] = "&" -> ScanRef(s, i + 1)
           [] s[i] \in LineEnds -> ScanLineEnd(s, i, Token("TRAILING_CR", 0))
           [] s[i] = "]" -> IF ~ClosesAt(s, i) THEN ScanData(s, i + 1)
                            ELSE IF i + 2 > Len(s) THEN Token("TRAILING_RSQB", 0)
                            ELSE Bad(i + 2)
           [] s[i] = "lead" -> IF i = Len(s) THEN PartialChar ELSE ScanData(s, i + 2)
           [] s[i] \in NeverAlone -> Bad(i)
           [] OTHER -> ScanData(s, i + 1)

CdataSectionTok(s, i) ==
    LET data(j) == Token("DATA_CHARS", TextEnd(s, j, {"]"} \union LineEnds))
    IN IF i > Len(s) THEN Token("NONE", 0)
       ELSE CASE s[i] = "]" -> IF ~ClosesAt(s, i) THEN data(i + 1)
                               ELSE IF i + 2 > Len(s) THEN Partial
                               ELSE Token("CDATA_SECT_CLOSE", i + 3)
              [] s[i] \in LineEnds -> ScanLineEnd(s, i, Partial)
              [] s[i] = "lead" -> IF i = Len(s) THEN PartialChar ELSE data(i + 2)
              [] s[i] \in NeverAlone -> Bad(i)
              [] OTHER -> data(i + 1)

\* The values of attributes and entities: special is what is not data in them.
ValueTok(s, i, special, Ref(_)) ==
    IF i > Len(s) THEN Token("NONE", 0)
    ELSE IF s[i] \notin special
    THEN LET j == TextEnd(s, i, special)
         IN IF j <= Len(s) /\ s[j] = "<" /\ "<" \in special THEN Bad(j) ELSE Token("DATA_CHARS", j)
    ELSE CASE s[i] \in LineEnds -> ScanLineEnd(s, i, Token("TRAILING_CR", 0))
           [] s[i] \in {" ", "\t"} -> Token("ATTRIBUTE_VALUE_S", i + 1)
           [] s[i] = "<" -> Bad(i)
           [] OTHER -> Ref(i)

AttributeValueTok(s, i) ==
    ValueTok(s, i, {"&", "<"} \union Blanks, LAMBDA j : ScanRef(s, j + 1))

-----------------------------------------------------------------------------
(* Prologs. *)

\* Behind "%".
ScanPercent(s, i) ==
    IF i <= Len(s) /\ s[i] \in Blanks \union {"%"} THEN Token("PERCENT", i)
    ELSE NameStartThen(s, i, LAMBDA i2 : NameThen(s, i2, LAMBDA j :
             IF s[j] = ";" THEN Token("PARAM_ENTITY_REF", j + 1) ELSE Bad(j)))

EntityValueTok(s, i) ==
    ValueTok(s, i, {"&", "%"} \union LineEnds, LAMBDA j :
        IF s[j] = "&" THEN ScanRef(s, j + 1)
        ELSE LET pe == ScanPercent(s, j + 1)
             IN IF pe.tok = "PERCENT" THEN Bad(pe.next) ELSE pe)

\* Behind "#": the word goes on to what may stand behind it, or to the end of the text.
ScanPoundName(s, i) ==
    NameStartThen(s, i, LAMBDA i2 :
        IF NameEnd(s, i2) > Len(s) THEN Open("POUND_NAME")
        ELSE NameThen(s, i2, LAMBDA j :
                 IF s[j] \in Blanks \union {")", ">", "%", "|"} THEN Token("POUND_NAME", j)
                 ELSE Bad(j)))

\* Behind the quote.
ScanLit(s, i, quote) ==
    TextThen(s, i, {quote}, LAMBDA j :
        IF j = Len(s) THEN Open("LITERAL")
        ELSE IF s[j + 1] \in Blanks \union {">", "%", "["} THEN Token("LITERAL", j + 1)
        ELSE Bad(j + 1))

\* White space up to a "\r" at the end of the text, which is not parted from its "\n".
ScanPrologS(s, i) ==
    LET j == Skip(s, i, Blanks)
    IN IF s[i] = "\r" /\ i = Len(s) THEN Open("PROLOG_S")
       ELSE Token("PROLOG_S", IF j > Len(s) /\ s[Len(s)] = "\r" THEN Len(s) ELSE j)

ScanCloseParen(s, i) ==
    IF i > Len(s) THEN Open("CLOSE_PAREN")
    ELSE CASE s[i] = "*" -> Token("CLOSE_PAREN_ASTERISK", i + 1)
           [] s[i] = "?" -> Token("CLOSE_PAREN_QUESTION", i + 1)
           [] s[i] = "+" -> Token("CLOSE_PAREN_PLUS", i + 1)
           [] s[i] \in Blanks \union {">", ",", "|", ")"} -> Token("CLOSE_PAREN", i)
           [] OTHER -> Bad(i)

ScanCloseBracket(s, i) ==
    IF i > Len(s) THEN Open("CLOSE_BRACKET")
    ELSE IF s[i] # "]" THEN Token("CLOSE_BRACKET", i)
    ELSE ByteThen(s, i + 1, LAMBDA b :
             IF b = ">" THEN Token("COND_SECT_CLOSE", i + 2) ELSE Token("CLOSE_BRACKET", i))

\* A name, or a name token that no name may be: those are not repeated.
ScanName(s, i, tok) ==
    LET j == NameEnd(s, i)
    IN IF j > Len(s) THEN Open(tok)
       ELSE NameThen(s, i, LAMBDA e :
                CASE s[e] \in Blanks \union {">", ")", ",", "|", "[", "%"} -> Token(tok, e)
                  [] s[e] \in {"+", "*", "?"} /\ tok = "NAME" ->
                         Token(CASE s[e] = "+" -> "NAME_PLUS" [] s[e] = "*" -> "NAME_ASTERISK"
                                 [] s[e] = "?" -> "NAME_QUESTION", e + 1)
                  [] OTHER -> Bad(e))

PrologTok(s, i) ==
    IF i > Len(s) THEN Token("NONE", 0)
    ELSE CASE s[i] \in {"\"", "'"} -> ScanLit(s, i + 1, s[i])
           [] s[i] = "<" -> ByteThen(s, i + 1, LAMBDA b :
                              CASE b = "!" -> ScanDecl(s, i + 2)
                                [] b = "?" -> ScanPi(s, i + 2)
                                [] b \in NameStart \union {"lead"} -> Token("INSTANCE_START", i)
                                [] OTHER   -> Bad(i + 1))
           [] s[i] \in Blanks -> ScanPrologS(s, i)
           [] s[i] = "%" -> ScanPercent(s, i + 1)
           [] s[i] = "," -> Token("COMMA", i + 1)
           [] s[i] = "[" -> Token("OPEN_BRACKET", i + 1)
           [] s[i] = "]" -> ScanCloseBracket(s, i + 1)
           [] s[i] = "(" -> Token("OPEN_PAREN", i + 1)
           [] s[i] = ")" -> ScanCloseParen(s, i + 1)
           [] s[i] = "|" -> Token("OR", i + 1)
           [] s[i] = ">" -> Token("DECL_CLOSE", i + 1)
           [] s[i] = "#" -> ScanPoundName(s, i + 1)
           [] s[i] \in NameStart -> ScanName(s, i + 1, "NAME")
           [] s[i] \in NameBytes \ NameStart -> ScanName(s, i + 1, "NMTOKEN")
           [] s[i] = "lead" -> IF i = Len(s) THEN PartialChar
                               ELSE IF IsLetterPair(s, i) THEN ScanName(s, i + 2, "NAME")
                               ELSE Bad(i)
           [] OTHER -> Bad(i)
=============================================================================
