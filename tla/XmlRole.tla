------------------------------ MODULE XmlRole ------------------------------
(***************************************************************************)
(* What the tokens of a prolog mean: the handlers of xmlrole.c, and what    *)
(* doProlog() checks of them itself, for the build of this library, which   *)
(* defines neither XML_DTD nor XML_NS.                                      *)
(*                                                                          *)
(* A token is <<kind>>, or <<kind, word>> where a handler looks at the word *)
(* it has: "" is a word that is no keyword.  A handler is a set of rows     *)
(* <<handler, token, next handler, role>>; a row of <<kind>> is for all the *)
(* words.                                                                   *)
(***************************************************************************)
EXTENDS Naturals, Sequences

Row(from, token, to, role) == <<from, token, to, role>>
Name(word) == <<"NAME", word>>
Decl(word) == <<"DECL_OPEN", word>>
Pound(word) == <<"POUND_NAME", word>>
AnyName    == <<"NAME">>
Literal    == <<"LITERAL">>
Close      == <<"DECL_CLOSE">>

PrologRows ==
    {Row("prolog0", <<"PROLOG_S">>, "prolog1", "NONE"),
     Row("prolog0", <<"XML_DECL">>, "prolog1", "XML_DECL"),
     Row("prolog0", <<"BOM">>, "prolog0", "NONE"),
     Row("prolog1", <<"BOM">>, "prolog1", "NONE")}
    \union (UNION {{Row("prolog0", <<k>>, "prolog1", "NONE"),
                    Row("prolog1", <<k>>, "prolog1", "NONE"),
                    Row("prolog2", <<k>>, "prolog2", "NONE")} : k \in {"PI", "COMMENT"}})
    \union {Row(h, Decl("DOCTYPE"), "doctype0", "NONE") : h \in {"prolog0", "prolog1"}}
    \union {Row(h, <<"INSTANCE_START">>, "error", "INSTANCE_START") :
               h \in {"prolog0", "prolog1", "prolog2"}}

DoctypeRows ==
    {Row("doctype0", AnyName, "doctype1", "DOCTYPE_NAME"),
     Row("doctype1", Name("SYSTEM"), "doctype3", "NONE"),
     Row("doctype1", Name("PUBLIC"), "doctype2", "NONE"),
     Row("doctype2", Literal, "doctype3", "DOCTYPE_PUBLIC_ID"),
     Row("doctype3", Literal, "doctype4", "DOCTYPE_SYSTEM_ID")}
    \union {Row(h, <<"OPEN_BRACKET">>, "internalSubset", "DOCTYPE_INTERNAL_SUBSET") :
               h \in {"doctype1", "doctype4"}}
    \union {Row(h, Close, "prolog2", "DOCTYPE_CLOSE") : h \in {"doctype1", "doctype4", "doctype5"}}

SubsetRows ==
    {Row("internalSubset", Decl("ENTITY"), "entity0", "NONE"),
     Row("internalSubset", Decl("ATTLIST"), "attlist0", "NONE"),
     Row("internalSubset", Decl("ELEMENT"), "element0", "NONE"),
     Row("internalSubset", Decl("NOTATION"), "notation0", "NONE"),
     Row("internalSubset", <<"PI">>, "internalSubset", "NONE"),
     Row("internalSubset", <<"COMMENT">>, "internalSubset", "NONE"),
     Row("internalSubset", <<"PARAM_ENTITY_REF">>, "internalSubset", "PARAM_ENTITY_REF"),
     Row("internalSubset", <<"CLOSE_BRACKET">>, "doctype5", "NONE")}

\* setTopLevel(), without external subsets.
TopLevel == "internalSubset"

GeneralEntityRows ==
    {Row("entity0", <<"PERCENT">>, "entity1", "NONE"),
     Row("entity0", AnyName, "entity2", "GENERAL_ENTITY_NAME"),
     Row("entity2", Name("SYSTEM"), "entity4", "NONE"),
     Row("entity2", Name("PUBLIC"), "entity3", "NONE"),
     Row("entity2", Literal, "declClose", "ENTITY_VALUE"),
     Row("entity3", Literal, "entity4", "ENTITY_PUBLIC_ID"),
     Row("entity4", Literal, "entity5", "ENTITY_SYSTEM_ID"),
     Row("entity5", Close, TopLevel, "ENTITY_COMPLETE"),
     Row("entity5", Name("NDATA"), "entity6", "NONE"),
     Row("entity6", AnyName, "declClose", "ENTITY_NOTATION_NAME")}

ParameterEntityRows ==
    {Row("entity1", AnyName, "entity7", "PARAM_ENTITY_NAME"),
     Row("entity7", Name("SYSTEM"), "entity9", "NONE"),
     Row("entity7", Name("PUBLIC"), "entity8", "NONE"),
     Row("entity7", Literal, "declClose", "ENTITY_VALUE"),
     Row("entity8", Literal, "entity9", "ENTITY_PUBLIC_ID"),
     Row("entity9", Literal, "declClose", "ENTITY_SYSTEM_ID")}

NotationRows ==
    {Row("notation0", AnyName, "notation1", "NOTATION_NAME"),
     Row("notation1", Name("SYSTEM"), "notation3", "NONE"),
     Row("notation1", Name("PUBLIC"), "notation2", "NONE"),
     Row("notation2", Literal, "notation4", "NOTATION_PUBLIC_ID"),
     Row("notation3", Literal, "declClose", "NOTATION_SYSTEM_ID"),
     Row("notation4", Literal, "declClose", "NOTATION_SYSTEM_ID"),
     Row("notation4", Close, TopLevel, "NOTATION_NO_SYSTEM_ID")}

AttributeTypes == {"CDATA", "ID", "IDREF", "IDREFS", "ENTITY", "ENTITIES", "NMTOKEN", "NMTOKENS"}

AttlistRows ==
    {Row("attlist0", AnyName, "attlist1", "ATTLIST_ELEMENT_NAME"),
     Row("attlist1", Close, TopLevel, "NONE"),
     Row("attlist1", AnyName, "attlist2", "ATTRIBUTE_NAME"),
     Row("attlist2", Name("NOTATION"), "attlist5", "NONE"),
     Row("attlist2", <<"OPEN_PAREN">>, "attlist3", "NONE"),
     Row("attlist3", AnyName, "attlist4", "ATTRIBUTE_ENUM_VALUE"),
     Row("attlist3", <<"NMTOKEN">>, "attlist4", "ATTRIBUTE_ENUM_VALUE"),
     Row("attlist4", <<"CLOSE_PAREN">>, "attlist8", "NONE"),
     Row("attlist4", <<"OR">>, "attlist3", "NONE")}
    \union {Row("attlist2", Name(t), "attlist8", "ATTRIBUTE_TYPE") : t \in AttributeTypes}

DefaultRows ==
    {Row("attlist5", <<"OPEN_PAREN">>, "attlist6", "NONE"),
     Row("attlist6", AnyName, "attlist7", "ATTRIBUTE_NOTATION_VALUE"),
     Row("attlist7", <<"CLOSE_PAREN">>, "attlist8", "NONE"),
     Row("attlist7", <<"OR">>, "attlist6", "NONE"),
     Row("attlist8", Pound("IMPLIED"), "attlist1", "IMPLIED_ATTRIBUTE_VALUE"),
     Row("attlist8", Pound("REQUIRED"), "attlist1", "REQUIRED_ATTRIBUTE_VALUE"),
     Row("attlist8", Pound("FIXED"), "attlist9", "NONE"),
     Row("attlist8", Literal, "attlist1", "DEFAULT_ATTRIBUTE_VALUE"),
     Row("attlist9", Literal, "attlist1", "FIXED_ATTRIBUTE_VALUE")}

\* How often: what may stand behind a name or a group.
Quantifiers == {"", "_OPT", "_REP", "_PLUS"}
NameWith(q) == IF q = "" THEN AnyName
               ELSE <<CASE q = "_OPT" -> "NAME_QUESTION" [] q = "_REP" -> "NAME_ASTERISK"
                        [] q = "_PLUS" -> "NAME_PLUS">>
CloseWith(q) == <<CASE q = "" -> "CLOSE_PAREN" [] q = "_OPT" -> "CLOSE_PAREN_QUESTION"
                    [] q = "_REP" -> "CLOSE_PAREN_ASTERISK" [] q = "_PLUS" -> "CLOSE_PAREN_PLUS">>
ElementRole(q) == CASE q = "" -> "CONTENT_ELEMENT" [] q = "_OPT" -> "CONTENT_ELEMENT_OPT"
                    [] q = "_REP" -> "CONTENT_ELEMENT_REP" [] q = "_PLUS" -> "CONTENT_ELEMENT_PLUS"
CloseRole(q) == CASE q = "" -> "GROUP_CLOSE" [] q = "_OPT" -> "GROUP_CLOSE_OPT"
                  [] q = "_REP" -> "GROUP_CLOSE_REP" [] q = "_PLUS" -> "GROUP_CLOSE_PLUS"

MixedRows ==
    {Row("element0", AnyName, "element1", "ELEMENT_NAME"),
     Row("element1", Name("EMPTY"), "declClose", "CONTENT_EMPTY"),
     Row("element1", Name("ANY"), "declClose", "CONTENT_ANY"),
     Row("element1", <<"OPEN_PAREN">>, "element2", "GROUP_OPEN"),
     Row("element2", Pound("PCDATA"), "element3", "CONTENT_PCDATA"),
     Row("element3", CloseWith(""), "declClose", "GROUP_CLOSE"),
     Row("element4", AnyName, "element5", "CONTENT_ELEMENT")}
    \union {Row(h, CloseWith("_REP"), "declClose", "GROUP_CLOSE_REP") : h \in {"element3", "element5"}}
    \union {Row(h, <<"OR">>, "element4", "NONE") : h \in {"element3", "element5"}}

\* element7 goes on to declClose instead when it closes the outermost group.
ChildrenRows ==
    {Row(h, <<"OPEN_PAREN">>, "element6", "GROUP_OPEN") : h \in {"element2", "element6"}}
    \union {Row(h, NameWith(q), "element7", ElementRole(q)) :
               h \in {"element2", "element6"}, q \in Quantifiers}
    \union {Row("element7", CloseWith(q), "element7", CloseRole(q)) : q \in Quantifiers}
    \union {Row("element7", <<"COMMA">>, "element6", "GROUP_SEQUENCE"),
            Row("element7", <<"OR">>, "element6", "GROUP_CHOICE")}

CloseRows == {Row("declClose", Close, TopLevel, "NONE")}

Rows == PrologRows \union DoctypeRows \union SubsetRows \union GeneralEntityRows
        \union ParameterEntityRows \union NotationRows \union AttlistRows \union DefaultRows
        \union MixedRows \union ChildrenRows \union CloseRows

-----------------------------------------------------------------------------

\* PROLOG_STATE and groupConnector: what separates the members of the group that is
\* open at a level.
PrologStateInit == [handler |-> "prolog0", level |-> 0, connector |-> <<>>, role |-> "NONE"]

\* common(), and the ends doProlog() comes to.
Failed(state) == [state EXCEPT !.handler = "error", !.role = "ERROR"]

\* Mutant of LevelAfter: the second group begins where the first is.
LevelAfter_Stays(state, token, role) ==
    IF role = "GROUP_OPEN" THEN 1
    ELSE IF state.handler = "element7" /\ token \in {CloseWith(q) : q \in Quantifiers}
    THEN state.level - 1 ELSE state.level

\* state->level: of type unsigned, so it must not be taken below 0.
LevelAfter(state, token, role) ==
    CASE role = "GROUP_OPEN" ->
            (CASE state.handler = "element1" -> 1
               [] state.handler = "element2" -> 2
               [] state.handler = "element6" -> state.level + 1)
      [] state.handler = "element7" /\ token \in {CloseWith(q) : q \in Quantifiers} ->
            state.level - 1
      [] OTHER -> state.level

\* Mutant of MixedUp: the outermost group says what all of them have.
MixedUp_Outermost(connector, level, sign) == connector[1] \notin {"", sign}

\* GROUP_SEQUENCE and GROUP_CHOICE: a group has one kind of separator.
MixedUp(connector, level, sign) == connector[level] \notin {"", sign}

\* Mutant of ConnectorAfter: a group begins with what the last one at its level has left.
ConnectorAfter_Keeps(connector, level, role) ==
    LET put(sign) == [l \in 1..(IF level > Len(connector) THEN level ELSE Len(connector)) |->
                         IF l = level THEN sign ELSE connector[l]]
    IN CASE role = "GROUP_OPEN"     -> IF level > Len(connector) THEN put("") ELSE connector
         [] role = "GROUP_SEQUENCE" -> put(",")
         [] role = "GROUP_CHOICE"   -> put("|")
         [] OTHER                   -> connector

ConnectorAfter(connector, level, role) ==
    LET put(sign) == [l \in 1..(IF level > Len(connector) THEN level ELSE Len(connector)) |->
                         IF l = level THEN sign ELSE connector[l]]
    IN CASE role = "GROUP_OPEN"     -> put("")
         [] role = "GROUP_SEQUENCE" -> put(",")
         [] role = "GROUP_CHOICE"   -> put("|")
         [] OTHER                   -> connector

\* What the row says is done.
Follow(state, token, row) ==
    LET level == LevelAfter(state, token, row[4])
        sign  == CASE row[4] = "GROUP_SEQUENCE" -> "," [] row[4] = "GROUP_CHOICE" -> "|"
                   [] OTHER -> ""
    IN IF sign # "" /\ MixedUp(state.connector, level, sign) THEN Failed(state)
       ELSE [handler   |-> IF row[3] = "element7" /\ level = 0 THEN "declClose" ELSE row[3],
             level     |-> level,
             connector |-> ConnectorAfter(state.connector, level, row[4]),
             role      |-> row[4]]

\* XmlTokenRole() and what doProlog() does with the role.
TokenRole(state, token) ==
    LET by(rows) ==
            IF state.handler = "error" THEN [state EXCEPT !.role = "NONE"]
            ELSE IF rows = {}
            THEN IF token = <<"PROLOG_S">> THEN [state EXCEPT !.role = "NONE"] ELSE Failed(state)
            ELSE Follow(state, token, CHOOSE row \in rows : TRUE)
    IN by({r \in Rows : /\ r[1] = state.handler
                        /\ r[2] = token \/ r[2] = <<token[1]>>})
=============================================================================
