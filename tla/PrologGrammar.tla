--------------------------- MODULE PrologGrammar ---------------------------
(***************************************************************************)
(* The grammar of a prolog, productions [22] to [83] of XML 1.0 without     *)
(* external subsets, over the tokens of XmlRole.  An expression is what may *)
(* still come; After() is what may come after a token that has come (the    *)
(* derivative of Brzozowski), Nothing when that token may not.              *)
(***************************************************************************)
EXTENDS FiniteSets, Sequences, XmlRole

Nothing == <<"nothing">>
Empty   == <<"empty">>

\* A token, with the role it has there.
Tok(token, role) == <<"token", token, role>>

Then(a, b) ==
    IF a = Nothing \/ b = Nothing THEN Nothing
    ELSE IF a = Empty THEN b
    ELSE <<"then", a, b>>

Options(e) == IF e = Nothing THEN {} ELSE IF e[1] = "or" THEN e[2] ELSE {e}

Either(S) ==
    LET all == UNION {Options(e) : e \in S}
    IN IF all = {} THEN Nothing
       ELSE IF Cardinality(all) = 1 THEN CHOOSE e \in all : TRUE
       ELSE <<"or", all>>

Many(e)     == <<"many", e>>
Maybe(e)    == Either({e, Empty})
Rule(name)  == <<"rule", name>>

RECURSIVE InOrder(_)
InOrder(es) == IF es = <<>> THEN Empty ELSE Then(Head(es), InOrder(Tail(es)))

-----------------------------------------------------------------------------

Misc == Either({Tok(<<"PI">>, "NONE"), Tok(<<"COMMENT">>, "NONE"), Tok(<<"PROLOG_S">>, "NONE")})

End(role) == Tok(Close, role)

\* [75], [76], [83]: the identifiers of something external.
External(publicRole, systemRole) ==
    Either({Then(Tok(Name("SYSTEM"), "NONE"), Tok(Literal, systemRole)),
            InOrder(<<Tok(Name("PUBLIC"), "NONE"), Tok(Literal, publicRole),
                      Tok(Literal, systemRole)>>)})

\* [47] to [50]: a group is of one kind, and may be repeated as a whole.
Members(sign, role) ==
    Then(Rule("cp"), Many(Then(Tok(<<sign>>, role), Rule("cp"))))

GroupEnd == Either({Tok(CloseWith(q), CloseRole(q)) : q \in Quantifiers})

Group == Then(Either({Members("COMMA", "GROUP_SEQUENCE"), Members("OR", "GROUP_CHOICE")}),
              GroupEnd)

ContentParticle ==
    Either({Tok(NameWith(q), ElementRole(q)) : q \in Quantifiers}
           \union {Then(Tok(<<"OPEN_PAREN">>, "GROUP_OPEN"), Rule("group"))})

\* [51]
Mixed ==
    Then(Tok(Pound("PCDATA"), "CONTENT_PCDATA"),
         Either({Tok(CloseWith(""), "GROUP_CLOSE"),
                 Then(Many(Then(Tok(<<"OR">>, "NONE"), Tok(AnyName, "CONTENT_ELEMENT"))),
                      Tok(CloseWith("_REP"), "GROUP_CLOSE_REP"))}))

\* [45], [46]
ElementDecl ==
    InOrder(<<Tok(Decl("ELEMENT"), "NONE"), Tok(AnyName, "ELEMENT_NAME"),
              Either({Tok(Name("EMPTY"), "CONTENT_EMPTY"), Tok(Name("ANY"), "CONTENT_ANY"),
                      Then(Tok(<<"OPEN_PAREN">>, "GROUP_OPEN"), Either({Mixed, Rule("group")}))}),
              End("NONE")>>)

\* [57] to [59]
ListOf(items, role) ==
    LET item == Either({Tok(i, role) : i \in items})
    IN InOrder(<<Tok(<<"OPEN_PAREN">>, "NONE"), item,
                 Many(Then(Tok(<<"OR">>, "NONE"), item)), Tok(<<"CLOSE_PAREN">>, "NONE")>>)

AttributeType ==
    Either({Tok(Name(t), "ATTRIBUTE_TYPE") : t \in AttributeTypes}
           \union {ListOf({AnyName, <<"NMTOKEN">>}, "ATTRIBUTE_ENUM_VALUE"),
                   Then(Tok(Name("NOTATION"), "NONE"),
                        ListOf({AnyName}, "ATTRIBUTE_NOTATION_VALUE"))})

\* [60]
Default ==
    Either({Tok(Pound("REQUIRED"), "REQUIRED_ATTRIBUTE_VALUE"),
            Tok(Pound("IMPLIED"), "IMPLIED_ATTRIBUTE_VALUE"),
            Tok(Literal, "DEFAULT_ATTRIBUTE_VALUE"),
            Then(Tok(Pound("FIXED"), "NONE"), Tok(Literal, "FIXED_ATTRIBUTE_VALUE"))})

\* [52], [53]
AttlistDecl ==
    InOrder(<<Tok(Decl("ATTLIST"), "NONE"), Tok(AnyName, "ATTLIST_ELEMENT_NAME"),
              Many(InOrder(<<Tok(AnyName, "ATTRIBUTE_NAME"), AttributeType, Default>>)),
              End("NONE")>>)

\* [70] to [76]
EntityDecl ==
    Then(Tok(Decl("ENTITY"), "NONE"),
         Either({InOrder(<<Tok(AnyName, "GENERAL_ENTITY_NAME"), Tok(Literal, "ENTITY_VALUE"),
                           End("NONE")>>),
                 InOrder(<<Tok(AnyName, "GENERAL_ENTITY_NAME"),
                           External("ENTITY_PUBLIC_ID", "ENTITY_SYSTEM_ID"),
                           Either({End("ENTITY_COMPLETE"),
                                   InOrder(<<Tok(Name("NDATA"), "NONE"),
                                             Tok(AnyName, "ENTITY_NOTATION_NAME"),
                                             End("NONE")>>)})>>),
                 InOrder(<<Tok(<<"PERCENT">>, "NONE"), Tok(AnyName, "PARAM_ENTITY_NAME"),
                           Either({Tok(Literal, "ENTITY_VALUE"),
                                   External("ENTITY_PUBLIC_ID", "ENTITY_SYSTEM_ID")}),
                           End("NONE")>>)}))

\* [82]
NotationDecl ==
    InOrder(<<Tok(Decl("NOTATION"), "NONE"), Tok(AnyName, "NOTATION_NAME"),
              Either({Then(External("NOTATION_PUBLIC_ID", "NOTATION_SYSTEM_ID"), End("NONE")),
                      InOrder(<<Tok(Name("PUBLIC"), "NONE"), Tok(Literal, "NOTATION_PUBLIC_ID"),
                                End("NOTATION_NO_SYSTEM_ID")>>)})>>)

\* [28a], [28b], [29]
Declaration ==
    Either({ElementDecl, AttlistDecl, EntityDecl, NotationDecl, Misc,
            Tok(<<"PARAM_ENTITY_REF">>, "PARAM_ENTITY_REF")})

\* [28]
Doctype ==
    InOrder(<<Tok(Decl("DOCTYPE"), "NONE"), Tok(AnyName, "DOCTYPE_NAME"),
              Maybe(External("DOCTYPE_PUBLIC_ID", "DOCTYPE_SYSTEM_ID")),
              Maybe(InOrder(<<Tok(<<"OPEN_BRACKET">>, "DOCTYPE_INTERNAL_SUBSET"),
                              Many(Declaration), Tok(<<"CLOSE_BRACKET">>, "NONE")>>)),
              End("DOCTYPE_CLOSE")>>)

\* [22], and the first token of the root element.
Prolog ==
    InOrder(<<Maybe(Tok(<<"BOM">>, "NONE")), Maybe(Tok(<<"XML_DECL">>, "XML_DECL")),
              Many(Misc), Maybe(Then(Doctype, Many(Misc))),
              Tok(<<"INSTANCE_START">>, "INSTANCE_START")>>)

Body(name) == IF name = "cp" THEN ContentParticle ELSE Group

-----------------------------------------------------------------------------

RECURSIVE Nullable(_)
Nullable(e) ==
    CASE e[1] \in {"nothing", "token", "rule"} -> FALSE
      [] e[1] \in {"empty", "many"} -> TRUE
      [] e[1] = "then" -> Nullable(e[2]) /\ Nullable(e[3])
      [] e[1] = "or"   -> \E o \in e[2] : Nullable(o)

Fits(pattern, token) == pattern = token \/ pattern = <<token[1]>>

\* White space may stand before every token but those of the beginning.
Spaced(token) == token[1] \notin {"BOM", "XML_DECL", "PROLOG_S"}

RECURSIVE After(_, _)
After(e, token) ==
    CASE e[1] \in {"nothing", "empty"} -> Nothing
      [] e[1] = "token" -> IF Fits(e[2], token) THEN Empty
                           ELSE IF token = <<"PROLOG_S">> /\ Spaced(e[2]) THEN e
                           ELSE Nothing
      [] e[1] = "rule"  -> After(Body(e[2]), token)
      [] e[1] = "many"  -> Then(After(e[2], token), e)
      [] e[1] = "or"    -> Either({After(o, token) : o \in e[2]})
      [] e[1] = "then"  -> Either({Then(After(e[2], token), e[3])}
                                  \union IF Nullable(e[2]) THEN {After(e[3], token)} ELSE {})

\* The roles that a token may have next.
RECURSIVE RolesOf(_, _)
RolesOf(e, token) ==
    CASE e[1] \in {"nothing", "empty"} -> {}
      [] e[1] = "token" -> IF Fits(e[2], token) THEN {e[3]}
                           ELSE IF token = <<"PROLOG_S">> /\ Spaced(e[2]) THEN {"NONE"}
                           ELSE {}
      [] e[1] = "rule"  -> RolesOf(Body(e[2]), token)
      [] e[1] = "many"  -> RolesOf(e[2], token)
      [] e[1] = "or"    -> UNION {RolesOf(o, token) : o \in e[2]}
      [] e[1] = "then"  -> RolesOf(e[2], token)
                           \union IF Nullable(e[2]) THEN RolesOf(e[3], token) ELSE {}
=============================================================================
