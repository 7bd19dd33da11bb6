------------------------------- MODULE XPath -------------------------------
(***************************************************************************)
(* judo::XPath: a query is parsed into operations, which are run one after  *)
(* the other on a list of elements; the query matches an element if none of *)
(* them leaves the list empty.                                              *)
(*                                                                          *)
(* A query is a sequence of lexemes: the characters of _tokens one by one,  *)
(* and what stands between two of them as one string.  A node of a tree is  *)
(* named by the path to it, the root by <<>>.                               *)
(***************************************************************************)
EXTENDS Elements

RECURSIVE NodeAt(_, _)
NodeAt(tree, path) ==
    IF path = <<>> THEN tree ELSE NodeAt(tree.kids[Head(path)], Tail(path))

\* The kids of a node that are elements, as paths.
KidsOf(tree, path) ==
    LET kids == NodeAt(tree, path).kids
    IN SelectSeq([i \in 1..Len(kids) |-> Append(path, i)],
                 LAMBDA p : IsElement(NodeAt(tree, p)))

-----------------------------------------------------------------------------
(* Operations. *)

Operation(kind, value, args) == [kind |-> kind, value |-> value, args |-> args, root |-> FALSE]

\* NULL.
None == Operation("none", "", <<>>)

Named(tree, path, name) == name = "*" \/ NodeAt(tree, path).name = name

\* AllOp::descend(): the node and what is below it, in the order of the document.
RECURSIVE Descend(_, _, _)
Descend(tree, path, name) ==
    (IF Named(tree, path, name) THEN <<path>> ELSE <<>>)
    \o FlattenSeq([i \in 1..Len(KidsOf(tree, path)) |->
                      Descend(tree, KidsOf(tree, path)[i], name)])

\* calcStr(): what an operand of a comparison says of an element.
CalcStr(op, node) ==
    CASE op.kind = "attribute" -> GetAttrib(node, op.value)
      [] op.kind = "node"      -> GetCDATA(node)
      [] op.kind = "function" /\ op.value = "text" -> GetCDATA(node)
      [] op.kind = "function" /\ op.value = "name" -> node.name
      [] op.kind = "literal"   -> op.value
      [] OTHER                 -> ""

\* atoi(), for the identifiers that are numbers.
Numerals == "1" :> 1 @@ "2" :> 2 @@ "3" :> 3

\* std::string::find() at 0, for the strings of the model: "" is a prefix of all.
Prefixed(s, prefix) == prefix = "" \/ s = prefix

\* isValid(): what op leaves of the list of elements; none, if it returns false.
\* A list of a Value that is `in_context' is asked whether it has a child of that
\* name, any other list is replaced by these children.
RECURSIVE IsValid(_, _, _, _)
IsValid(tree, op, elems, in_context) ==
    LET Holds(o, e) == IsValid(tree, o, <<e>>, TRUE) # <<>>
        Children(e) == SelectSeq(KidsOf(tree, e), LAMBDA p : Named(tree, p, op.value))
        Str(o, e)   == CalcStr(o, NodeAt(tree, e))
        Compared    == IsValid(tree, op.args[2], IsValid(tree, op.args[1], elems, FALSE), FALSE)
    IN CASE elems = <<>> -> <<>>
         [] op.kind = "literal" -> elems
         [] op.kind = "position" ->
                IF Numerals[op.value] <= Len(elems) THEN <<elems[Numerals[op.value]]>> ELSE <<>>
         [] op.kind = "context" ->
                SelectSeq(elems, LAMBDA e : Holds(op.args[1], e))
         [] op.kind = "node" /\ op.root ->
                IF NodeAt(tree, elems[1]).name = op.value THEN elems ELSE <<>>
         [] op.kind = "node" /\ ~op.root /\ in_context ->
                SelectSeq(elems, LAMBDA e : Children(e) # <<>>)
         [] op.kind = "node" /\ ~op.root /\ ~in_context ->
                FlattenSeq([i \in DOMAIN elems |-> Children(elems[i])])
         [] op.kind = "all" ->
                FlattenSeq([i \in DOMAIN elems |-> Descend(tree, elems[i], op.value)])
         [] op.kind = "attribute" ->
                SelectSeq(elems, LAMBDA e :
                    IF op.value = "*" THEN DOMAIN NodeAt(tree, e).attribs # {}
                    ELSE GetAttrib(NodeAt(tree, e), op.value) # "")
         [] op.kind = "equal" ->
                IF \E i \in DOMAIN Compared :
                      Str(op.args[1], Compared[i]) = Str(op.args[2], Compared[i])
                THEN elems ELSE <<>>
         [] op.kind = "notequal" ->
                IF \E i \in DOMAIN Compared :
                      Str(op.args[1], Compared[i]) # Str(op.args[2], Compared[i])
                THEN elems ELSE <<>>
         [] op.kind = "and" ->
                IsValid(tree, op.args[2], IsValid(tree, op.args[1], elems, in_context), in_context)
         [] op.kind = "or" ->
                SelectSeq(elems, LAMBDA e : Holds(op.args[1], e) \/ Holds(op.args[2], e))
         [] op.kind = "function" /\ op.value = "not" ->
                SelectSeq(elems, LAMBDA e : ~Holds(op.args[1], e))
         [] op.kind = "function" /\ op.value = "starts-with" ->
                SelectSeq(elems, LAMBDA e : Prefixed(Str(op.args[1], e), Str(op.args[2], e)))
         [] op.kind = "function" /\ op.value \in {"text", "name"} -> elems

-----------------------------------------------------------------------------
(* The parser. *)

Tokens    == {"/", "[", "]", "@", "\"", "'", "=", "!", "(", ")", ":", " ", ","}
Functions == {"text", "name", "not", "starts-with"}

LexemeAt(q, i) == IF i \in DOMAIN q THEN q[i] ELSE ""

\* getNextToken(): where the next token is, or the end.
NextToken(q, pos) ==
    IF pos > Len(q) THEN Len(q) + 1
    ELSE CHOOSE i \in pos..(Len(q) + 1) :
            /\ i = Len(q) + 1 \/ q[i] \in Tokens
            /\ \A j \in pos..(i - 1) : q[j] \notin Tokens

\* getNextIdentifier(): what stands before the next token.
Identifier(q, pos) == IF NextToken(q, pos) = pos THEN "" ELSE q[pos]

\* What a call of getOp() has come to: the position, _ops, the context it is still
\* in, what it returns, and whether it has thrown Invalid.
State(pos, ops, ctx, op) == [pos |-> pos, ops |-> ops, ctx |-> ctx, op |-> op, ok |-> TRUE]
Invalid(ops) == [pos |-> 0, ops |-> ops, ctx |-> "", op |-> None, ok |-> FALSE]

\* Mutant of Joined: the operand stays on _ops.
Joined_KeepsOperand(kind, s, ctx) ==
    IF ~s.ok THEN s
    ELSE IF s.op = None \/ s.ops = <<>> THEN Invalid(s.ops)
    ELSE State(s.pos, s.ops, ctx, Operation(kind, "", <<Last(s.ops), s.op>>))

\* An operation made of the one that was parsed before it and of another.
Joined(kind, s, ctx) ==
    IF ~s.ok THEN s
    ELSE IF s.op = None \/ s.ops = <<>> THEN Invalid(s.ops)
    ELSE State(s.pos, Front(s.ops), ctx, Operation(kind, "", <<Last(s.ops), s.op>>))

\* What stands in brackets.
Bracketed(s, ctx) ==
    IF ~s.ok THEN s ELSE State(s.pos, s.ops, ctx, Operation("context", "", <<s.op>>))

\* A function whose arguments are what was put on _ops behind n operations.
Applied(name, s, n, ctx) ==
    IF ~s.ok THEN s
    ELSE State(s.pos, SubSeq(s.ops, 1, n), ctx,
               Operation("function", name, SubSeq(s.ops, n + 1, Len(s.ops))))

RECURSIVE GetOp(_, _, _, _)

\* The right-hand side of a comparison: getOp() until it returns something.
RECURSIVE Operand(_, _, _)
Operand(q, pos, ops) ==
    LET on(s) == IF s.ok /\ s.op = None /\ s.pos <= Len(q) THEN Operand(q, s.pos, s.ops) ELSE s
    IN on(GetOp(q, pos, ops, ""))

\* What the switch of getOp() makes of a token.  `and' and `or' take what is left of the
\* context, and end it.
Switched(q, pos0, ops, ctx) ==
    LET tok   == NextToken(q, pos0)
        token == LexemeAt(q, tok)
        start == tok + 1
        After(i) == NextToken(q, i)
    IN IF token = "" /\ ctx # "" THEN Invalid(ops)
       ELSE IF tok # pos0
       THEN State(tok, ops, ctx, Operation("node", q[pos0], <<>>))
       ELSE CASE token = "/" /\ LexemeAt(q, start) = "/" ->
                   State(After(start + 1), ops, ctx,
                         IF Identifier(q, start + 1) = "" THEN None
                         ELSE Operation("all", Identifier(q, start + 1), <<>>))
              [] token = "/" /\ LexemeAt(q, start) # "/" ->
                   State(After(start), ops, ctx,
                         IF Identifier(q, start) = "" THEN None
                         ELSE [Operation("node", Identifier(q, start), <<>>)
                                  EXCEPT !.root = (pos0 = 1)])
              [] token = "@" ->
                   State(After(start), ops, ctx,
                         Operation("attribute", Identifier(q, start), <<>>))
              [] token = "]" ->
                   IF ctx = "[" /\ ops # <<>>
                   THEN State(start, Front(ops), "", Last(ops))
                   ELSE Invalid(ops)
              [] token \in {"'", "\""} ->
                   LET close == CHOOSE i \in start..Len(q) :
                                   q[i] = token /\ \A j \in start..(i - 1) : q[j] # token
                   IN State(close + 1, ops, ctx,
                            Operation("literal", IF close = start THEN "" ELSE q[start], <<>>))
              [] token = " " /\ Identifier(q, start) = "and" ->
                   Joined("and", GetOp(q, After(start) + 1, ops, ctx), "")
              [] token = " " /\ Identifier(q, start) = "or" ->
                   Joined("or", GetOp(q, After(start) + 1, ops, ctx), "")
              [] token = " " /\ Identifier(q, start) \notin {"and", "or"} ->
                   State(After(start), ops, ctx, None)
              [] token = "[" ->
                   IF LexemeAt(q, After(start)) = "]" /\ After(start) = start
                   THEN Invalid(ops)
                   ELSE IF /\ LexemeAt(q, After(start)) = "]"
                           /\ Identifier(q, start) \in DOMAIN Numerals
                   THEN State(After(start) + 1, ops, ctx,
                              Operation("position", Identifier(q, start), <<>>))
                   ELSE Bracketed(GetOp(q, start, ops, "["), ctx)
              [] token = "(" ->
                   IF ops = <<>> \/ Last(ops).value \notin Functions THEN Invalid(ops)
                   ELSE Applied(Last(ops).value, GetOp(q, start, Front(ops), "("),
                                Len(ops) - 1, ctx)
              [] token = ")" ->
                   IF ctx = "(" THEN State(start, ops, "", None) ELSE Invalid(ops)
              [] token = "," ->
                   IF ctx = "(" THEN State(start, ops, ctx, None) ELSE Invalid(ops)
              [] token = "=" ->
                   Joined("equal", Operand(q, start, ops), ctx)
              [] token = "!" ->
                   IF LexemeAt(q, start) # "=" THEN Invalid(ops)
                   ELSE Joined("notequal", Operand(q, start + 1, ops), ctx)
              [] OTHER -> State(start, ops, ctx, None)

\* getOp(): one token is read and, in a context, those up to the end of it.
GetOp(q, pos0, ops, ctx) ==
    LET on(step) == IF ~step.ok \/ step.ctx = "" THEN step
                    ELSE GetOp(q, step.pos,
                               IF step.op = None THEN step.ops ELSE Append(step.ops, step.op),
                               step.ctx)
    IN on(Switched(q, pos0, ops, ctx))

\* parseQuery(): _ops, or <<None>> if the query is Invalid.
RECURSIVE ParseFrom(_, _, _)
ParseFrom(q, pos, ops) ==
    LET on(s) == IF ~s.ok THEN <<None>>
                 ELSE ParseFrom(q, s.pos, IF s.op = None THEN s.ops ELSE Append(s.ops, s.op))
    IN IF pos > Len(q) THEN ops ELSE on(GetOp(q, pos, ops, ""))

ParseQuery(q) == ParseFrom(q, 1, <<>>)

\* execute(): the operations in order, on the list of the root alone.
Execute(ops, tree) ==
    FoldLeft(LAMBDA elems, op : IsValid(tree, op, elems, FALSE), <<<<>>>>, ops)

\* check()
Matches(ops, tree) == Execute(ops, tree) # <<>>
=============================================================================
