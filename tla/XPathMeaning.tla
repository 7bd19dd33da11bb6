---------------------------- MODULE XPathMeaning ----------------------------
(***************************************************************************)
(* What the queries of judo::XPath mean: a query as a structure, how it is  *)
(* written, and the nodes that XPath 1.0 says it selects.                   *)
(*                                                                          *)
(* A query is a sequence of steps [axis, name, preds].  The axis is "root"  *)
(* (/name at the beginning), "child" (/name, or name at the beginning) or   *)
(* "all" (//name).  A predicate is [kind, value, args]; its arguments are   *)
(* predicates, or operands of the same form.                                *)
(***************************************************************************)
EXTENDS XPath

Predicate(kind, value, args) == [kind |-> kind, value |-> value, args |-> args]
Step(axis, name, preds) == [axis |-> axis, name |-> name, preds |-> preds]

-----------------------------------------------------------------------------
(* How a query is written. *)

RECURSIVE WrittenPredicate(_)
WrittenPredicate(p) ==
    LET arg(i) == WrittenPredicate(p.args[i])
    IN CASE p.kind = "literal"   -> IF p.value = "" THEN <<"'", "'">> ELSE <<"'", p.value, "'">>
         [] p.kind = "position"  -> <<p.value>>
         [] p.kind = "attribute" -> <<"@", p.value>>
         [] p.kind = "child"     -> <<p.value>>
         [] p.kind \in {"text", "name"} -> <<p.kind, "(", ")">>
         [] p.kind = "equal"     -> arg(1) \o <<"=">> \o arg(2)
         [] p.kind = "notequal"  -> arg(1) \o <<"!", "=">> \o arg(2)
         [] p.kind \in {"and", "or"} -> arg(1) \o <<" ", p.kind, " ">> \o arg(2)
         [] p.kind = "not"       -> <<"not", "(">> \o arg(1) \o <<")">>
         [] p.kind = "starts-with" ->
                <<"starts-with", "(">> \o arg(1) \o <<",">> \o arg(2) \o <<")">>

WrittenStep(step, first) ==
    (CASE step.axis = "root" -> <<"/">>
       [] step.axis = "child" -> IF first THEN <<>> ELSE <<"/">>
       [] step.axis = "all" -> <<"/", "/">>)
    \o <<step.name>>
    \o FlattenSeq([i \in DOMAIN step.preds |->
                      <<"[">> \o WrittenPredicate(step.preds[i]) \o <<"]">>])

Written(query) == FlattenSeq([i \in DOMAIN query |-> WrittenStep(query[i], i = 1)])

-----------------------------------------------------------------------------
(* What it selects. *)

Paths(tree) == ToSet(Descend(tree, <<>>, "*"))

IsBelow(p, q) == Len(p) > Len(q) /\ SubSeq(p, 1, Len(q)) = q

IsChild(p, q) == Len(p) = Len(q) + 1 /\ IsBelow(p, q)

\* The strings that an operand stands for at a node: a comparison holds if it holds
\* of one of them.
Strings(tree, p, node) ==
    CASE p.kind = "literal"   -> {p.value}
      [] p.kind = "attribute" -> {GetAttrib(NodeAt(tree, node), p.value)} \ {""}
      [] p.kind = "child"     -> {GetCDATA(NodeAt(tree, c)) :
                                    c \in {c \in Paths(tree) : IsChild(c, node) /\ Named(tree, c, p.value)}}
      [] p.kind = "text"      -> {GetCDATA(NodeAt(tree, node))}
      [] p.kind = "name"      -> {NodeAt(tree, node).name}

\* Whether a predicate holds of a node that is the n-th of those it is asked of.
RECURSIVE Holds(_, _, _, _)
Holds(tree, p, node, n) ==
    CASE p.kind = "position"    -> Numerals[p.value] = n
      [] p.kind \in {"attribute", "child"} -> Strings(tree, p, node) # {}
      [] p.kind = "equal"       -> \E s \in Strings(tree, p.args[1], node) :
                                      s \in Strings(tree, p.args[2], node)
      [] p.kind = "notequal"    -> \E s \in Strings(tree, p.args[1], node) :
                                      \E r \in Strings(tree, p.args[2], node) : s # r
      [] p.kind = "starts-with" -> \E s \in Strings(tree, p.args[1], node) :
                                      \E r \in Strings(tree, p.args[2], node) : Prefixed(s, r)
      [] p.kind = "and"         -> Holds(tree, p.args[1], node, n) /\ Holds(tree, p.args[2], node, n)
      [] p.kind = "or"          -> Holds(tree, p.args[1], node, n) \/ Holds(tree, p.args[2], node, n)
      [] p.kind = "not"         -> ~Holds(tree, p.args[1], node, n)

\* The nodes of the axis, from a context node that may be the document itself.
Document == <<0>>

OnAxis(tree, step, from, node) ==
    /\ Named(tree, node, step.name)
    /\ CASE step.axis = "root"  -> node = <<>>
         [] step.axis = "child" -> IsChild(node, from)
         [] step.axis = "all"   -> from = Document \/ IsBelow(node, from)

\* Paths are sequences of numbers: the order of the document is that of the paths.
RECURSIVE Before(_, _)
Before(p, q) ==
    \/ p = <<>> /\ q # <<>>
    \/ p # <<>> /\ q # <<>> /\ Head(p) < Head(q)
    \/ p # <<>> /\ q # <<>> /\ Head(p) = Head(q) /\ Before(Tail(p), Tail(q))

\* One predicate after the other, each counting what the ones before have left.
Filtered(tree, nodes, preds) ==
    FoldLeft(LAMBDA S, p : {x \in S : Holds(tree, p, x, 1 + Cardinality({y \in S : Before(y, x)}))},
             nodes, preds)

\* A query begins at the document if its first step does, else at the root element.
Selected(tree, query) ==
    FoldLeft(LAMBDA S, step :
                 UNION {Filtered(tree, {x \in Paths(tree) : OnAxis(tree, step, from, x)}, step.preds) :
                           from \in S},
             {IF query[1].axis = "child" THEN <<>> ELSE Document}, query)
=============================================================================
