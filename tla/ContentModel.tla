---------------------------- MODULE ContentModel ----------------------------
(***************************************************************************)
(* The handlers of xmlrole.c under any tokens: where they are in a content  *)
(* model, of which they know the level and doProlog() the separators, and   *)
(* where it is by its parentheses.                                          *)
(***************************************************************************)
EXTENDS XmlRole, FiniteSets

CONSTANTS
    Words,          \* of names and declarations, keywords or not
    InitGroupSize,  \* of groupConnector
    MaxLevel        \* bound: how deep groups are nested

ASSUME ContentModelAssumption ==
    /\ InitGroupSize \in Nat /\ InitGroupSize > 1
    /\ MaxLevel \in Nat

VARIABLES
    state,      \* PROLOG_STATE and what is in groupConnector
    groupSize,  \* how much room there is in it
    lastToken,  \* history: the last one
    declared,   \* history: the word of the last declaration that was opened
    groups      \* history: what has separated the members of each group that is open

modelVars == <<state, groupSize, lastToken, declared, groups>>

Separators == {<<"COMMA">>, <<"OR">>}
Closing    == {CloseWith(q) : q \in Quantifiers}
PrologTokens ==
    {r[2] : r \in Rows} \union {<<"PROLOG_S">>, <<"INVALID">>}
    \union UNION {{Name(w), Decl(w), Pound(w)} : w \in Words}

\* By the parentheses and the separators alone.
Regrouped(t) ==
    LET n == Len(groups)
    IN IF declared # "ELEMENT" THEN groups
       ELSE CASE t = <<"OPEN_PAREN">>              -> Append(groups, {})
              [] t \in Separators /\ groups # <<>> -> [groups EXCEPT ![n] = @ \union {t}]
              [] t \in Closing /\ groups # <<>>    -> SubSeq(groups, 1, n - 1)
              [] OTHER                             -> groups

\* Room for the level of a group that is opened.
SizeAfter(size, level, role) ==
    IF role # "GROUP_OPEN" \/ level < size THEN size
    ELSE IF size = 0 THEN InitGroupSize ELSE 2 * size

HandlersInit ==
    /\ state = PrologStateInit
    /\ groupSize = 0
    /\ lastToken = <<>>
    /\ declared = ""
    /\ groups = <<>>

TakeToken(t) ==
    /\ state.handler # "error"
    /\ t = <<"OPEN_PAREN">> => Len(groups) < MaxLevel
    /\ state' = TokenRole(state, t)
    /\ groupSize' = SizeAfter(groupSize, state'.level, state'.role)
    /\ lastToken' = t
    /\ declared' = IF t[1] = "DECL_OPEN" THEN t[2] ELSE declared
    /\ groups' = Regrouped(t)

HandlersNext == \E t \in PrologTokens : TakeToken(t)

HandlersSpec == HandlersInit /\ [][HandlersNext]_modelVars

-----------------------------------------------------------------------------

\* The handlers of a content model of elements, from "(" to the last ")".
Children == {"element2", "element6", "element7"}

\* The level is the number of groups that are open, in a content model of elements; it is
\* within groupConnector; and where there is no content model no group is open: the one of
\* the declaration is left with its last parenthesis (xmlrole.c element1 to element7,
\* xmlparse.c GROUP_OPEN).
LevelIsDepth ==
    /\ state.handler \in Children =>
         /\ state.level = Len(groups) /\ state.level > 0 /\ state.level < groupSize
    /\ state.handler \notin Children \union {"element3", "element4", "element5", "error"} =>
         groups = <<>>

\* What separates the members of a group is of one kind, whatever there is in the groups
\* about it and in those it holds (xmlparse.c GROUP_SEQUENCE, GROUP_CHOICE).
GroupsAreOfOneKind ==
    state.handler # "error" => \A l \in 1..Len(groups) : \A s, t \in groups[l] : s = t

\* The handlers know what the parentheses and the separators of a content model say.
GroupsAreTracked == LevelIsDepth /\ GroupsAreOfOneKind

\* Behind a member, a separator of the kind that the group has, or of either if it has
\* none, is never refused, and neither is the end of the group: a group that was closed at
\* the same level leaves nothing behind (xmlparse.c GROUP_OPEN, xmlrole.c element7).
GroupsGoOn ==
    [][ /\ state.handler = "element7"
        /\ \/ lastToken' \in Closing
           \/ lastToken' \in Separators /\ groups[Len(groups)] \subseteq {lastToken'}
        => state'.handler # "error" ]_modelVars
=============================================================================
