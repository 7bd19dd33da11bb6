------------------------------ MODULE DiscoDB ------------------------------
(***************************************************************************)
(* jabberoo::DiscoDB: what the application asked about JabberIDs and their  *)
(* nodes, the items it was told, and the callbacks that wait.  A lookup is  *)
(* one call of cache(); it asks for the items and then for the info, or for *)
(* the info alone, and browses if the answer is an error.                   *)
(*                                                                          *)
(* Lookups are numbered.  A lookup has one query on its way at a time, and  *)
(* different JabberIDs answer in any order.                                 *)
(***************************************************************************)
EXTENDS Naturals, Sequences

CONSTANTS
    Keys,       \* what can be asked about: records of a jid and a node
    Listings,   \* sets of keys: the children an answer may list
    MaxLookups  \* bound: calls of cache()

\* What an error with an <error> in it, browsed for, is taken to be about.
Nobody == [jid |-> "", node |-> ""]

ASSUME DiscoAssumption ==
    /\ Keys \subseteq [jid : STRING, node : STRING]
    /\ Nobody \notin Keys
    /\ \A k \in Keys : [k EXCEPT !.node = ""] \in Keys
    /\ Listings \subseteq SUBSET Keys
    /\ MaxLookups \in Nat

VARIABLES
    items,      \* _items: a function of the keys that have an Item
    callbacks,  \* _callbacks: lookups, each under the key it asked about
    persist,    \* _persistNodes: queries whose node is remembered
    queries,    \* on their way to be answered
    running,    \* runCallbacks(): see Phases
    asked,      \* history: the keys of all lookups
    told,       \* history: lookups whose callback was run
    stranded    \* history: lookups whose query failed for good

vars == <<items, callbacks, persist, queries, running, asked, told, stranded>>

\* The flags of Item::State.  An Item has children, pointers to other Items.
Flags   == {"stQuerying", "stItems", "stInfo"}
Ready   == {"stItems", "stInfo"}
Fresh   == [flags |-> {}, children |-> {}]

Kinds   == {"items", "info", "browse"}
Lookups == 1..Len(asked)

\* "signal": the handlers of signal_new_item run; "callbacks": those of `left'.
Phases == {"none", "signal", "callbacks"}
Idle   == [phase |-> "none", key |-> Nobody, left |-> {}]

TypeOK ==
    /\ DOMAIN items \subseteq Keys \union {Nobody}
    /\ \A k \in DOMAIN items :
          items[k] \in [flags : SUBSET Flags, children : SUBSET Keys]
    /\ asked \in Seq(Keys)
    /\ callbacks \subseteq Lookups
    /\ persist \subseteq Lookups \X Kinds
    /\ queries \subseteq [n : Lookups, kind : Kinds, key : Keys]
    /\ \A q, r \in queries : q.n = r.n => q = r
    /\ running \in [phase : Phases, key : Keys \union {Nobody}, left : SUBSET Lookups]
    /\ told \subseteq Lookups
    /\ stranded \subseteq Lookups

Init ==
    /\ items = <<>>
    /\ callbacks = {}
    /\ persist = {}
    /\ queries = {}
    /\ running = Idle
    /\ asked = <<>>
    /\ told = {}
    /\ stranded = {}

-----------------------------------------------------------------------------
(* What the operations are made of. *)

\* find(): the Item of a key, or a new one.
Found(k) == IF k \in DOMAIN items THEN items[k] ELSE Fresh

\* The same Item under every key of S, in the place of another or beside them.
Put(map, S, item) ==
    [k \in DOMAIN map \union S |-> IF k \in S THEN item ELSE map[k]]

\* Only a node is remembered.
Remembered(n, kind, k) == IF k.node = "" THEN {} ELSE {<<n, kind>>}

\* The key of an answer that repeats the node asked about or not.
AnswersFor(q, echo) ==
    IF echo \/ <<q.n, q.kind>> \in persist THEN q.key
    ELSE [q.key EXCEPT !.node = ""]

Forgotten(q) == persist \ {<<q.n, q.kind>>}

\* runCallbacks(), up to the handlers of signal_new_item.
RunCallbacks(k) == running' = [phase |-> "signal", key |-> k, left |-> {}]

\* The query that a lookup asks next.
AsksNext(q, kind, k) ==
    queries' = (queries \ {q}) \union {[n |-> q.n, kind |-> kind, key |-> k]}

-----------------------------------------------------------------------------
(* The operations of the application: from outside, or from its handlers. *)

\* cache(): an Item that is there already is being queried again.
Cache ==
    /\ Len(asked) < MaxLookups
    /\ \E k \in Keys, kind \in {"items", "info"} :
          LET n == Len(asked) + 1
          IN /\ asked' = Append(asked, k)
             /\ callbacks' = callbacks \union {n}
             /\ items' = Put(items, {k}, [Found(k) EXCEPT !.flags = {"stQuerying"}])
             /\ queries' = queries \union {[n |-> n, kind |-> kind, key |-> k]}
             /\ persist' = persist \union Remembered(n, kind, k)
    /\ UNCHANGED <<running, told, stranded>>

\* clear(): callbacks and queries stay as they are.
Clear ==
    /\ items' = <<>>
    /\ UNCHANGED <<callbacks, persist, queries, running, asked, told, stranded>>

\* erase(), of an Item that is no child of another: the application sees to it.
Erase ==
    /\ \E k \in DOMAIN items :
          /\ \A j \in DOMAIN items : k \notin items[j].children
          /\ items' = [j \in DOMAIN items \ {k} |-> items[j]]
    /\ UNCHANGED <<callbacks, persist, queries, running, asked, told, stranded>>

-----------------------------------------------------------------------------
(* The answers. *)

Answered(kinds) == running.phase = "none" /\ \E q \in queries : q.kind \in kinds

\* discoInfoCB(), up to the handlers of signal_new_item.
DiscoInfo ==
    /\ Answered({"info"})
    /\ \E q \in queries, echo \in BOOLEAN :
          LET k == AnswersFor(q, echo)
          IN /\ q.kind = "info"
             /\ items' = Put(items, {k}, [Found(k) EXCEPT
                          !.flags = (@ \intersect Ready) \union {"stInfo"}])
             /\ queries' = queries \ {q}
             /\ persist' = Forgotten(q)
             /\ RunCallbacks(k)
    /\ UNCHANGED <<callbacks, asked, told, stranded>>

\* Mutants of DiscoItems: the node of the second query is not remembered; the
\* children are not put into _items.
DiscoItems_Forgets ==
    /\ Answered({"items"})
    /\ \E q \in queries, echo \in BOOLEAN, listing \in Listings :
          LET k == AnswersFor(q, echo)
          IN /\ q.kind = "items"
             /\ items' = Put(Put(items, listing \ DOMAIN items, Fresh), {k},
                          [flags |-> {"stItems"}, children |-> listing])
             /\ AsksNext(q, "info", k)
             /\ persist' = Forgotten(q)
    /\ UNCHANGED <<callbacks, running, asked, told, stranded>>

DiscoItems_Unlisted ==
    /\ Answered({"items"})
    /\ \E q \in queries, echo \in BOOLEAN, listing \in Listings :
          LET k == AnswersFor(q, echo)
          IN /\ q.kind = "items"
             /\ items' = Put(items, {k}, [flags |-> {"stItems"}, children |-> listing])
             /\ AsksNext(q, "info", k)
             /\ persist' = Forgotten(q) \union Remembered(q.n, "info", k)
    /\ UNCHANGED <<callbacks, running, asked, told, stranded>>

\* discoItemsCB(): the children are put into _items, and the info is next.
DiscoItems ==
    /\ Answered({"items"})
    /\ \E q \in queries, echo \in BOOLEAN, listing \in Listings :
          LET k == AnswersFor(q, echo)
          IN /\ q.kind = "items"
             /\ items' = Put(Put(items, listing \ DOMAIN items, Fresh), {k},
                          [flags |-> {"stItems"}, children |-> listing])
             /\ AsksNext(q, "info", k)
             /\ persist' = Forgotten(q) \union Remembered(q.n, "info", k)
    /\ UNCHANGED <<callbacks, running, asked, told, stranded>>

\* Either of the two, given an error: the JabberID is browsed, without a node.
DiscoError ==
    /\ Answered({"items", "info"})
    /\ \E q \in queries :
          /\ q.kind \in {"items", "info"}
          /\ AsksNext(q, "browse", [q.key EXCEPT !.node = ""])
          /\ stranded' = IF q.key.node = "" THEN stranded
                         ELSE stranded \union {q.n}
    /\ UNCHANGED <<items, callbacks, persist, running, asked, told>>

\* Mutant of Browse: the Item is left as it is being queried.
Browse_KeepsState ==
    /\ Answered({"browse"})
    /\ \E q \in queries, listing \in Listings :
          LET below == {c \in listing : c.node = "" /\ c # q.key}
          IN /\ q.kind = "browse"
             /\ items' = Put(Put(items, below, [flags |-> Ready, children |-> {}]),
                          {q.key}, [Found(q.key) EXCEPT !.children = below])
             /\ queries' = queries \ {q}
             /\ RunCallbacks(q.key)
    /\ UNCHANGED <<callbacks, persist, asked, told, stranded>>

\* browseCB(), up to the handlers of signal_new_item.  What is below is taken to
\* be known too.  Nobody lists itself.
Browse ==
    /\ Answered({"browse"})
    /\ \E q \in queries, listing \in Listings :
          LET below == {c \in listing : c.node = "" /\ c # q.key}
          IN /\ q.kind = "browse"
             /\ items' = Put(Put(items, below, [flags |-> Ready, children |-> {}]),
                          {q.key}, [flags |-> Ready, children |-> below])
             /\ queries' = queries \ {q}
             /\ RunCallbacks(q.key)
    /\ UNCHANGED <<callbacks, persist, asked, told, stranded>>

\* browseCB(), given an error, whose type it does not look at: if there is an
\* element in it then that is the Item, and its JabberID is empty.
BrowseError ==
    /\ Answered({"browse"})
    /\ \E q \in queries :
          /\ q.kind = "browse"
          /\ queries' = queries \ {q}
          /\ stranded' = stranded \union {q.n}
          /\ \/ /\ items' = Put(items, {Nobody}, [flags |-> Ready, children |-> {}])
                /\ RunCallbacks(Nobody)
             \/ UNCHANGED <<items, running>>
    /\ UNCHANGED <<callbacks, persist, asked, told>>

-----------------------------------------------------------------------------
(* runCallbacks(), after the handlers of signal_new_item. *)

Waiting(k) == {n \in callbacks : asked[n] = k}

CallWith(left) ==
    running' = IF left = {} THEN Idle
               ELSE [running EXCEPT !.phase = "callbacks", !.left = left]

\* Mutant: the callbacks are erased after they have run.
TakeCallbacks_Later ==
    /\ running.phase = "signal"
    /\ CallWith(Waiting(running.key))
    /\ UNCHANGED <<items, callbacks, persist, queries, asked, told, stranded>>

\* The callbacks are taken off the map before the first is run, because it may
\* register others.
TakeCallbacks ==
    /\ running.phase = "signal"
    /\ CallWith(Waiting(running.key))
    /\ callbacks' = callbacks \ Waiting(running.key)
    /\ UNCHANGED <<items, persist, queries, asked, told, stranded>>

\* In any order: it is that of a multimap.
RunCallback ==
    /\ running.phase = "callbacks"
    /\ \E n \in running.left :
          /\ told' = told \union {n}
          /\ CallWith(running.left \ {n})
    /\ UNCHANGED <<items, callbacks, persist, queries, asked, stranded>>

-----------------------------------------------------------------------------
Answer == DiscoInfo \/ DiscoItems \/ DiscoError \/ Browse \/ BrowseError

Next ==
    \/ Cache
    \/ Clear
    \/ Erase
    \/ Answer
    \/ TakeCallbacks
    \/ RunCallback

Spec == Init /\ [][Next]_vars

\* Every query is answered, if only by an error, and handlers return.
FairSpec ==
    /\ Spec
    /\ WF_vars(Answer)
    /\ WF_vars(TakeCallbacks)
    /\ WF_vars(RunCallback)

-----------------------------------------------------------------------------
\* No callback is lost or run twice, although its handlers call cache() and
\* clear() while others of its kind are being run: each one waits, or is about
\* to be run, or was run.
NothingIsLost ==
    /\ callbacks \union running.left \union told = Lookups
    /\ callbacks \intersect running.left = {}
    /\ callbacks \intersect told = {}
    /\ running.left \intersect told = {}

\* What a callback waits for will come: a query of its key is on its way, or
\* its own query is stranded.  The answer may leave out the node it is about.
LookupIsUnderWay ==
    \A n \in callbacks :
        \/ n \in stranded
        \/ \E q \in queries : q.key = asked[n]
        \/ running.phase = "signal" /\ running.key = asked[n]

\* An Item that says it is being queried is: it does not say so for ever.
QueryingIsTrue ==
    \A k \in DOMAIN items : "stQuerying" \in items[k].flags =>
        \/ \E q \in queries : q.key = k
        \/ \E n \in stranded : asked[n] = k

\* The pointers to children lead to Items: what a query, clear() and a second
\* answer do to the one they do to the other.
ChildrenAreThere ==
    \A k \in DOMAIN items : items[k].children \subseteq DOMAIN items

\* cache() runs its callback in the end, unless the query is stranded.
LookupIsAnswered ==
    \A n \in 1..MaxLookups :
        n \in Lookups ~> n \in told \union stranded
=============================================================================
