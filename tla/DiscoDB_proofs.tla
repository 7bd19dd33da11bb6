---------------------------- MODULE DiscoDB_proofs ----------------------------
(***************************************************************************)
(* For all keys, listings and numbers of lookups: no callback is lost or    *)
(* run twice, what a callback waits for is under way, an Item that says it  *)
(* is being queried is, and the pointers to children lead to Items.         *)
(*                                                                         *)
(* At the end, for JabberIDs as texts: JID::Compare is a strict order, and  *)
(* the parts of a JabberID are found again.                                 *)
(***************************************************************************)
EXTENDS DiscoDB, JIDOrder, Lists_proofs

\* The parts of TypeOK: the cache, and the lookups.
ItemsOK ==
    /\ DOMAIN items \subseteq Keys \union {Nobody}
    /\ \A k \in DOMAIN items :
          items[k] \in [flags : SUBSET Flags, children : SUBSET Keys]

LookupsOK ==
    /\ asked \in Seq(Keys)
    /\ callbacks \subseteq Lookups
    /\ persist \subseteq Lookups \X Kinds
    /\ queries \subseteq [n : Lookups, kind : Kinds, key : Keys]
    /\ \A q, r \in queries : q.n = r.n => q = r
    /\ running \in [phase : Phases, key : Keys \union {Nobody}, left : SUBSET Lookups]
    /\ told \subseteq Lookups
    /\ stranded \subseteq Lookups

\* Callbacks are left to run only while they are being run.
LeftIsRunning == running.phase # "callbacks" => running.left = {}

\* The node of a query of disco is remembered until it is answered.
NodesAreRemembered ==
    \A q \in queries :
        q.kind # "browse" /\ q.key.node # "" => <<q.n, q.kind>> \in persist

\* A callback waits for a query of its own, although that of another lookup of
\* the same key would do.
OwnQueryIsUnderWay ==
    \A n \in callbacks :
        \/ n \in stranded
        \/ \E q \in queries : q.n = n /\ q.key = asked[n]
        \/ running.phase = "signal" /\ running.key = asked[n]

CacheInv == ItemsOK /\ ChildrenAreThere
LookupInv ==
    LookupsOK /\ LeftIsRunning /\ NothingIsLost /\ NodesAreRemembered /\ OwnQueryIsUnderWay

IInv == CacheInv /\ LookupInv

-----------------------------------------------------------------------------
\* A key without its node is a key, and the same if there is no node.
LEMMA BareKey ==
    ASSUME NEW k \in Keys
    PROVE  /\ [k EXCEPT !.node = ""] \in Keys
           /\ k.node = "" => [k EXCEPT !.node = ""] = k
<1>1. k \in [jid : STRING, node : STRING] /\ [k EXCEPT !.node = ""] \in Keys
  BY DiscoAssumption
<1> QED  BY <1>1

\* An Item that is put in the cache, pointing to what is there already.
LEMMA PutKeepsCache ==
    ASSUME CacheInv,
           NEW S, NEW item \in [flags : SUBSET Flags, children : SUBSET Keys],
           S \subseteq Keys \union {Nobody},
           item.children \subseteq DOMAIN items \union S,
           items' = Put(items, S, item)
    PROVE  CacheInv'
<1> USE DEF CacheInv, ItemsOK, ChildrenAreThere
<1>1. /\ DOMAIN items' = DOMAIN items \union S
      /\ DOMAIN items' \subseteq Keys \union {Nobody}
      /\ \A k \in DOMAIN items' :
            /\ items'[k] \in [flags : SUBSET Flags, children : SUBSET Keys]
            /\ items'[k] = IF k \in S THEN item ELSE items[k]
  BY DEF Put
<1>2. ChildrenAreThere'
  BY <1>1
<1> QED  BY <1>1, <1>2

\* An Item that is put in the cache together with its children.
LEMMA PutTwiceKeepsCache ==
    ASSUME CacheInv,
           NEW k \in Keys, NEW S \in SUBSET Keys,
           NEW child \in [flags : SUBSET Flags, children : SUBSET Keys],
           NEW item \in [flags : SUBSET Flags, children : SUBSET Keys],
           child.children = {},
           item.children \subseteq DOMAIN items \union S,
           items' = Put(Put(items, S, child), {k}, item)
    PROVE  CacheInv'
<1> USE DEF CacheInv, ItemsOK, ChildrenAreThere
<1> DEFINE inner == Put(items, S, child)
<1>1. /\ DOMAIN inner = DOMAIN items \union S
      /\ DOMAIN inner \subseteq Keys \union {Nobody}
      /\ \A j \in DOMAIN inner :
            /\ inner[j] \in [flags : SUBSET Flags, children : SUBSET Keys]
            /\ inner[j] = IF j \in S THEN child ELSE items[j]
  BY DEF Put
<1> HIDE DEF inner
<1>2. items' = Put(inner, {k}, item)
  BY DEF inner
<1>3. /\ DOMAIN items' = DOMAIN inner \union {k}
      /\ DOMAIN items' \subseteq Keys \union {Nobody}
      /\ \A j \in DOMAIN items' :
            /\ items'[j] \in [flags : SUBSET Flags, children : SUBSET Keys]
            /\ items'[j] = IF j \in {k} THEN item ELSE inner[j]
  BY <1>1, <1>2 DEF Put
<1>4. ASSUME NEW j \in DOMAIN items'
      PROVE  items'[j].children \subseteq DOMAIN items \union S
  <2>1. CASE j = k
    BY <1>3, <2>1
  <2>2. CASE j # k /\ j \in S
    BY <1>1, <1>3, <2>2
  <2>3. CASE j # k /\ j \notin S
    BY <1>1, <1>3, <2>3
  <2> QED  BY <2>1, <2>2, <2>3
<1> QED  BY <1>1, <1>3, <1>4

\* The Item that find() returns, or a new one.
LEMMA FoundItem ==
    ASSUME CacheInv, NEW k
    PROVE  /\ Found(k) \in [flags : SUBSET Flags, children : SUBSET Keys]
           /\ Found(k).children \subseteq DOMAIN items
BY DEF CacheInv, ItemsOK, ChildrenAreThere, Found, Fresh

\* The answer is about the key of the query, whether it says so or not.
LEMMA AnswerIsAboutTheQuery ==
    ASSUME LookupInv, NEW q \in queries, q.kind # "browse", NEW echo \in BOOLEAN
    PROVE  AnswersFor(q, echo) = q.key
<1>1. q.key \in Keys
  BY DEF LookupInv, LookupsOK
<1> QED
  BY <1>1, BareKey DEF LookupInv, NodesAreRemembered, AnswersFor

-----------------------------------------------------------------------------
(* The cache: one step per action. *)

LEMMA InitCache == Init => CacheInv
BY DEF Init, CacheInv, ItemsOK, ChildrenAreThere

LEMMA StepCache ==
    ASSUME IInv, [Next]_vars
    PROVE  CacheInv'
<1> USE DEF IInv
<1>q. \A q \in queries : q.key \in Keys
  BY DEF LookupInv, LookupsOK
<1>l. \A listing \in Listings : listing \in SUBSET Keys
  BY DiscoAssumption
<1>1. CASE Cache
  <2>1. PICK k \in Keys :
           items' = Put(items, {k}, [Found(k) EXCEPT !.flags = {"stQuerying"}])
    BY <1>1 DEF Cache
  <2> DEFINE item == [Found(k) EXCEPT !.flags = {"stQuerying"}]
  <2>2. /\ item \in [flags : SUBSET Flags, children : SUBSET Keys]
        /\ item.children \subseteq DOMAIN items \union {k}
    BY FoundItem DEF Flags
  <2> HIDE DEF item
  <2>3. items' = Put(items, {k}, item)
    BY <2>1 DEF item
  <2> QED  BY <2>2, <2>3, PutKeepsCache
<1>2. CASE Clear
  BY <1>2 DEF Clear, CacheInv, ItemsOK, ChildrenAreThere
<1>3. CASE Erase
  BY <1>3 DEF Erase, CacheInv, ItemsOK, ChildrenAreThere
<1>4. CASE DiscoInfo
  <2>1. PICK q \in queries, echo \in BOOLEAN :
           /\ q.kind = "info"
           /\ items' = Put(items, {AnswersFor(q, echo)},
                           [Found(AnswersFor(q, echo)) EXCEPT
                              !.flags = (@ \intersect Ready) \union {"stInfo"}])
    BY <1>4 DEF DiscoInfo
  <2> DEFINE item == [Found(q.key) EXCEPT !.flags = (@ \intersect Ready) \union {"stInfo"}]
  <2>2. AnswersFor(q, echo) = q.key
    BY <2>1, AnswerIsAboutTheQuery
  <2>3. /\ item \in [flags : SUBSET Flags, children : SUBSET Keys]
        /\ item.children \subseteq DOMAIN items \union {q.key}
    BY FoundItem DEF Flags, Ready
  <2> HIDE DEF item
  <2>4. items' = Put(items, {q.key}, item)
    BY <2>1, <2>2 DEF item
  <2> QED  BY <1>q, <2>3, <2>4, PutKeepsCache
<1>5. CASE DiscoItems
  <2>1. PICK q \in queries, echo \in BOOLEAN, listing \in Listings :
           /\ q.kind = "items"
           /\ items' = Put(Put(items, listing \ DOMAIN items, Fresh),
                           {AnswersFor(q, echo)},
                           [flags |-> {"stItems"}, children |-> listing])
    BY <1>5 DEF DiscoItems
  <2> DEFINE item == [flags |-> {"stItems"}, children |-> listing]
             new  == listing \ DOMAIN items
  <2>2. AnswersFor(q, echo) = q.key
    BY <2>1, AnswerIsAboutTheQuery
  <2>3. /\ item \in [flags : SUBSET Flags, children : SUBSET Keys]
        /\ item.children \subseteq DOMAIN items \union new
        /\ new \in SUBSET Keys
    BY <1>l DEF Flags
  <2>4. Fresh \in [flags : SUBSET Flags, children : SUBSET Keys] /\ Fresh.children = {}
    BY DEF Fresh
  <2> HIDE DEF item, new
  <2>5. items' = Put(Put(items, new, Fresh), {q.key}, item)
    BY <2>1, <2>2 DEF item, new
  <2> QED  BY <1>q, <2>3, <2>4, <2>5, PutTwiceKeepsCache
<1>6. CASE Browse
  <2>1. PICK q \in queries, listing \in Listings :
           items' = Put(Put(items, {c \in listing : c.node = "" /\ c # q.key},
                            [flags |-> Ready, children |-> {}]),
                        {q.key},
                        [flags |-> Ready,
                         children |-> {c \in listing : c.node = "" /\ c # q.key}])
    BY <1>6 DEF Browse
  <2> DEFINE below == {c \in listing : c.node = "" /\ c # q.key}
             child == [flags |-> Ready, children |-> {}]
             item  == [flags |-> Ready, children |-> below]
  <2>2. /\ below \in SUBSET Keys
        /\ child \in [flags : SUBSET Flags, children : SUBSET Keys]
        /\ child.children = {}
        /\ item \in [flags : SUBSET Flags, children : SUBSET Keys]
        /\ item.children \subseteq DOMAIN items \union below
    BY <1>l DEF Flags, Ready
  <2>3. items' = Put(Put(items, below, child), {q.key}, item)
    BY <2>1
  <2> HIDE DEF below, child, item
  <2> QED  BY <1>q, <2>2, <2>3, PutTwiceKeepsCache
<1>7. CASE BrowseError
  <2>1. CASE UNCHANGED items
    BY <2>1 DEF CacheInv, ItemsOK, ChildrenAreThere
  <2>2. CASE items' = Put(items, {Nobody}, [flags |-> Ready, children |-> {}])
    <3> DEFINE item == [flags |-> Ready, children |-> {}]
    <3>1. /\ item \in [flags : SUBSET Flags, children : SUBSET Keys]
          /\ item.children \subseteq DOMAIN items \union {Nobody}
      BY DEF Flags, Ready
    <3>2. items' = Put(items, {Nobody}, item)
      BY <2>2
    <3> HIDE DEF item
    <3> QED  BY <3>1, <3>2, PutKeepsCache
  <2> QED  BY <1>7, <2>1, <2>2 DEF BrowseError
<1>8. CASE UNCHANGED items
  BY <1>8 DEF CacheInv, ItemsOK, ChildrenAreThere
<1> QED
  BY <1>1, <1>2, <1>3, <1>4, <1>5, <1>6, <1>7, <1>8
  DEF Next, Answer, DiscoError, TakeCallbacks, RunCallback, vars

-----------------------------------------------------------------------------
(* The lookups: one step per action. *)

LEMMA InitLookups == Init => LookupInv
<1> SUFFICES ASSUME Init PROVE LookupInv
  OBVIOUS
<1>1. asked \in Seq(Keys) /\ Len(asked) = 0
  BY EmptySeq DEF Init
<1> QED
  BY <1>1 DEF Init, LookupInv, LookupsOK, LeftIsRunning, NothingIsLost,
     NodesAreRemembered, OwnQueryIsUnderWay, Lookups, Idle, Phases

\* A call of cache() adds a lookup that no part of the state mentions yet.
LEMMA CacheKeepsLookups ==
    ASSUME LookupInv, Cache
    PROVE  LookupInv'
<1> USE DEF LookupInv
<1>1. PICK k \in Keys, kind \in {"items", "info"} :
        /\ asked' = Append(asked, k)
        /\ callbacks' = callbacks \union {Len(asked) + 1}
        /\ queries' = queries \union {[n |-> Len(asked) + 1, kind |-> kind, key |-> k]}
        /\ persist' = persist \union Remembered(Len(asked) + 1, kind, k)
        /\ UNCHANGED <<running, told, stranded>>
  BY DEF Cache
<1> DEFINE n == Len(asked) + 1
           new == [n |-> n, kind |-> kind, key |-> k]
<1>2. /\ asked \in Seq(Keys)
      /\ Len(asked) \in Nat
  BY LenProperties DEF LookupsOK
<1>3. /\ asked' \in Seq(Keys)
      /\ Len(asked') = n
      /\ \A i \in Lookups : asked'[i] = asked[i]
      /\ asked'[n] = k
  BY <1>1, <1>2, AppendProperties DEF Lookups
<1>4. Lookups' = Lookups \union {n} /\ n \notin Lookups
  BY <1>2, <1>3 DEF Lookups
<1>5. queries' = queries \union {new} /\ callbacks' = callbacks \union {n}
  BY <1>1
<1>6. new.n = n /\ new.kind = kind /\ new.key = k
  OBVIOUS
<1>7. kind \in Kinds /\ kind # "browse"
  BY DEF Kinds
<1>8. new \in [n : Lookups', kind : Kinds, key : Keys]
  BY <1>4, <1>7
<1>9. persist' = persist \union (IF k.node = "" THEN {} ELSE {<<n, kind>>})
  BY <1>1 DEF Remembered
<1> HIDE DEF n, new
<1>a. LookupsOK'
  <2>1. persist' \subseteq Lookups' \X Kinds
    <3>1. <<n, kind>> \in Lookups' \X Kinds
      BY <1>4, <1>7
    <3>2. persist \subseteq Lookups' \X Kinds
      BY <1>4 DEF LookupsOK
    <3> QED  BY <1>9, <3>1, <3>2
  <2>2. queries' \subseteq [n : Lookups', kind : Kinds, key : Keys]
    BY <1>4, <1>5, <1>8 DEF LookupsOK
  <2>3. \A q, r \in queries' : q.n = r.n => q = r
    BY <1>4, <1>5, <1>6 DEF LookupsOK
  <2>4. running' \in [phase : Phases, key : Keys \union {Nobody}, left : SUBSET Lookups']
    BY <1>1, <1>4 DEF LookupsOK
  <2> QED  BY <1>1, <1>3, <1>4, <1>5, <2>1, <2>2, <2>3, <2>4 DEF LookupsOK
<1>b. LeftIsRunning'
  BY <1>1 DEF LeftIsRunning
<1>c. NothingIsLost'
  BY <1>1, <1>4, <1>5 DEF NothingIsLost, LookupsOK
<1>d. NodesAreRemembered'
  BY <1>5, <1>6, <1>9 DEF NodesAreRemembered
<1>e. OwnQueryIsUnderWay'
  <2>1. ASSUME NEW c \in callbacks
        PROVE  \/ c \in stranded'
               \/ \E q \in queries' : q.n = c /\ q.key = asked'[c]
               \/ running'.phase = "signal" /\ running'.key = asked'[c]
    <3>1. c \in Lookups /\ asked'[c] = asked[c]
      BY <1>3 DEF LookupsOK
    <3> QED  BY <1>1, <1>5, <3>1 DEF OwnQueryIsUnderWay
  <2> QED  BY <1>3, <1>5, <1>6, <2>1 DEF OwnQueryIsUnderWay
<1> QED  BY <1>a, <1>b, <1>c, <1>d, <1>e

\* A query that gives way to the next one of its lookup.
LEMMA NextQueryKeepsLookups ==
    ASSUME LookupInv, UNCHANGED <<asked, callbacks, running, told>>,
           NEW q \in queries, NEW kind \in Kinds, NEW k \in Keys,
           AsksNext(q, kind, k),
           persist' \subseteq Lookups \X Kinds,
           \A r \in queries : r # q =>
              (<<r.n, r.kind>> \in persist => <<r.n, r.kind>> \in persist'),
           kind # "browse" /\ k.node # "" => <<q.n, kind>> \in persist',
           stranded \subseteq stranded' /\ stranded' \subseteq Lookups,
           k = q.key \/ q.n \in stranded'
    PROVE  LookupInv'
<1> USE DEF LookupInv
<1> DEFINE new == [n |-> q.n, kind |-> kind, key |-> k]
<1>1. Lookups' = Lookups
  BY DEF Lookups
<1>2. queries' = (queries \ {q}) \union {new}
  BY DEF AsksNext
<1>3. new \in [n : Lookups, kind : Kinds, key : Keys]
  BY DEF LookupsOK
<1>4. new.n = q.n /\ new.kind = kind /\ new.key = k
  OBVIOUS
<1> HIDE DEF new
<1>a. LookupsOK'
  BY <1>1, <1>2, <1>3, <1>4 DEF LookupsOK
<1>b. LeftIsRunning' /\ NothingIsLost'
  BY <1>1 DEF LeftIsRunning, NothingIsLost
<1>c. NodesAreRemembered'
  BY <1>2, <1>4 DEF NodesAreRemembered
<1>d. OwnQueryIsUnderWay'
  BY <1>2, <1>4 DEF OwnQueryIsUnderWay
<1> QED  BY <1>a, <1>b, <1>c, <1>d

\* A query that is answered for good, by an Item of a key.
LEMMA AnswerKeepsLookups ==
    ASSUME LookupInv, UNCHANGED <<asked, callbacks, told>>,
           running.phase = "none",
           NEW q \in queries, queries' = queries \ {q},
           persist' \subseteq persist,
           \A r \in queries : r # q =>
              (<<r.n, r.kind>> \in persist => <<r.n, r.kind>> \in persist'),
           stranded \subseteq stranded' /\ stranded' \subseteq Lookups,
           NEW k \in Keys \union {Nobody},
           RunCallbacks(k) \/ UNCHANGED running,
           q.n \in stranded' \/ (RunCallbacks(k) /\ k = q.key)
    PROVE  LookupInv'
<1> USE DEF LookupInv
<1>1. Lookups' = Lookups
  BY DEF Lookups
<1>2. \/ running' = running
      \/ /\ running' \in [phase : Phases, key : Keys \union {Nobody}, left : SUBSET Lookups]
         /\ running'.phase = "signal"
         /\ running'.key = k
         /\ running'.left = {}
  BY DEF RunCallbacks, Phases
<1>3. running.left = {} /\ running'.left = {}
  BY <1>2 DEF LeftIsRunning
<1>a. LookupsOK'
  BY <1>1, <1>2 DEF LookupsOK
<1>b. LeftIsRunning' /\ NothingIsLost'
  BY <1>1, <1>3 DEF LeftIsRunning, NothingIsLost
<1>c. NodesAreRemembered'
  BY DEF NodesAreRemembered
<1>d. OwnQueryIsUnderWay'
  <2>1. RunCallbacks(k) => running'.phase = "signal" /\ running'.key = k
    BY DEF RunCallbacks
  <2> QED  BY <2>1 DEF OwnQueryIsUnderWay
<1> QED  BY <1>a, <1>b, <1>c, <1>d

LEMMA StepLookups ==
    ASSUME IInv, [Next]_vars
    PROVE  LookupInv'
<1> USE DEF IInv
<1>q. \A q \in queries : q.n \in Lookups /\ q.kind \in Kinds /\ q.key \in Keys
  BY DEF LookupInv, LookupsOK
<1>p. persist \subseteq Lookups \X Kinds /\ stranded \subseteq Lookups
  BY DEF LookupInv, LookupsOK
<1>u. \A q, r \in queries : q.n = r.n => q = r
  BY DEF LookupInv, LookupsOK
<1>1. CASE Cache
  BY <1>1, CacheKeepsLookups
<1>2. CASE DiscoInfo
  <2>1. PICK q \in queries, echo \in BOOLEAN :
           /\ q.kind = "info"
           /\ queries' = queries \ {q}
           /\ persist' = Forgotten(q)
           /\ RunCallbacks(AnswersFor(q, echo))
           /\ running.phase = "none"
           /\ UNCHANGED <<callbacks, asked, told, stranded>>
    BY <1>2 DEF DiscoInfo, Answered
  <2>2. AnswersFor(q, echo) = q.key
    BY <2>1, AnswerIsAboutTheQuery
  <2>3. \A r \in queries : r # q =>
           (<<r.n, r.kind>> \in persist => <<r.n, r.kind>> \in persist')
    BY <1>u, <2>1 DEF Forgotten
  <2>4. persist' \subseteq persist
    BY <2>1 DEF Forgotten
  <2> QED  BY <1>p, <1>q, <2>1, <2>2, <2>3, <2>4, AnswerKeepsLookups
<1>3. CASE DiscoItems
  <2>1. PICK q \in queries, echo \in BOOLEAN :
           /\ q.kind = "items"
           /\ AsksNext(q, "info", AnswersFor(q, echo))
           /\ persist' = Forgotten(q) \union Remembered(q.n, "info", AnswersFor(q, echo))
           /\ UNCHANGED <<callbacks, running, asked, told, stranded>>
    BY <1>3 DEF DiscoItems
  <2>2. AnswersFor(q, echo) = q.key
    BY <2>1, AnswerIsAboutTheQuery
  <2>3. \A r \in queries : r # q =>
           (<<r.n, r.kind>> \in persist => <<r.n, r.kind>> \in persist')
    BY <1>u, <2>1 DEF Forgotten
  <2>4. Remembered(q.n, "info", q.key) \subseteq Lookups \X Kinds
    <3>1. <<q.n, "info">> \in Lookups \X Kinds
      BY <1>q DEF Kinds
    <3> QED  BY <3>1 DEF Remembered
  <2>5. persist' \subseteq Lookups \X Kinds
    BY <1>p, <2>1, <2>2, <2>4 DEF Forgotten
  <2>6. q.key.node # "" => <<q.n, "info">> \in persist'
    BY <2>1, <2>2 DEF Remembered
  <2>7. "info" \in Kinds
    BY DEF Kinds
  <2> QED  BY <1>p, <1>q, <2>1, <2>2, <2>3, <2>5, <2>6, <2>7, NextQueryKeepsLookups
<1>4. CASE DiscoError
  <2>1. PICK q \in queries :
           /\ AsksNext(q, "browse", [q.key EXCEPT !.node = ""])
           /\ stranded' = IF q.key.node = "" THEN stranded ELSE stranded \union {q.n}
           /\ UNCHANGED <<callbacks, persist, running, asked, told>>
    BY <1>4 DEF DiscoError
  <2> DEFINE k == [q.key EXCEPT !.node = ""]
  <2>2. k \in Keys /\ (q.key.node = "" => k = q.key)
    BY <1>q, BareKey
  <2> HIDE DEF k
  <2>3. AsksNext(q, "browse", k)
    BY <2>1 DEF k
  <2>4. /\ stranded \subseteq stranded' /\ stranded' \subseteq Lookups
        /\ k = q.key \/ q.n \in stranded'
    BY <1>p, <1>q, <2>1, <2>2
  <2>5. "browse" \in Kinds
    BY DEF Kinds
  <2> QED  BY <1>p, <2>1, <2>2, <2>3, <2>4, <2>5, NextQueryKeepsLookups
<1>5. CASE Browse
  <2>1. PICK q \in queries :
           /\ queries' = queries \ {q}
           /\ RunCallbacks(q.key)
           /\ running.phase = "none"
           /\ UNCHANGED <<callbacks, persist, asked, told, stranded>>
    BY <1>5 DEF Browse, Answered
  <2> QED  BY <1>p, <1>q, <2>1, AnswerKeepsLookups
<1>6. CASE BrowseError
  <2>1. PICK q \in queries :
           /\ queries' = queries \ {q}
           /\ stranded' = stranded \union {q.n}
           /\ RunCallbacks(Nobody) \/ UNCHANGED running
           /\ running.phase = "none"
           /\ UNCHANGED <<callbacks, persist, asked, told>>
    BY <1>6 DEF BrowseError, Answered
  <2> QED  BY <1>p, <1>q, <2>1, AnswerKeepsLookups
<1>7. CASE TakeCallbacks
  <2>1. /\ running.phase = "signal"
        /\ running.left = {}
        /\ callbacks' = callbacks \ Waiting(running.key)
        /\ CallWith(Waiting(running.key))
        /\ UNCHANGED <<persist, queries, asked, told, stranded>>
    BY <1>7 DEF TakeCallbacks, LookupInv, LeftIsRunning
  <2>2. Lookups' = Lookups /\ Waiting(running.key) \subseteq callbacks
    BY <2>1 DEF Lookups, Waiting
  <2>3. /\ running' \in [phase : Phases, key : Keys \union {Nobody}, left : SUBSET Lookups]
        /\ running'.left = Waiting(running.key)
        /\ running'.phase # "callbacks" => running'.left = {}
    BY <2>1, <2>2 DEF CallWith, Idle, Phases, LookupInv, LookupsOK
  <2>a. LookupsOK' /\ LeftIsRunning'
    BY <2>1, <2>2, <2>3 DEF LookupInv, LookupsOK, LeftIsRunning
  <2>b. NothingIsLost'
    BY <2>1, <2>2, <2>3 DEF LookupInv, NothingIsLost
  <2>c. NodesAreRemembered'
    BY <2>1 DEF LookupInv, NodesAreRemembered
  <2>d. OwnQueryIsUnderWay'
    BY <2>1 DEF LookupInv, OwnQueryIsUnderWay, Waiting
  <2> QED  BY <2>a, <2>b, <2>c, <2>d DEF LookupInv
<1>8. CASE RunCallback
  <2>1. PICK n \in running.left :
           /\ running.phase = "callbacks"
           /\ told' = told \union {n}
           /\ CallWith(running.left \ {n})
           /\ UNCHANGED <<callbacks, persist, queries, asked, stranded>>
    BY <1>8 DEF RunCallback
  <2>2. Lookups' = Lookups
    BY <2>1 DEF Lookups
  <2>3. /\ running' \in [phase : Phases, key : Keys \union {Nobody}, left : SUBSET Lookups]
        /\ running'.left = running.left \ {n}
        /\ running'.phase # "callbacks" => running'.left = {}
    BY <2>1 DEF CallWith, Idle, Phases, LookupInv, LookupsOK
  <2>a. LookupsOK' /\ LeftIsRunning'
    BY <2>1, <2>2, <2>3 DEF LookupInv, LookupsOK, LeftIsRunning
  <2>b. NothingIsLost'
    BY <2>1, <2>2, <2>3 DEF LookupInv, NothingIsLost
  <2>c. NodesAreRemembered'
    BY <2>1 DEF LookupInv, NodesAreRemembered
  <2>d. OwnQueryIsUnderWay'
    BY <2>1 DEF LookupInv, OwnQueryIsUnderWay
  <2> QED  BY <2>a, <2>b, <2>c, <2>d DEF LookupInv
<1>9. CASE UNCHANGED <<callbacks, persist, queries, running, asked, told, stranded>>
  BY <1>9 DEF LookupInv, LookupsOK, LeftIsRunning, NothingIsLost,
     NodesAreRemembered, OwnQueryIsUnderWay, Lookups
<1> QED
  BY <1>1, <1>2, <1>3, <1>4, <1>5, <1>6, <1>7, <1>8, <1>9
  DEF Next, Answer, Clear, Erase, vars

-----------------------------------------------------------------------------
(* What the Items say of their state. *)

IsQueried(k) == k \in DOMAIN items /\ "stQuerying" \in items[k].flags

\* An Item says that it is being queried on behalf of a lookup of its key, whose
\* own query is on its way or stranded.
QueriedForLookup ==
    \A k \in DOMAIN items : IsQueried(k) =>
        \E n \in Lookups :
            /\ asked[n] = k
            /\ n \in stranded \/ \E q \in queries : q.n = n /\ q.key = k

\* A step that starts no lookup and sets no Item to being queried, and takes a
\* query away only with an answer to its key or as stranded.
LEMMA NotQueriedAnew ==
    ASSUME QueriedForLookup, asked' = asked, stranded \subseteq stranded',
           \A k \in DOMAIN items' : IsQueried(k)' => IsQueried(k),
           \A q \in queries :
               \/ \E r \in queries' : r.n = q.n /\ r.key = q.key
               \/ ~IsQueried(q.key)'
               \/ q.n \in stranded'
    PROVE  QueriedForLookup'
<1> SUFFICES ASSUME NEW k \in DOMAIN items', IsQueried(k)'
             PROVE  \E n \in Lookups :
                       /\ asked[n] = k
                       /\ n \in stranded' \/ \E q \in queries' : q.n = n /\ q.key = k
  BY DEF QueriedForLookup, Lookups
<1>1. PICK n \in Lookups :
         /\ asked[n] = k
         /\ n \in stranded \/ \E q \in queries : q.n = n /\ q.key = k
  BY DEF QueriedForLookup, IsQueried
<1> QED  BY <1>1

LEMMA NextQueryAsked ==
    ASSUME NEW q, NEW kind, NEW k, AsksNext(q, kind, k)
    PROVE  /\ \E s \in queries' : s.n = q.n /\ s.key = k
           /\ \A r \in queries : r = q \/ r \in queries'
<1> DEFINE new == [n |-> q.n, kind |-> kind, key |-> k]
<1>1. queries' = (queries \ {q}) \union {new}
  BY DEF AsksNext
<1>2. new.n = q.n /\ new.key = k
  OBVIOUS
<1> HIDE DEF new
<1> QED  BY <1>1, <1>2

LEMMA StepQueried ==
    ASSUME IInv, QueriedForLookup, [Next]_vars
    PROVE  QueriedForLookup'
<1>q. LookupInv /\ \A q \in queries : q.key \in Keys
  BY DEF IInv, LookupInv, LookupsOK
<1>1. CASE Cache
  <2>1. PICK k \in Keys, kind \in {"items", "info"} :
          /\ asked' = Append(asked, k)
          /\ items' = Put(items, {k}, [Found(k) EXCEPT !.flags = {"stQuerying"}])
          /\ queries' = queries \union {[n |-> Len(asked) + 1, kind |-> kind, key |-> k]}
          /\ UNCHANGED stranded
    BY <1>1 DEF Cache
  <2>2. /\ asked \in Seq(Keys)
        /\ Len(asked) \in Nat
    BY <1>q, LenProperties DEF LookupInv, LookupsOK
  <2> DEFINE n == Len(asked) + 1
  <2>3. /\ Len(asked') = n
        /\ \A i \in Lookups : asked'[i] = asked[i]
        /\ asked'[n] = k
    BY <2>1, <2>2, AppendProperties DEF Lookups
  <2>4. Lookups' = Lookups \union {n}
    BY <2>2, <2>3 DEF Lookups
  <2>5. \E q \in queries' : q.n = n /\ q.key = k
    <3> DEFINE new == [n |-> n, kind |-> kind, key |-> k]
    <3>1. new \in queries'
      BY <2>1
    <3>2. new.n = n /\ new.key = k
      OBVIOUS
    <3> QED  BY <3>1, <3>2
  <2>6. queries \subseteq queries'
    BY <2>1
  <2>7. \A j \in DOMAIN items' : j # k => j \in DOMAIN items /\ items'[j] = items[j]
    BY <2>1 DEF Put
  <2> HIDE DEF n
  <2>8. ASSUME NEW j \in DOMAIN items', IsQueried(j)'
        PROVE  \E i \in Lookups' :
                  /\ asked'[i] = j
                  /\ i \in stranded' \/ \E q \in queries' : q.n = i /\ q.key = j
    <3>1. CASE j = k
      BY <2>3, <2>4, <2>5, <3>1
    <3>2. CASE j # k
      <4>1. j \in DOMAIN items /\ IsQueried(j)
        BY <2>7, <2>8, <3>2 DEF IsQueried
      <4>2. PICK i \in Lookups :
               /\ asked[i] = j
               /\ i \in stranded \/ \E q \in queries : q.n = i /\ q.key = j
        BY <4>1 DEF QueriedForLookup
      <4> QED  BY <2>1, <2>3, <2>4, <2>6, <4>2
    <3> QED  BY <3>1, <3>2
  <2> QED  BY <2>8 DEF QueriedForLookup
<1>2. CASE Clear
  BY <1>2, NotQueriedAnew DEF Clear, IsQueried
<1>3. CASE Erase
  BY <1>3, NotQueriedAnew DEF Erase, IsQueried
<1>4. CASE DiscoInfo
  <2>1. PICK q \in queries, echo \in BOOLEAN :
           /\ q.kind = "info"
           /\ items' = Put(items, {AnswersFor(q, echo)},
                           [Found(AnswersFor(q, echo)) EXCEPT
                              !.flags = (@ \intersect Ready) \union {"stInfo"}])
           /\ queries' = queries \ {q}
           /\ UNCHANGED <<asked, stranded>>
    BY <1>4 DEF DiscoInfo
  <2> DEFINE item == [Found(q.key) EXCEPT !.flags = (@ \intersect Ready) \union {"stInfo"}]
  <2>2. AnswersFor(q, echo) = q.key
    BY <1>q, <2>1, AnswerIsAboutTheQuery
  <2>3. "stQuerying" \notin item.flags
    BY FoundItem DEF IInv, Ready
  <2>4. items' = Put(items, {q.key}, item)
    BY <2>1, <2>2
  <2> HIDE DEF item
  <2>5. /\ ~IsQueried(q.key)'
        /\ \A k \in DOMAIN items' : IsQueried(k)' => IsQueried(k)
    BY <2>3, <2>4 DEF IsQueried, Put
  <2> QED  BY <2>1, <2>5, NotQueriedAnew
<1>5. CASE DiscoItems
  <2>1. PICK q \in queries, echo \in BOOLEAN, listing \in Listings :
           /\ q.kind = "items"
           /\ items' = Put(Put(items, listing \ DOMAIN items, Fresh),
                           {AnswersFor(q, echo)},
                           [flags |-> {"stItems"}, children |-> listing])
           /\ AsksNext(q, "info", AnswersFor(q, echo))
           /\ UNCHANGED <<asked, stranded>>
    BY <1>5 DEF DiscoItems
  <2>2. AnswersFor(q, echo) = q.key
    BY <1>q, <2>1, AnswerIsAboutTheQuery
  <2>3. \A k \in DOMAIN items' : IsQueried(k)' => IsQueried(k)
    BY <2>1, <2>2 DEF IsQueried, Put, Fresh
  <2>4. \A r \in queries : \E s \in queries' : s.n = r.n /\ s.key = r.key
    BY <2>1, <2>2, NextQueryAsked
  <2> QED  BY <2>1, <2>3, <2>4, NotQueriedAnew
<1>6. CASE DiscoError
  <2>1. PICK q \in queries :
           /\ AsksNext(q, "browse", [q.key EXCEPT !.node = ""])
           /\ stranded' = IF q.key.node = "" THEN stranded ELSE stranded \union {q.n}
           /\ UNCHANGED <<items, asked>>
    BY <1>6 DEF DiscoError
  <2>2. q.key.node = "" => [q.key EXCEPT !.node = ""] = q.key
    BY <1>q, BareKey
  <2>3. \A r \in queries :
           \/ \E s \in queries' : s.n = r.n /\ s.key = r.key
           \/ r.n \in stranded'
    <3> DEFINE k == [q.key EXCEPT !.node = ""]
    <3>1. AsksNext(q, "browse", k)
      BY <2>1
    <3>2. q.key.node = "" => k = q.key
      BY <2>2
    <3> HIDE DEF k
    <3>3. /\ \E s \in queries' : s.n = q.n /\ s.key = k
          /\ \A r \in queries : r = q \/ r \in queries'
      BY <3>1, NextQueryAsked
    <3> QED  BY <2>1, <3>2, <3>3
  <2>4. \A k \in DOMAIN items' : IsQueried(k)' => IsQueried(k)
    BY <2>1 DEF IsQueried
  <2> QED  BY <2>1, <2>3, <2>4, NotQueriedAnew
<1>7. CASE Browse
  <2>1. PICK q \in queries, listing \in Listings :
           /\ items' = Put(Put(items, {c \in listing : c.node = "" /\ c # q.key},
                               [flags |-> Ready, children |-> {}]),
                           {q.key},
                           [flags |-> Ready,
                            children |-> {c \in listing : c.node = "" /\ c # q.key}])
           /\ queries' = queries \ {q}
           /\ UNCHANGED <<asked, stranded>>
    BY <1>7 DEF Browse
  <2> DEFINE below == {c \in listing : c.node = "" /\ c # q.key}
  <2>2. items' = Put(Put(items, below, [flags |-> Ready, children |-> {}]),
                     {q.key}, [flags |-> Ready, children |-> below])
    BY <2>1
  <2> HIDE DEF below
  <2>3. /\ ~IsQueried(q.key)'
        /\ \A k \in DOMAIN items' : IsQueried(k)' => IsQueried(k)
    BY <2>2 DEF IsQueried, Put, Ready
  <2> QED  BY <2>1, <2>3, NotQueriedAnew
<1>8. CASE BrowseError
  <2>1. PICK q \in queries :
           /\ queries' = queries \ {q}
           /\ stranded' = stranded \union {q.n}
           /\ \/ items' = Put(items, {Nobody}, [flags |-> Ready, children |-> {}])
              \/ UNCHANGED items
           /\ UNCHANGED asked
    BY <1>8 DEF BrowseError
  <2>2. \A k \in DOMAIN items' : IsQueried(k)' => IsQueried(k)
    BY <2>1 DEF IsQueried, Put, Ready
  <2> QED  BY <2>1, <2>2, NotQueriedAnew
<1>9. CASE UNCHANGED <<items, queries, asked, stranded>>
  BY <1>9 DEF QueriedForLookup, IsQueried, Lookups
<1> QED
  BY <1>1, <1>2, <1>3, <1>4, <1>5, <1>6, <1>7, <1>8, <1>9
  DEF Next, Answer, TakeCallbacks, RunCallback, vars

-----------------------------------------------------------------------------
\* The state stays in the invariant.
THEOREM Invariance == Spec => []IInv
<1>1. Init => IInv
  BY InitCache, InitLookups DEF IInv
<1>2. IInv /\ [Next]_vars => IInv'
  BY StepCache, StepLookups DEF IInv
<1> QED  BY <1>1, <1>2, PTL DEF Spec

\* The fields of the DiscoDB keep their types, and a lookup asks one query at
\* a time, whatever cache(), clear(), erase() and the answers do.
THEOREM TypeOKAlways == Spec => []TypeOK
<1>1. IInv => TypeOK
  BY DEF IInv, CacheInv, LookupInv, ItemsOK, LookupsOK, TypeOK
<1> QED  BY <1>1, Invariance, PTL

\* runCallbacks() takes the callbacks off the map before it runs them: none is
\* lost or run twice, whatever they and the handlers of signal_new_item call.
THEOREM NothingIsLostAlways == Spec => []NothingIsLost
<1>1. IInv => NothingIsLost
  BY DEF IInv, LookupInv
<1> QED  BY <1>1, Invariance, PTL

\* A callback of cache() waits for a query of its key that is on its way, even
\* if answers leave out the node, unless its own query is stranded.
THEOREM LookupIsUnderWayAlways == Spec => []LookupIsUnderWay
<1>1. IInv => LookupIsUnderWay
  BY DEF IInv, LookupInv, OwnQueryIsUnderWay, LookupIsUnderWay
<1> QED  BY <1>1, Invariance, PTL

\* The pointers that discoItemsCB() and browseCB() put in an Item lead to Items
\* of the cache, after clear(), erase() and second answers too.
THEOREM ChildrenAreThereAlways == Spec => []ChildrenAreThere
<1>1. IInv => ChildrenAreThere
  BY DEF IInv, CacheInv
<1> QED  BY <1>1, Invariance, PTL

\* An Item that says it is being queried is, by the query of a lookup of its key,
\* unless that one is stranded: errors, second answers and answers to other
\* lookups of the key leave no Item that says so for ever.
THEOREM QueryingIsTrueAlways == Spec => []QueryingIsTrue
<1>1. Init => QueriedForLookup
  BY DEF Init, QueriedForLookup
<1>2. IInv /\ QueriedForLookup /\ [Next]_vars => QueriedForLookup'
  BY StepQueried
<1>3. QueriedForLookup => QueryingIsTrue
  BY DEF QueriedForLookup, IsQueried, QueryingIsTrue, Lookups
<1>4. Spec => []QueriedForLookup
  BY <1>1, <1>2, Invariance, PTL DEF Spec
<1> QED  BY <1>3, <1>4, PTL

-----------------------------------------------------------------------------
(* JabberIDs, as they are written.  What is said of them elsewhere (in DiscoDB, *)
(* PresenceDB and Roster a JabberID is a value, or a record of values) rests on  *)
(* what is proved here: compare() = 0 is an equality, and the parts are found.   *)

\* The character at i, and one below all characters behind the end.
CharAt(s, i) == IF i <= Len(s) THEN s[i] ELSE -1

\* s is in front of t, by what is at their first difference.
DiffersAt(s, t, i) ==
    /\ i \in Nat \ {0}
    /\ \A k \in 1..(i - 1) : CharAt(s, k) = CharAt(t, k)
    /\ CharAt(s, i) < CharAt(t, i)
Before(s, t) == \E i \in Nat : DiffersAt(s, t, i)

\* The end of a text is told from its characters.
LEMMA CharAtIsInt ==
    ASSUME NEW s \in Seq(Nat), NEW i \in Nat \ {0}
    PROVE  CharAt(s, i) \in Int /\ (i <= Len(s) <=> CharAt(s, i) # -1)
<1>1. CASE i <= Len(s)
  <2>1. i \in 1..Len(s)
    BY <1>1, LenProperties
  <2>2. s[i] \in Nat
    BY <2>1, ElementOfSeq
  <2>3. CharAt(s, i) = s[i]
    BY <1>1 DEF CharAt
  <2> QED  BY <1>1, <2>2, <2>3
<1>2. CASE ~(i <= Len(s))
  BY <1>2 DEF CharAt
<1> QED  BY <1>1, <1>2

\* The earlier of two first differences decides.
LEMMA BeforeIsTransitive ==
    ASSUME NEW s \in Seq(Nat), NEW t \in Seq(Nat), NEW u \in Seq(Nat),
           Before(s, t), Before(t, u)
    PROVE  Before(s, u)
<1>1. PICK i \in Nat : DiffersAt(s, t, i)
  BY DEF Before
<1>2. PICK j \in Nat : DiffersAt(t, u, j)
  BY DEF Before
<1> DEFINE m == IF i < j THEN i ELSE j
<1>3. m \in Nat \ {0} /\ m <= i /\ m <= j /\ (m = i \/ m = j)
  BY <1>1, <1>2 DEF DiffersAt
<1> HIDE DEF m
<1>4. \A k \in 1..(m - 1) : CharAt(s, k) = CharAt(t, k) /\ CharAt(t, k) = CharAt(u, k)
  <2>1. \A k \in 1..(m - 1) : k \in 1..(i - 1) /\ k \in 1..(j - 1)
    BY <1>3
  <2> QED  BY <1>1, <1>2, <2>1 DEF DiffersAt
<1>5. CharAt(s, m) \in Int /\ CharAt(t, m) \in Int /\ CharAt(u, m) \in Int
  BY <1>3, CharAtIsInt
<1>6. CharAt(s, m) <= CharAt(t, m) /\ CharAt(t, m) <= CharAt(u, m)
      /\ (CharAt(s, m) < CharAt(t, m) \/ CharAt(t, m) < CharAt(u, m))
  <2>1. (m < i => m \in 1..(i - 1)) /\ (m < j => m \in 1..(j - 1))
    BY <1>3
  <2>2. m = i => CharAt(s, m) < CharAt(t, m)
    BY <1>1 DEF DiffersAt
  <2>3. m < i => CharAt(s, m) = CharAt(t, m)
    BY <1>1, <2>1 DEF DiffersAt
  <2>4. m = j => CharAt(t, m) < CharAt(u, m)
    BY <1>2 DEF DiffersAt
  <2>5. m < j => CharAt(t, m) = CharAt(u, m)
    BY <1>2, <2>1 DEF DiffersAt
  <2>6. (m = i \/ m < i) /\ (m = j \/ m < j)
    BY <1>3
  <2> QED  BY <1>3, <1>5, <2>2, <2>3, <2>4, <2>5, <2>6
<1>7. CharAt(s, m) < CharAt(u, m)
  BY <1>5, <1>6
<1>8. DiffersAt(s, u, m)
  BY <1>3, <1>4, <1>7 DEF DiffersAt
<1> QED  BY <1>3, <1>8 DEF Before

\* A text is not in front of itself, nor of one that is in front of it.
LEMMA BeforeIsStrict ==
    ASSUME NEW s \in Seq(Nat), NEW t \in Seq(Nat), Before(s, t)
    PROVE  ~Before(t, s) /\ s # t
<1>1. ASSUME NEW u \in Seq(Nat), Before(u, u) PROVE FALSE
  <2>1. PICK i \in Nat : DiffersAt(u, u, i)
    BY <1>1 DEF Before
  <2>2. i \in Nat \ {0} /\ CharAt(u, i) < CharAt(u, i)
    BY <2>1 DEF DiffersAt
  <2>3. CharAt(u, i) \in Int
    BY <2>2, CharAtIsInt
  <2> QED  BY <2>2, <2>3
<1> QED  BY <1>1, BeforeIsTransitive

\* What Compared says.
Says(c, s, t) ==
    \/ c = -1 /\ Before(s, t)
    \/ c = 1 /\ Before(t, s)
    \/ c = 0 /\ s = t

\* strcmp() and its kin tell which of two texts is in front, or that they are the same.
LEMMA ComparedSays ==
    ASSUME NEW s \in Seq(Nat), NEW t \in Seq(Nat)
    PROVE  Says(StringCompare(s, t), s, t)
<1> DEFINE n == IF Len(s) < Len(t) THEN Len(s) ELSE Len(t)
           apart == {i \in 1..n : s[i] # t[i]}
           first == CHOOSE i \in apart : \A j \in apart : i <= j
           c == StringCompare(s, t)
<1>1. Len(s) \in Nat /\ Len(t) \in Nat /\ n \in Nat /\ n <= Len(s) /\ n <= Len(t)
  BY LenProperties
<1>2. c = IF apart # {} THEN IF s[first] < t[first] THEN -1 ELSE 1
          ELSE IF Len(s) < Len(t) THEN -1 ELSE IF Len(s) > Len(t) THEN 1 ELSE 0
  BY DEF StringCompare
<1> HIDE DEF c
<1>3. \A i \in 1..n : /\ i \in Nat \ {0} /\ i \in 1..Len(s) /\ i \in 1..Len(t)
                      /\ CharAt(s, i) = s[i] /\ CharAt(t, i) = t[i]
  BY <1>1 DEF CharAt
<1>4. CASE apart # {}
  <2>1. apart \subseteq Nat
    BY <1>1
  <2>2. \E i \in apart : \A j \in apart : i <= j
    <3> HIDE DEF apart
    <3> QED  BY <1>4, <2>1, LeastNatural
  <2>3. first \in apart /\ \A j \in apart : first <= j
    <3> HIDE DEF apart
    <3> QED  BY <2>2
  <2>4. PICK f : f = first
    OBVIOUS
  <2> HIDE DEF first
  <2>5. f \in 1..n /\ s[f] # t[f] /\ f \in Nat \ {0}
    BY <2>3, <2>4
  <2>6. \A k \in 1..(f - 1) : k \in 1..n /\ s[k] = t[k]
    <3>1. ASSUME NEW k \in 1..(f - 1), k \in apart PROVE FALSE
      BY <2>3, <2>4, <2>5, <3>1
    <3>2. \A k \in 1..(f - 1) : k \in 1..n
      <4>1. n \in Nat /\ f \in 1..n
        BY <1>1, <2>5
      <4> HIDE DEF n, apart
      <4> QED  BY <4>1
    <3> QED  BY <3>1, <3>2
  <2>7. \A k \in 1..(f - 1) : CharAt(s, k) = CharAt(t, k)
    BY <1>3, <2>6
  <2>8. CharAt(s, f) = s[f] /\ CharAt(t, f) = t[f] /\ s[f] \in Nat /\ t[f] \in Nat
    BY <1>3, <2>5, ElementOfSeq
  <2>9. CASE s[f] < t[f]
    <3>1. DiffersAt(s, t, f)
      BY <2>5, <2>7, <2>8, <2>9 DEF DiffersAt
    <3>2. c = -1
      BY <1>2, <1>4, <2>4, <2>9
    <3> QED  BY <2>5, <3>1, <3>2 DEF c, Says, Before
  <2>10. CASE ~(s[f] < t[f])
    <3>1. CharAt(t, f) < CharAt(s, f)
      BY <2>5, <2>8, <2>10
    <3>2. DiffersAt(t, s, f)
      BY <2>5, <2>7, <3>1 DEF DiffersAt
    <3>3. c = 1
      BY <1>2, <1>4, <2>4, <2>10
    <3> QED  BY <2>5, <3>2, <3>3 DEF c, Says, Before
  <2> QED  BY <2>9, <2>10
<1>5. CASE apart = {}
  <2>1. \A i \in 1..n : s[i] = t[i] /\ CharAt(s, i) = CharAt(t, i)
    BY <1>3, <1>5
  <2>2. c = IF Len(s) < Len(t) THEN -1 ELSE IF Len(s) > Len(t) THEN 1 ELSE 0
    BY <1>2, <1>5
  <2>3. CASE Len(s) < Len(t)
    <3>1. n = Len(s) /\ n + 1 \in Nat \ {0} /\ n + 1 \in 1..Len(t) /\ (n + 1) - 1 = n
      BY <1>1, <2>3
    <3>2. CharAt(s, n + 1) = -1 /\ CharAt(t, n + 1) = t[n + 1]
      BY <1>1, <3>1 DEF CharAt
    <3>3. t[n + 1] \in Nat
      BY <3>1, ElementOfSeq
    <3> HIDE DEF n
    <3>4. DiffersAt(s, t, n + 1)
      BY <2>1, <3>1, <3>2, <3>3 DEF DiffersAt
    <3>5. c = -1
      BY <2>2, <2>3
    <3> QED  BY <3>1, <3>4, <3>5 DEF c, Says, Before
  <2>4. CASE Len(s) > Len(t)
    <3>1. n = Len(t) /\ n + 1 \in Nat \ {0} /\ n + 1 \in 1..Len(s) /\ (n + 1) - 1 = n
      BY <1>1, <2>4
    <3>2. CharAt(t, n + 1) = -1 /\ CharAt(s, n + 1) = s[n + 1]
      BY <1>1, <3>1 DEF CharAt
    <3>3. s[n + 1] \in Nat
      BY <3>1, ElementOfSeq
    <3> HIDE DEF n
    <3>4. DiffersAt(t, s, n + 1)
      BY <2>1, <3>1, <3>2, <3>3 DEF DiffersAt
    <3>5. c = 1
      BY <1>1, <2>2, <2>4
    <3> QED  BY <3>1, <3>4, <3>5 DEF c, Says, Before
  <2>5. CASE Len(s) = Len(t)
    <3>1. n = Len(s)
      BY <2>5
    <3>2. s = t
      BY <2>1, <2>5, <3>1, SeqEqual
    <3>3. c = 0
      BY <1>1, <2>2, <2>5
    <3> QED  BY <3>2, <3>3 DEF c, Says
  <2> QED  BY <1>1, <2>3, <2>4, <2>5
<1> QED  BY <1>4, <1>5

\* What it says is all there is to say of two sequences.
LEMMA ComparedIs ==
    ASSUME NEW s \in Seq(Nat), NEW t \in Seq(Nat)
    PROVE  /\ StringCompare(s, t) \in {-1, 0, 1}
           /\ StringCompare(s, t) = 0 <=> s = t
           /\ StringCompare(s, t) < 0 <=> Before(s, t)
           /\ Before(s, t) \/ Before(t, s) \/ s = t
<1> DEFINE c == StringCompare(s, t)
<1>1. Says(c, s, t)
  BY ComparedSays
<1> HIDE DEF c
<1>2. ~(Before(s, t) /\ Before(t, s)) /\ (Before(s, t) \/ Before(t, s) => s # t)
  BY BeforeIsStrict
<1> QED  BY <1>1, <1>2 DEF Says, c

-----------------------------------------------------------------------------
(* Taking JabberIDs apart.                                                   *)

\* find() finds the first one, or there is none.
LEMMA FindIs ==
    ASSUME NEW s \in Seq(Nat), NEW c
    PROVE  \/ Find(s, c) = 0 /\ \A i \in 1..Len(s) : s[i] # c
           \/ /\ Find(s, c) \in 1..Len(s) /\ s[Find(s, c)] = c
              /\ \A i \in 1..Len(s) : s[i] = c => Find(s, c) <= i
<1> DEFINE found == {i \in 1..Len(s) : s[i] = c}
           f == CHOOSE i \in found : \A j \in found : i <= j
<1>1. Find(s, c) = IF found = {} THEN 0 ELSE f
  BY DEF Find
<1>2. CASE found = {}
  BY <1>1, <1>2
<1>3. CASE found # {}
  <2>1. found \subseteq Nat
    BY LenProperties
  <2>2. \E i \in found : \A j \in found : i <= j
    <3> HIDE DEF found
    <3> QED  BY <1>3, <2>1, LeastNatural
  <2>3. f \in found /\ \A j \in found : f <= j
    <3> HIDE DEF found
    <3> QED  BY <2>2
  <2> HIDE DEF f
  <2> QED  BY <1>1, <1>3, <2>3
<1> QED  BY <1>2, <1>3

\* What has c at i and nowhere before is found at i.
LEMMA FoundIsFirst ==
    ASSUME NEW s \in Seq(Nat), NEW c, NEW i \in 1..Len(s), s[i] = c,
           \A k \in 1..(i - 1) : s[k] # c
    PROVE  Find(s, c) = i
<1>1. Len(s) \in Nat
  BY LenProperties
<1>2. Find(s, c) \in 1..Len(s) /\ s[Find(s, c)] = c /\ Find(s, c) <= i
  BY FindIs
<1>3. Find(s, c) \notin 1..(i - 1)
  BY <1>2
<1> QED  BY <1>1, <1>2, <1>3

\* Any part of a JabberID is a sequence of characters.
LEMMA PartIs ==
    ASSUME NEW s \in Seq(Nat), NEW m \in Nat \ {0}, NEW n \in Int, n <= Len(s)
    PROVE  /\ SubSeq(s, m, n) \in Seq(Nat)
           /\ Len(SubSeq(s, m, n)) = IF m <= n THEN n - m + 1 ELSE 0
           /\ \A i \in 1..(n - m + 1) : SubSeq(s, m, n)[i] = s[m + i - 1]
<1>1. \A i \in m..n : i \in 1..Len(s)
  BY LenProperties
<1>2. \A i \in m..n : s[i] \in Nat
  BY <1>1, ElementOfSeq
<1> QED  BY <1>2, SubSeqProperties

\* Parts of a text are texts.
LEMMA PartsAre ==
    ASSUME NEW s \in Seq(Nat)
    PROVE  /\ GetUserHost(s) \in Seq(Nat)
           /\ GetResource(s) \in Seq(Nat)
           /\ Lowered(s) \in Seq(Nat)
<1>0. PICK i \in Nat : i = Find(s, Slash) /\ i <= Len(s)
  BY FindIs, LenProperties
<1>1. GetUserHost(s) \in Seq(Nat)
  <2>1. CASE i = 0
    BY <1>0, <2>1 DEF GetUserHost
  <2>2. CASE i # 0
    <3>1. i - 1 \in Int /\ i - 1 <= Len(s)
      BY <1>0, <2>2, LenProperties
    <3>2. SubSeq(s, 1, i - 1) \in Seq(Nat)
      BY <3>1, PartIs
    <3> QED  BY <1>0, <2>2, <3>2 DEF GetUserHost
  <2> QED  BY <2>1, <2>2
<1>2. GetResource(s) \in Seq(Nat)
  <2>1. SubSeq(s, i + 1, Len(s)) \in Seq(Nat)
    <3>1. i + 1 \in Nat \ {0} /\ Len(s) \in Int /\ Len(s) <= Len(s)
      BY LenProperties
    <3> QED  BY <3>1, PartIs
  <2> QED  BY <1>0, <2>1, EmptySeq DEF GetResource
<1>3. Lowered(s) \in Seq(Nat)
  <2> DEFINE l == [k \in 1..Len(s) |-> Lower(s[k])]
  <2>1. Len(s) \in Nat
    BY LenProperties
  <2>2. ASSUME NEW k \in 1..Len(s) PROVE Lower(s[k]) \in Nat
    <3>1. s[k] \in Nat
      BY ElementOfSeq
    <3> QED  BY <3>1 DEF Lower
  <2>3. l \in [1..Len(s) -> Nat]
    BY <2>2
  <2>4. Lowered(s) = l
    BY DEF Lowered
  <2> HIDE DEF l
  <2> QED  BY <2>1, <2>3, <2>4, SeqDef
<1> QED  BY <1>1, <1>2, <1>3

\* A JabberID is written as a text.
LEMMA WrittenIs ==
    ASSUME JIDOrderAssumption, NEW j \in JIDs
    PROVE  /\ j.user \in Seq(Nat) /\ j.host \in Seq(Nat) /\ j.resource \in Seq(Nat)
           /\ UserHost(j) \in Seq(Nat)
           /\ FullJID(j) \in Seq(Nat)
<1>1. j.user \in Seq(Characters) /\ j.host \in Seq(Characters)
      /\ j.resource \in Seq(Characters)
  BY DEF JIDOrderAssumption, JIDs
<1>2. Characters \subseteq Nat
  BY DEF Characters
<1>3. j.user \in Seq(Nat) /\ j.host \in Seq(Nat) /\ j.resource \in Seq(Nat)
  BY <1>1, <1>2, SeqMonotonic
<1>4. <<At>> \in Seq(Nat) /\ <<Slash>> \in Seq(Nat) /\ <<>> \in Seq(Nat)
  BY DEF At, Slash
<1>5. UserHost(j) \in Seq(Nat)
  <2>1. j.user \o <<At>> \in Seq(Nat)
    BY <1>3, <1>4, ConcatProperties
  <2> QED  BY <1>3, <1>4, <2>1, ConcatProperties DEF UserHost
<1>6. FullJID(j) \in Seq(Nat)
  <2>1. <<Slash>> \o j.resource \in Seq(Nat)
    BY <1>3, <1>4, ConcatProperties
  <2> QED  BY <1>4, <1>5, <2>1, ConcatProperties DEF FullJID
<1> QED  BY <1>3, <1>5, <1>6

-----------------------------------------------------------------------------
(* The order.                                                                *)

\* What two JabberIDs are compared by.
Folded(s) == Lowered(GetUserHost(s))

\* compare() goes by user and host, then by the resource.
LEMMA CompareIs ==
    ASSUME NEW s \in Seq(Nat), NEW t \in Seq(Nat)
    PROVE  /\ Less(s, t) <=> \/ Before(Folded(s), Folded(t))
                               \/ /\ Folded(s) = Folded(t)
                                  /\ Before(GetResource(s), GetResource(t))
           /\ Compare(s, t) = 0 <=> Same(s, t)
<1> DEFINE a == Folded(s)  b == Folded(t)  q == GetResource(s)  r == GetResource(t)
<1>1. a \in Seq(Nat) /\ b \in Seq(Nat) /\ q \in Seq(Nat) /\ r \in Seq(Nat)
  BY PartsAre DEF Folded
<1>2. Compare(s, t) = IF StringCompare(a, b) = 0 THEN StringCompare(q, r) ELSE StringCompare(a, b)
  BY DEF Compare, Folded
<1>3. Same(s, t) <=> a = b /\ q = r
  BY DEF Same, Folded
<1> HIDE DEF a, b, q, r
<1>4. /\ StringCompare(a, b) \in {-1, 0, 1}
      /\ StringCompare(a, b) = 0 <=> a = b
      /\ StringCompare(a, b) < 0 <=> Before(a, b)
  BY <1>1, ComparedIs
<1>5. /\ StringCompare(q, r) \in {-1, 0, 1}
      /\ StringCompare(q, r) = 0 <=> q = r
      /\ StringCompare(q, r) < 0 <=> Before(q, r)
  BY <1>1, ComparedIs
<1>6. a = b => ~Before(a, b)
  BY <1>1, BeforeIsStrict
<1>7. Less(s, t) <=> Before(a, b) \/ (a = b /\ Before(q, r))
  <2>1. CASE a = b
    BY <1>2, <1>4, <1>5, <1>6, <2>1 DEF Less
  <2>2. CASE a # b
    BY <1>2, <1>4, <2>2 DEF Less
  <2> QED  BY <2>1, <2>2
<1>8. Compare(s, t) = 0 <=> Same(s, t)
  BY <1>2, <1>3, <1>4, <1>5
<1> QED  BY <1>7, <1>8 DEF a, b, q, r

\* operator() says of two JabberIDs that one is less, or neither, if they are the same.
LEMMA LessIsStrict ==
    ASSUME NEW s \in Seq(Nat), NEW t \in Seq(Nat)
    PROVE  /\ Less(s, t) => ~Less(t, s)
           /\ ~Less(s, t) /\ ~Less(t, s) <=> Same(s, t)
<1> DEFINE a == Folded(s)  b == Folded(t)  q == GetResource(s)  r == GetResource(t)
<1>1. a \in Seq(Nat) /\ b \in Seq(Nat) /\ q \in Seq(Nat) /\ r \in Seq(Nat)
  BY PartsAre DEF Folded
<1>2. Less(s, t) <=> Before(a, b) \/ (a = b /\ Before(q, r))
  BY CompareIs
<1>3. Less(t, s) <=> Before(b, a) \/ (b = a /\ Before(r, q))
  BY CompareIs
<1>4. Same(s, t) <=> a = b /\ q = r
  BY DEF Same, Folded
<1> HIDE DEF a, b, q, r
<1>5. /\ Before(a, b) => ~Before(b, a) /\ a # b
      /\ Before(b, a) => ~Before(a, b) /\ a # b
      /\ Before(q, r) => ~Before(r, q) /\ q # r
      /\ Before(r, q) => ~Before(q, r) /\ q # r
  BY <1>1, BeforeIsStrict
<1>6. (Before(a, b) \/ Before(b, a) \/ a = b) /\ (Before(q, r) \/ Before(r, q) \/ q = r)
  BY <1>1, ComparedIs
<1> QED  BY <1>2, <1>3, <1>4, <1>5, <1>6

\* ... and is transitive over the two comparisons.
LEMMA LessIsTransitive ==
    ASSUME NEW s \in Seq(Nat), NEW t \in Seq(Nat), NEW u \in Seq(Nat),
           Less(s, t), Less(t, u)
    PROVE  Less(s, u)
<1> DEFINE a == Folded(s)  b == Folded(t)  c == Folded(u)
           p == GetResource(s)  q == GetResource(t)  r == GetResource(u)
<1>1. /\ a \in Seq(Nat) /\ b \in Seq(Nat) /\ c \in Seq(Nat)
      /\ p \in Seq(Nat) /\ q \in Seq(Nat) /\ r \in Seq(Nat)
  BY PartsAre DEF Folded
<1>2. Before(a, b) \/ (a = b /\ Before(p, q))
  BY CompareIs
<1>3. Before(b, c) \/ (b = c /\ Before(q, r))
  BY CompareIs
<1>4. Less(s, u) <=> Before(a, c) \/ (a = c /\ Before(p, r))
  BY CompareIs
<1> HIDE DEF a, b, c, p, q, r
<1>5. (Before(a, b) /\ Before(b, c) => Before(a, c)) /\ (Before(p, q) /\ Before(q, r) => Before(p, r))
  BY <1>1, BeforeIsTransitive
<1> QED  BY <1>2, <1>3, <1>4, <1>5

-----------------------------------------------------------------------------
(* The parts.                                                                *)

Lacks(s, c) == \A i \in 1..Len(s) : s[i] # c

\* find() is npos for a character that is not there.
LEMMA NoneIsFound ==
    ASSUME NEW s \in Seq(Nat), NEW c
    PROVE  Find(s, c) = 0 <=> Lacks(s, c)
<1>1. CASE Find(s, c) = 0
  <2>1. Find(s, c) \notin 1..Len(s)
    BY <1>1
  <2> QED  BY <1>1, <2>1, FindIs DEF Lacks
<1>2. CASE Find(s, c) # 0
  <2>1. Find(s, c) \in 1..Len(s) /\ s[Find(s, c)] = c
    BY <1>2, FindIs
  <2> QED  BY <1>2, <2>1 DEF Lacks
<1> QED  BY <1>1, <1>2

\* What is in neither text is not in both together.
LEMMA NoneInBoth ==
    ASSUME NEW s \in Seq(Nat), NEW t \in Seq(Nat), NEW c, Lacks(s, c), Lacks(t, c)
    PROVE  Lacks(s \o t, c)
<1>1. /\ s \o t \in Seq(Nat) /\ Len(s \o t) = Len(s) + Len(t)
      /\ \A i \in 1..Len(s) + Len(t) : (s \o t)[i] = IF i <= Len(s) THEN s[i] ELSE t[i - Len(s)]
      /\ Len(s) \in Nat /\ Len(t) \in Nat
  BY ConcatProperties, LenProperties
<1>2. ASSUME NEW i \in 1..Len(s \o t) PROVE (s \o t)[i] # c
  <2>1. i \in 1..Len(s) + Len(t)
    BY <1>1
  <2>2. CASE i <= Len(s)
    <3>1. i \in 1..Len(s)
      BY <1>1, <2>1, <2>2
    <3> QED  BY <1>1, <2>1, <2>2, <3>1 DEF Lacks
  <2>3. CASE ~(i <= Len(s))
    <3>1. i - Len(s) \in 1..Len(t)
      BY <1>1, <2>1, <2>3
    <3> QED  BY <1>1, <2>1, <2>3, <3>1 DEF Lacks
  <2> QED  BY <2>2, <2>3
<1> QED  BY <1>2 DEF Lacks

\* What is between two others.
LEMMA MiddleIs ==
    ASSUME NEW a \in Seq(Nat), NEW b \in Seq(Nat), NEW c \in Seq(Nat),
           NEW s, s = (a \o b) \o c
    PROVE  /\ s \in Seq(Nat) /\ Len(s) = Len(a) + Len(b) + Len(c)
           /\ SubSeq(s, Len(a) + 1, Len(a) + Len(b)) = b
<1>1. Len(a) \in Nat /\ Len(b) \in Nat /\ Len(c) \in Nat
  BY LenProperties
<1> DEFINE ab == a \o b
<1>2. /\ ab \in Seq(Nat) /\ Len(ab) = Len(a) + Len(b)
      /\ \A i \in 1..Len(a) + Len(b) : ab[i] = IF i <= Len(a) THEN a[i] ELSE b[i - Len(a)]
  BY ConcatProperties
<1> HIDE DEF ab
<1>3. /\ ab \o c \in Seq(Nat) /\ Len(ab \o c) = Len(ab) + Len(c)
      /\ \A i \in 1..Len(ab) + Len(c) : (ab \o c)[i] = IF i <= Len(ab) THEN ab[i] ELSE c[i - Len(ab)]
  <2>1. ab \in Seq(Nat)
    BY <1>2
  <2> QED  BY <2>1, ConcatProperties, Zenon
<1>4. /\ s \in Seq(Nat) /\ Len(s) = Len(a) + Len(b) + Len(c)
      /\ \A i \in 1..Len(a) + Len(b) : s[i] = ab[i]
  BY <1>1, <1>2, <1>3 DEF ab
<1> DEFINE m == Len(a) + 1  n == Len(a) + Len(b)  r == SubSeq(s, m, n)
<1>5. m \in Nat \ {0} /\ n \in Int /\ n <= Len(s) /\ n - m + 1 = Len(b)
  BY <1>1, <1>4
<1>6. Len(r) = Len(b) /\ r \in Seq(Nat) /\ \A i \in 1..Len(b) : r[i] = s[m + i - 1]
  <2>1. /\ r \in Seq(Nat) /\ Len(r) = IF m <= n THEN n - m + 1 ELSE 0
        /\ \A i \in 1..(n - m + 1) : r[i] = s[m + i - 1]
    <3>1. ASSUME NEW x \in Nat \ {0}, NEW y \in Int, y <= Len(s)
          PROVE  /\ SubSeq(s, x, y) \in Seq(Nat)
                 /\ Len(SubSeq(s, x, y)) = IF x <= y THEN y - x + 1 ELSE 0
                 /\ \A i \in 1..(y - x + 1) : SubSeq(s, x, y)[i] = s[x + i - 1]
      <4>1. s \in Seq(Nat)
        BY <1>4
      <4> HIDE DEF m, n
      <4> QED  BY <3>1, <4>1, PartIs, ZenonT(40)
    <3> HIDE DEF m, n
    <3> QED  BY <1>5, <3>1
  <2>2. (IF m <= n THEN n - m + 1 ELSE 0) = Len(b)
    BY <1>1
  <2> QED  BY <1>5, <2>1, <2>2
<1>7. ASSUME NEW i \in 1..Len(b) PROVE r[i] = b[i]
  <2>1. PICK k \in 1..Len(a) + Len(b) : k = m + i - 1 /\ ~(k <= Len(a)) /\ k - Len(a) = i
    <3>1. /\ Len(a) + i \in 1..Len(a) + Len(b) /\ Len(a) + i = m + i - 1
          /\ ~(Len(a) + i <= Len(a)) /\ (Len(a) + i) - Len(a) = i
      BY <1>1
    <3> QED  BY <3>1
  <2> HIDE DEF m, r
  <2>2. r[i] = s[k]
    BY <1>6, <2>1
  <2>3. s[k] = ab[k]
    BY <1>4
  <2>4. ab[k] = b[k - Len(a)]
    BY <1>2, <2>1
  <2> QED  BY <2>1, <2>2, <2>3, <2>4
<1>8. r = b
  <2> HIDE DEF r
  <2> QED  BY <1>6, <1>7, SeqEqual
<1> QED  BY <1>4, <1>8

\* A text of two parts can be cut into them.
LEMMA FrontAndBack ==
    ASSUME NEW a \in Seq(Nat), NEW b \in Seq(Nat), NEW s, s = a \o b
    PROVE  /\ s \in Seq(Nat) /\ Len(s) = Len(a) + Len(b)
           /\ SubSeq(s, 1, Len(a)) = a
           /\ SubSeq(s, Len(a) + 1, Len(s)) = b
<1>1. s = (<<>> \o a) \o b /\ s = (a \o b) \o <<>>
  <2>1. <<>> \o a = a
    BY ConcatEmptySeq
  <2>2. a \o b \in Seq(Nat)
    BY ConcatProperties
  <2>3. (a \o b) \o <<>> = a \o b
    BY <2>2, ConcatEmptySeq
  <2> QED  BY <2>1, <2>3
<1>2. <<>> \in Seq(Nat) /\ Len(<<>>) = 0
  BY EmptySeq
<1>3. Len(a) \in Nat /\ Len(b) \in Nat
  BY LenProperties
<1>4. PICK e \in Seq(Nat) : e = <<>> /\ Len(e) = 0
  BY <1>2
<1>5. /\ s \in Seq(Nat) /\ Len(s) = Len(a) + Len(b) + Len(e)
      /\ SubSeq(s, Len(a) + 1, Len(a) + Len(b)) = b
  BY <1>1, <1>4, MiddleIs
<1>6. SubSeq(s, Len(e) + 1, Len(e) + Len(a)) = a
  BY <1>1, <1>4, MiddleIs
<1>7. Len(e) + 1 = 1 /\ Len(e) + Len(a) = Len(a) /\ Len(a) + Len(b) + Len(e) = Len(a) + Len(b)
  BY <1>3, <1>4
<1> QED  BY <1>5, <1>6, <1>7

\* The first c is the one behind a part that has none.
LEMMA FindBehind ==
    ASSUME NEW a \in Seq(Nat), NEW c \in Nat, NEW t \in Seq(Nat), Lacks(a, c),
           NEW s, s = (a \o <<c>>) \o t
    PROVE  Find(s, c) = Len(a) + 1
<1> DEFINE ac == a \o <<c>>
<1>1. <<c>> \in Seq(Nat) /\ Len(<<c>>) = 1 /\ <<c>>[1] = c
  OBVIOUS
<1>2. Len(a) \in Nat /\ Len(t) \in Nat
  BY LenProperties
<1>3. ac = Append(a, c)
  BY AppendIsConcat
<1>4. /\ ac \in Seq(Nat) /\ Len(ac) = Len(a) + 1
      /\ \A i \in 1..Len(a) : ac[i] = a[i]
      /\ ac[Len(a) + 1] = c
  BY <1>3, AppendProperties
<1> HIDE DEF ac
<1>5. /\ ac \o t \in Seq(Nat) /\ Len(ac \o t) = Len(ac) + Len(t)
      /\ \A i \in 1..Len(ac) + Len(t) : (ac \o t)[i] = IF i <= Len(ac) THEN ac[i] ELSE t[i - Len(ac)]
  BY <1>4, ConcatProperties
<1>6. /\ s \in Seq(Nat) /\ Len(s) = Len(a) + 1 + Len(t)
      /\ \A i \in 1..(Len(a) + 1) : s[i] = ac[i]
  BY <1>2, <1>4, <1>5 DEF ac
<1>7. PICK n \in 1..Len(s) : n = Len(a) + 1
  BY <1>2, <1>6
<1>8. s[n] = c
  <2>1. n \in 1..(Len(a) + 1)
    BY <1>2, <1>7
  <2> QED  BY <1>4, <1>6, <1>7, <2>1
<1>9. ASSUME NEW k \in 1..(n - 1) PROVE s[k] # c
  <2>1. k \in 1..Len(a) /\ k \in 1..(Len(a) + 1)
    BY <1>2, <1>7
  <2> QED  BY <1>4, <1>6, <2>1 DEF Lacks
<1>10. Find(s, c) = n
  BY <1>6, <1>8, <1>9, FoundIsFirst
<1> QED  BY <1>7, <1>10

\* s is a and b behind it.
Cat(a, b, s) == s = a \o b

\* The same, for the prover to use without the operator.
LEMMA CatIs ==
    ASSUME NEW a \in Seq(Nat), NEW b \in Seq(Nat), NEW s, Cat(a, b, s)
    PROVE  /\ s \in Seq(Nat) /\ Len(s) = Len(a) + Len(b)
           /\ SubSeq(s, 1, Len(a)) = a
           /\ SubSeq(s, Len(a) + 1, Len(s)) = b
  BY FrontAndBack DEF Cat

\* Three texts can be joined in either way.
LEMMA CatAssociative ==
    ASSUME NEW S, NEW a \in Seq(S), NEW b \in Seq(S), NEW c \in Seq(S),
           NEW ab, Cat(a, b, ab), NEW s, Cat(ab, c, s)
    PROVE  Cat(a, b \o c, s)
  BY ConcatAssociative DEF Cat

\* The one in the middle is cut out from behind the first.
LEMMA CatMiddle ==
    ASSUME NEW a \in Seq(Nat), NEW b \in Seq(Nat), NEW c \in Seq(Nat),
           NEW ab, Cat(a, b, ab), NEW s, Cat(ab, c, s)
    PROVE  SubSeq(s, Len(a) + 1, Len(a) + Len(b)) = b
  BY MiddleIs DEF Cat

\* What is behind the user@host.
Behind(r) == IF r = <<>> THEN <<>> ELSE <<Slash>> \o r

\* The "/" is the one in front of the resource, if there is one.
LEMMA SlashIsFound ==
    ASSUME NEW uh \in Seq(Nat), NEW r \in Seq(Nat), Lacks(uh, Slash),
           NEW w, Cat(uh, Behind(r), w)
    PROVE  /\ Find(w, Slash) = IF r = <<>> THEN 0 ELSE Len(uh) + 1
           /\ w \in Seq(Nat) /\ Behind(r) \in Seq(Nat)
           /\ r = <<>> => w = uh
           /\ GetUserHost(w) = uh
           /\ GetResource(w) = r
<1>0. Len(uh) \in Nat /\ Slash \in Nat /\ Behind(r) \in Seq(Nat)
  <2>1. <<Slash>> \in Seq(Nat) /\ <<>> \in Seq(Nat) /\ Slash \in Nat
    BY DEF Slash
  <2>2. <<Slash>> \o r \in Seq(Nat)
    BY <2>1, ConcatProperties
  <2> QED  BY <2>1, <2>2, LenProperties DEF Behind
<1>1. CASE r = <<>>
  <2>1. w = uh
    BY <1>1, ConcatEmptySeq DEF Behind, Cat
  <2>2. Find(w, Slash) = 0
    BY <2>1, NoneIsFound
  <2>3. GetUserHost(w) = w /\ GetResource(w) = <<>>
    BY <2>2 DEF GetUserHost, GetResource
  <2> QED  BY <1>0, <1>1, <2>1, <2>2, <2>3
<1>2. CASE r # <<>>
  <2> DEFINE a == uh \o <<Slash>>
  <2>1. <<Slash>> \in Seq(Nat) /\ Len(<<Slash>>) = 1
    BY <1>0
  <2>2. w = a \o r
    <3>1. a \o r = uh \o (<<Slash>> \o r)
      BY <2>1, ConcatAssociative
    <3> QED  BY <1>2, <3>1 DEF Behind, Cat
  <2>3. Find(w, Slash) = Len(uh) + 1
    BY <1>0, <2>2, FindBehind
  <2>4. a \in Seq(Nat) /\ Len(a) = Len(uh) + 1
    BY <2>1, ConcatProperties
  <2> HIDE DEF a
  <2>5. w \in Seq(Nat) /\ SubSeq(w, Len(a) + 1, Len(w)) = r
    BY <2>2, <2>4, FrontAndBack
  <2>6. SubSeq(w, 1, Len(uh)) = uh
    BY <1>0, CatIs
  <2>7. Len(uh) + 1 # 0 /\ (Len(uh) + 1) - 1 = Len(uh)
    BY <1>0
  <2>8. GetUserHost(w) = SubSeq(w, 1, (Len(uh) + 1) - 1)
    BY <2>3, <2>7 DEF GetUserHost
  <2>9. GetResource(w) = SubSeq(w, (Len(uh) + 1) + 1, Len(w))
    BY <2>3, <2>7 DEF GetResource
  <2> QED  BY <1>0, <1>2, <2>3, <2>4, <2>5, <2>6, <2>7, <2>8, <2>9
<1> QED  BY <1>1, <1>2

AtSign == <<At>>

\* substr() stops at the count that is given, if the text is long enough.
LEMMA ShorterIs ==
    ASSUME NEW x \in Nat, NEW y \in Nat, NEW z \in Nat
    PROVE  (IF x + y < x + y + z THEN x + y ELSE x + y + z) = x + y
  OBVIOUS

\* With a user, the "@" is the one behind it ...
LEMMA UserIsFound ==
    ASSUME NEW u \in Seq(Nat), NEW h \in Seq(Nat), NEW r \in Seq(Nat), Lacks(u, At),
           NEW p, Cat(u, AtSign, p), NEW uh, Cat(p, h, uh), Lacks(uh, Slash),
           NEW w, Cat(uh, Behind(r), w)
    PROVE  GetUser(w) = u /\ GetHost(w) = h
<1> DEFINE b == Behind(r)
           hb == h \o b
           d == Len(u) + 1
<1>1. At \in Nat /\ AtSign \in Seq(Nat) /\ Len(AtSign) = 1
  BY DEF At, AtSign
<1>2. p \in Seq(Nat) /\ Len(p) = d
  <2>1. p \in Seq(Nat) /\ Len(p) = Len(u) + Len(AtSign)
    BY <1>1, CatIs
  <2> QED  BY <1>1, <2>1
<1>3. Len(u) \in Nat /\ Len(h) \in Nat
  BY LenProperties
<1>4. uh \in Seq(Nat) /\ Len(uh) = Len(p) + Len(h)
  BY <1>2, CatIs
<1>5. /\ Find(w, Slash) = IF r = <<>> THEN 0 ELSE Len(uh) + 1
      /\ w \in Seq(Nat) /\ b \in Seq(Nat)
      /\ r = <<>> => w = uh
  BY <1>4, SlashIsFound
<1>6. hb \in Seq(Nat)
  BY <1>5, ConcatProperties
<1> HIDE DEF b
<1>7. Cat(p, hb, w)
  <2>1. Cat(uh, b, w)
    BY DEF b
  <2> QED  BY <1>2, <1>5, <2>1, CatAssociative
<1> HIDE DEF hb
<1>8. Find(w, At) = d
  <2>1. w = (u \o <<At>>) \o hb
    BY <1>7 DEF Cat, AtSign
  <2> QED  BY <1>1, <1>6, <2>1, FindBehind
<1>9. d # 0 /\ d \in Nat /\ d - 1 = Len(u)
  BY <1>3
<1> HIDE DEF d
<1>10. GetUser(w) = u
  <2>1. Cat(u, AtSign \o hb, w)
    BY <1>1, <1>6, <1>7, CatAssociative
  <2>2. AtSign \o hb \in Seq(Nat)
    BY <1>1, <1>6, ConcatProperties
  <2>3. SubSeq(w, 1, Len(u)) = u
    BY <2>1, <2>2, CatIs
  <2>4. GetUser(w) = SubSeq(w, 1, d - 1)
    BY <1>8, <1>9 DEF GetUser
  <2> QED  BY <1>9, <2>3, <2>4
<1>11. CASE r = <<>>
  <2>1. GetHost(w) = Substr(w, d, Len(w))
    <3>1. Find(w, At) # 0 /\ Find(w, Slash) = 0
      BY <1>5, <1>8, <1>9, <1>11
    <3> QED  BY <1>8, <3>1 DEF GetHost
  <2>2. Cat(p, h, w)
    BY <1>5, <1>11
  <2>3. SubSeq(w, Len(p) + 1, Len(w)) = h /\ Len(w) \in Nat
    BY <1>2, <1>5, <2>2, CatIs, LenProperties
  <2>4. ~(d + Len(w) < Len(w))
    BY <1>9, <2>3
  <2>5. Substr(w, d, Len(w)) = SubSeq(w, d + 1, Len(w))
    BY <2>4 DEF Substr
  <2> QED  BY <1>2, <1>10, <2>1, <2>3, <2>5
<1>12. CASE r # <<>>
  <2> DEFINE e == Len(uh) + 1
  <2>1. Find(w, Slash) = e /\ e # 0 /\ e > d /\ e - d - 1 = Len(h)
    <3>1. Find(w, Slash) = e
      BY <1>5, <1>12
    <3>2. Len(uh) = d + Len(h)
      BY <1>2, <1>4
    <3> QED  BY <1>3, <1>9, <3>1, <3>2
  <2> HIDE DEF e
  <2>2. GetHost(w) = Substr(w, d, e - d - 1)
    BY <1>8, <1>9, <2>1 DEF GetHost
  <2>3. Cat(uh, b, w)
    BY DEF b
  <2>4. SubSeq(w, Len(p) + 1, Len(p) + Len(h)) = h
    <3>1. Cat(p, h, uh) /\ p \in Seq(Nat) /\ b \in Seq(Nat)
      BY <1>2, <1>5
    <3> QED  BY <2>3, <3>1, CatMiddle
  <2>5. Len(w) = Len(uh) + Len(b) /\ Len(b) \in Nat
    BY <1>4, <1>5, <2>3, CatIs, LenProperties
  <2>6. (IF d + Len(h) < Len(w) THEN d + Len(h) ELSE Len(w)) = Len(p) + Len(h)
    <3>1. Len(w) = d + Len(h) + Len(b)
      BY <1>2, <1>4, <2>5
    <3>2. (IF d + Len(h) < d + Len(h) + Len(b) THEN d + Len(h) ELSE d + Len(h) + Len(b))
             = d + Len(h)
      BY <1>3, <1>9, <2>5, ShorterIs
    <3> QED  BY <1>2, <3>1, <3>2
  <2>7. Substr(w, d, Len(h)) = SubSeq(w, d + 1, Len(p) + Len(h))
    BY <2>6 DEF Substr
  <2> QED  BY <1>2, <1>10, <2>1, <2>2, <2>4, <2>7
<1> QED  BY <1>11, <1>12

\* ... and without one, there is none if there is none in the resource.
LEMMA HostIsFound ==
    ASSUME NEW h \in Seq(Nat), NEW r \in Seq(Nat), Lacks(h, At), Lacks(h, Slash),
           Lacks(r, At), NEW w, Cat(h, Behind(r), w)
    PROVE  GetUser(w) = <<>> /\ GetHost(w) = h
<1>1. /\ Find(w, Slash) = IF r = <<>> THEN 0 ELSE Len(h) + 1
      /\ w \in Seq(Nat) /\ Behind(r) \in Seq(Nat)
      /\ r = <<>> => w = h
  BY SlashIsFound
<1>2. Lacks(Behind(r), At)
  <2>1. Lacks(<<>>, At)
    BY EmptySeq DEF Lacks
  <2>2. <<Slash>> \in Seq(Nat) /\ Lacks(<<Slash>>, At)
    BY DEF Lacks, Slash, At
  <2>3. Lacks(<<Slash>> \o r, At)
    BY <2>2, NoneInBoth
  <2> QED  BY <2>1, <2>3 DEF Behind
<1>3. Find(w, At) = 0
  BY <1>1, <1>2, NoneInBoth, NoneIsFound DEF Cat
<1>4. GetUser(w) = <<>>
  BY <1>3 DEF GetUser
<1>5. CASE r = <<>>
  <2>1. GetHost(w) = w
    BY <1>1, <1>3, <1>5 DEF GetHost
  <2> QED  BY <1>1, <1>4, <1>5, <2>1
<1>6. CASE r # <<>>
  <2>1. Len(h) \in Nat
    BY LenProperties
  <2>2. Len(h) + 1 # 0 /\ (Len(h) + 1) - 1 = Len(h)
    BY <2>1
  <2>3. GetHost(w) = SubSeq(w, 1, (Len(h) + 1) - 1)
    BY <1>1, <1>3, <1>6, <2>2 DEF GetHost
  <2>4. SubSeq(w, 1, Len(h)) = h
    BY <1>1, CatIs
  <2> QED  BY <1>4, <2>2, <2>3, <2>4
<1> QED  BY <1>5, <1>6

\* A JabberID of valid parts is taken apart into them.
LEMMA WrittenPartsAreFound ==
    ASSUME JIDOrderAssumption, NEW j \in JIDs,
           j.user = <<>> \/ IsValidUser(j.user), IsValidHost(j.host)
    PROVE  /\ GetUserHost(FullJID(j)) = UserHost(j)
           /\ GetResource(FullJID(j)) = j.resource
           /\ j.user # <<>> \/ Find(j.resource, At) = 0 =>
                 GetUser(FullJID(j)) = j.user /\ GetHost(FullJID(j)) = j.host
<1> DEFINE u == j.user  h == j.host  r == j.resource  uh == UserHost(j)  w == FullJID(j)
<1>1. u \in Seq(Nat) /\ h \in Seq(Nat) /\ r \in Seq(Nat) /\ uh \in Seq(Nat)
  BY WrittenIs
<1>2. Cat(uh, Behind(r), w)
  BY DEF FullJID, Behind, Cat
<1>3. Lacks(h, At) /\ Lacks(h, Slash)
  BY <1>1, NoneIsFound DEF IsValidHost
<1>4. u # <<>> => Lacks(u, At) /\ Lacks(u, Slash)
  BY <1>1, NoneIsFound DEF IsValidUser
<1>5. CASE u = <<>>
  <2>1. uh = h
    BY <1>1, <1>5, ConcatEmptySeq DEF UserHost
  <2> HIDE DEF u, h, r, uh, w
  <2>2. GetUserHost(w) = uh /\ GetResource(w) = r
    BY <1>1, <1>2, <1>3, <2>1, SlashIsFound
  <2>3. ASSUME Find(r, At) = 0 PROVE GetUser(w) = u /\ GetHost(w) = h
    <3>1. Lacks(r, At)
      BY <1>1, <2>3, NoneIsFound
    <3> QED  BY <1>1, <1>2, <1>3, <1>5, <2>1, <3>1, HostIsFound
  <2> QED  BY <1>5, <2>2, <2>3 DEF u, h, r, uh, w
<1>6. CASE u # <<>>
  <2> DEFINE p == u \o AtSign
  <2>1. Cat(u, AtSign, p) /\ Cat(p, h, uh) /\ Cat(uh, Behind(r), w)
    <3>1. uh = p \o h
      BY <1>6 DEF UserHost, AtSign
    <3> QED  BY <1>2, <3>1 DEF Cat
  <2>2. AtSign \in Seq(Nat) /\ Lacks(AtSign, Slash)
    BY DEF Lacks, Slash, At, AtSign
  <2> HIDE DEF u, h, r, uh, w
  <2>3. p \in Seq(Nat) /\ Lacks(p, Slash)
    BY <1>1, <1>4, <1>6, <2>2, NoneInBoth, ConcatProperties
  <2> HIDE DEF p
  <2>4. Lacks(uh, Slash)
    BY <1>1, <1>3, <2>1, <2>3, NoneInBoth DEF Cat
  <2>5. GetUserHost(w) = uh /\ GetResource(w) = r
    BY <1>1, <1>2, <2>4, SlashIsFound
  <2>6. GetUser(w) = u /\ GetHost(w) = h
    BY <1>1, <1>4, <1>6, <2>1, <2>4, UserIsFound
  <2> QED  BY <2>5, <2>6 DEF u, h, r, uh, w
<1> QED  BY <1>5, <1>6

-----------------------------------------------------------------------------

\* What is inserted is a JabberID.
LEMMA KeysAreJIDs ==
    KeysSpec => [](keys \subseteq JIDs)
<1>1. KeysInit => keys \subseteq JIDs
  BY DEF KeysInit
<1>2. keys \subseteq JIDs /\ [Insert]_keys => (keys \subseteq JIDs)'
  BY DEF Insert
<1> QED  BY <1>1, <1>2, PTL DEF KeysSpec

\* Of whatever characters JabberIDs are, compare() puts them in a strict order, in which
\* two are equal that differ in the case of user and host alone (jabberoo-JID.cc compare,
\* Compare::operator()).
THEOREM JIDsAreOrderedAlways == KeysSpec => []JIDsAreOrdered
<1>1. ASSUME keys \subseteq JIDs PROVE JIDsAreOrdered
  <2>1. \A s \in {FullJID(j) : j \in keys} : s \in Seq(Nat)
    BY <1>1, WrittenIs, JIDOrderAssumption
  <2> SUFFICES ASSUME NEW s \in {FullJID(j) : j \in keys},
                      NEW t \in {FullJID(j) : j \in keys},
                      NEW u \in {FullJID(j) : j \in keys}
               PROVE  /\ Less(s, t) => ~Less(t, s)
                      /\ Less(s, t) /\ Less(t, u) => Less(s, u)
                      /\ ~Less(s, t) /\ ~Less(t, s) <=> Same(s, t)
                      /\ Compare(s, t) = 0 <=> Same(s, t)
    BY DEF JIDsAreOrdered
  <2>2. s \in Seq(Nat) /\ t \in Seq(Nat) /\ u \in Seq(Nat)
    BY <2>1
  <2>3. Less(s, t) /\ Less(t, u) => Less(s, u)
    BY <2>2, LessIsTransitive
  <2>4. /\ Less(s, t) => ~Less(t, s)
        /\ ~Less(s, t) /\ ~Less(t, s) <=> Same(s, t)
    BY <2>2, LessIsStrict
  <2>5. Compare(s, t) = 0 <=> Same(s, t)
    BY <2>2, CompareIs
  <2> QED  BY <2>3, <2>4, <2>5
<1> QED  BY <1>1, KeysAreJIDs, PTL

\* A JabberID of valid parts, of whatever characters and lengths, is taken apart into them
\* (jabberoo-JID.cc getUser, getHost, getUserHost, getResource).
THEOREM PartsAreFoundAlways == KeysSpec => []PartsAreFound
<1>1. ASSUME keys \subseteq JIDs PROVE PartsAreFound
  BY <1>1, WrittenPartsAreFound, JIDOrderAssumption DEF PartsAreFound
<1> QED  BY <1>1, KeysAreJIDs, PTL

\* Of any JabberIDs, whatever characters they are of.
THEOREM JIDsAreSoundAlways == KeysSpec => []JIDsAreSound
  BY JIDsAreOrderedAlways, PartsAreFoundAlways, PTL DEF JIDsAreSound
=============================================================================
