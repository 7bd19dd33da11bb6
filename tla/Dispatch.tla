------------------------------ MODULE Dispatch ------------------------------
(***************************************************************************)
(* How a Session finds the callbacks of an element: handleIQ() walks those  *)
(* registered under the id of an iq, dispatch() the XPath queries for what  *)
(* comes in, operator<< those for what goes out.  Each loop keeps iterators *)
(* into its container while the callback it has called registers,           *)
(* unregisters, sends and dispatches, so that loops of all kinds run within *)
(* callbacks of loops.                                                      *)
(*                                                                          *)
(* A registration is a node, numbered; an iterator is the number of the     *)
(* node it points to, and a container the sequence of its nodes.            *)
(***************************************************************************)
EXTENDS Naturals, Sequences, FiniteSets, Lists

CONSTANTS
    Ids,        \* the ids of iqs: naturals, in the order of their strings
    Selections, \* what XPath queries select: sets of names of elements
    Habits,     \* what callbacks do beyond the ordinary: see AllHabits
    MaxNodes,   \* bound: registrations
    MaxDepth    \* bound: loops within callbacks of loops

\* "self": take away what is being called, by unregistering it or by dispatching an
\* iq of its id.  "next": the same with where the loop of handleIQ() ends, the one that
\* comes next in the order of ids.  "repeat": register again under the id that is being
\* answered.
AllHabits == {"self", "next", "repeat"}

\* A "packet" is a message, a presence or anything else that is not an iq.
Names     == {"iq", "packet"}

End       == 0
NoID      == 0      \* for what is not an iq

ASSUME DispatchAssumption ==
    /\ Ids \subseteq Nat \ {NoID}
    /\ IsFiniteSet(Ids)
    /\ Selections \subseteq SUBSET Names
    /\ Habits \subseteq AllHabits
    /\ MaxNodes \in Nat
    /\ MaxDepth \in Nat

VARIABLES
    callbacks,  \* _Callbacks: a multimap, as its nodes in the order of ids
    incoming,   \* _incoming_queries
    outgoing,   \* _outgoing_queries
    frames,     \* the loops that are running, the innermost last
    nextNode,   \* the number of the next registration
    fault       \* what has gone wrong for good

vars == <<callbacks, incoming, outgoing, frames, nextNode, fault>>

Nodes    == 1..MaxNodes
Entries  == [node : Nodes, id : Ids]
Queries  == [node : Nodes, selects : Selections]

\* `asks': a get that the session answers itself (version, last, time, disco).
Elements == [name : {"iq"}, id : Ids, asks : BOOLEAN]
            \union [name : Names \ {"iq"}, id : {NoID}, asks : {FALSE}]

\* "iq", "in" and "out" are loops, "signal" the handlers of a signal.  `at' is
\* the node that is being called, `stop' where the loop ends.  As history, `due'
\* are the nodes still to be called, `called' those that were, and `since' is the
\* first node that was not registered when the loop began.
Frames == [run : {"iq", "signal", "in", "out"}, elem : Elements,
           at : Nodes \union {End}, stop : Nodes \union {End},
           due : SUBSET Nodes, called : Seq(Nodes), since : Nat]

-----------------------------------------------------------------------------
(* Containers and iterators. *)

NodesOf(c) == {c[i].node : i \in DOMAIN c}

\* Where an iterator points; End is one past the last.
PositionOf(c, n) ==
    IF n = End THEN Len(c) + 1 ELSE CHOOSE i \in DOMAIN c : c[i].node = n

Iterator(c, i) == IF i \in DOMAIN c THEN c[i].node ELSE End

Live(c, n) == n = End \/ n \in NodesOf(c)

Least(S) == CHOOSE x \in S : \A y \in S : x <= y

Erased(c, gone) ==
    Kept(c, {c[i] : i \in {j \in DOMAIN c : c[j].node \notin gone}})

\* multimap::insert(): after those of the same id.
Inserted(n, id) ==
    LET i == Cardinality({j \in DOMAIN callbacks : callbacks[j].id <= id})
    IN SubSeq(callbacks, 1, i) \o <<[node |-> n, id |-> id]>>
       \o SubSeq(callbacks, i + 1, Len(callbacks))

Container(f) ==
    CASE f.run = "iq"  -> callbacks
      [] f.run = "in"  -> incoming
      [] f.run = "out" -> outgoing
      [] OTHER         -> <<>>

\* Whether the loop calls what it has come to.
Fires(f, e) == IF f.run = "iq" THEN e.id = f.elem.id ELSE f.elem.name \in e.selects

\* The loop goes on from position i of the container: to the next node that it
\* calls, or to its end.
Walk(f, c, i) ==
    LET stop == PositionOf(c, f.stop)
        hits == {j \in i..(stop - 1) : Fires(f, c[j])}
    IN IF hits = {} THEN f.stop ELSE Iterator(c, Least(hits))

\* A loop over c starts: for an iq, equal_range() is asked for the end.
Started(run, elem, c) ==
    LET stop == IF run = "iq"
                THEN Iterator(c, 1 + Cardinality({i \in DOMAIN c : c[i].id <= elem.id}))
                ELSE End
        f == [run |-> run, elem |-> elem, at |-> End, stop |-> stop,
              due |-> {c[i].node : i \in {j \in DOMAIN c :
                          Fires([run |-> run, elem |-> elem], c[j])}},
              called |-> <<>>, since |-> nextNode]
    IN [f EXCEPT !.at = Walk(f, c, 1)]

Signal(elem) ==
    [run |-> "signal", elem |-> elem, at |-> End, stop |-> End,
     due |-> {}, called |-> <<>>, since |-> 0]

Top == frames[Len(frames)]

Replaced(f) == [frames EXCEPT ![Len(frames)] = f]

Popped == SubSeq(frames, 1, Len(frames) - 1)

\* Nodes that were unregistered need not be called any more.
Excused(gone) ==
    [i \in DOMAIN frames |-> [frames[i] EXCEPT !.due = @ \ gone]]

-----------------------------------------------------------------------------
(* The application: from outside, or from a callback or handler that runs. *)

InLoop   == frames # <<>> /\ Top.run # "signal"
InCall   == InLoop /\ Top.at # Top.stop
Running  == {frames[i].at : i \in DOMAIN frames}
Stops    == {frames[i].stop : i \in DOMAIN frames} \ {End}
Answered == {frames[i].elem.id : i \in {j \in DOMAIN frames : frames[j].run # "out"}}

ApplicationRuns == ~InLoop \/ InCall

\* The nodes that handleIQ() and unregisterIQ() find under an id, and whether a
\* callback with these Habits takes nodes away from under the loops that run.
Registered(id) ==
    {callbacks[i].node : i \in {j \in DOMAIN callbacks : callbacks[j].id = id}}

MayGo(gone) ==
    /\ "self" \in Habits \/ gone \intersect Running = {}
    /\ "next" \in Habits \/ gone \intersect Stops = {}

RegisterIQ ==
    /\ ApplicationRuns
    /\ nextNode \in Nodes
    /\ \E id \in Ids :
          /\ "repeat" \in Habits \/ id \notin Answered
          /\ callbacks' = Inserted(nextNode, id)
    /\ nextNode' = nextNode + 1
    /\ UNCHANGED <<incoming, outgoing, frames, fault>>

\* unregisterIQ(): all nodes of an id.
UnregisterIQ ==
    /\ ApplicationRuns
    /\ \E id \in Ids :
          LET gone == Registered(id)
          IN /\ gone # {}
             /\ MayGo(gone)
             /\ callbacks' = Erased(callbacks, gone)
             /\ frames' = Excused(gone)
    /\ UNCHANGED <<incoming, outgoing, nextNode, fault>>

\* Mutant of RegisterXPath: a query is put at the end, into the loop's way.
RegisterXPath_Back ==
    /\ ApplicationRuns
    /\ nextNode \in Nodes
    /\ \E s \in Selections :
          LET q == [node |-> nextNode, selects |-> s]
          IN \/ incoming' = Append(incoming, q) /\ UNCHANGED outgoing
             \/ outgoing' = Append(outgoing, q) /\ UNCHANGED incoming
    /\ nextNode' = nextNode + 1
    /\ UNCHANGED <<callbacks, frames, fault>>

\* registerXPath(): in front, so that a loop under way does not come to it.
RegisterXPath ==
    /\ ApplicationRuns
    /\ nextNode \in Nodes
    /\ \E s \in Selections :
          LET q == [node |-> nextNode, selects |-> s]
          IN \/ incoming' = <<q>> \o incoming /\ UNCHANGED outgoing
             \/ outgoing' = <<q>> \o outgoing /\ UNCHANGED incoming
    /\ nextNode' = nextNode + 1
    /\ UNCHANGED <<callbacks, frames, fault>>

\* unregisterXPath(): the query is deleted, so the right list must be named.
UnregisterXPath ==
    /\ ApplicationRuns
    /\ \E n \in NodesOf(incoming) \union NodesOf(outgoing) :
          /\ MayGo({n})
          /\ incoming' = Erased(incoming, {n})
          /\ outgoing' = Erased(outgoing, {n})
          /\ frames' = Excused({n})
    /\ UNCHANGED <<callbacks, nextNode, fault>>

\* operator<<: the loop over the outgoing queries.  What an element asks is for the
\* session that receives it.
Send ==
    /\ ApplicationRuns
    /\ Len(frames) < MaxDepth
    /\ \E elem \in {e \in Elements : ~ e.asks} :
          frames' = Append(frames, Started("out", elem, outgoing))
    /\ UNCHANGED <<callbacks, incoming, outgoing, nextNode, fault>>

\* dispatch(), for the element onElement() has from the parser, which is not
\* re-entrant, or for one that a callback or handler passes to it: it begins with the
\* handler of the kind of element.
DispatchElement ==
    /\ ApplicationRuns
    /\ Len(frames) < MaxDepth
    /\ \E elem \in Elements :
          /\ MayGo(Registered(elem.id))
          /\ frames' = Append(frames, IF elem.name = "iq"
                                     THEN Started("iq", elem, callbacks)
                                     ELSE Signal(elem))
    /\ UNCHANGED <<callbacks, incoming, outgoing, nextNode, fault>>

-----------------------------------------------------------------------------
(* The library. *)

\* A loop whose iterator, or whose end, is on an erased node has lost its way.
Outcome ==
    IF Live(Container(Top), Top.at) /\ Live(Container(Top), Top.stop)
    THEN "none" ELSE "dangling"

\* What was called is due no more, and the loop goes on from position i of c.
Advanced(c, i) ==
    LET f == [Top EXCEPT !.due = @ \ {Top.at}, !.called = Append(@, Top.at)]
    IN IF fault' = "none" THEN Replaced([f EXCEPT !.at = Walk(f, c, i)]) ELSE frames

\* Mutant of CallbackReturns: what was called stays registered.
CallbackReturns_Keeps ==
    /\ InCall
    /\ Top.run = "iq"
    /\ fault' = Outcome
    /\ frames' = Advanced(callbacks, PositionOf(callbacks, Top.at) + 1)
    /\ UNCHANGED <<callbacks, incoming, outgoing, nextNode>>

\* An iq callback returns: the iterator is incremented, then its node erased.
CallbackReturns ==
    /\ InCall
    /\ Top.run = "iq"
    /\ callbacks' = Erased(callbacks, {Top.at})
    /\ fault' = Outcome
    /\ frames' = Advanced(callbacks', PositionOf(callbacks, Top.at))
    /\ UNCHANGED <<incoming, outgoing, nextNode>>

\* The callback of an XPath query returns.
QueryReturns ==
    /\ InCall
    /\ Top.run \in {"in", "out"}
    /\ fault' = Outcome
    /\ frames' = Advanced(Container(Top), PositionOf(Container(Top), Top.at) + 1)
    /\ UNCHANGED <<callbacks, incoming, outgoing, nextNode>>

LoopIsOver == InLoop /\ Top.at = Top.stop

\* The end of handleIQ()'s loop: an iq goes on to the signals.
IQLoopEnds ==
    /\ LoopIsOver
    /\ Top.run = "iq"
    /\ frames' = Replaced(Signal(Top.elem))
    /\ UNCHANGED <<callbacks, incoming, outgoing, nextNode, fault>>

\* The handlers of evtOnVersion, evtIQ, evtMessage... return: the session sends
\* its own answer to what it was asked, and dispatch() walks the queries.
SignalReturns ==
    /\ frames # <<>>
    /\ Top.run = "signal"
    /\ LET queries == Started("in", Top.elem, incoming)
           answer  == [Top.elem EXCEPT !.asks = FALSE]
       IN frames' = IF Top.elem.asks
                    THEN Append(Replaced(Signal(answer)), Started("out", answer, outgoing))
                    ELSE Replaced(queries)
    /\ UNCHANGED <<callbacks, incoming, outgoing, nextNode, fault>>

\* The end of the loops of dispatch() and of operator<<.
QueriesEnd ==
    /\ LoopIsOver
    /\ Top.run \in {"in", "out"}
    /\ frames' = Popped
    /\ UNCHANGED <<callbacks, incoming, outgoing, nextNode, fault>>

Init ==
    /\ callbacks = <<>>
    /\ incoming = <<>>
    /\ outgoing = <<>>
    /\ frames = <<>>
    /\ nextNode = 1
    /\ fault = "none"

Next ==
    /\ fault = "none"
    /\ \/ RegisterIQ
       \/ UnregisterIQ
       \/ RegisterXPath
       \/ UnregisterXPath
       \/ Send
       \/ DispatchElement
       \/ CallbackReturns
       \/ QueryReturns
       \/ IQLoopEnds
       \/ SignalReturns
       \/ QueriesEnd

Spec == Init /\ [][Next]_vars

-----------------------------------------------------------------------------
(* Properties. *)

\* Types; every registration is in one container once, and those of iqs are in
\* the order of their ids, which equal_range() relies on.
TypeOK ==
    /\ callbacks \in Seq(Entries)
    /\ incoming \in Seq(Queries)
    /\ outgoing \in Seq(Queries)
    /\ frames \in Seq(Frames)
    /\ nextNode \in 1..(MaxNodes + 1)
    /\ fault \in {"none", "dangling"}
    /\ \A i, j \in DOMAIN callbacks : i < j => callbacks[i].id <= callbacks[j].id
    /\ \A c \in {callbacks, incoming, outgoing} : Cardinality(NodesOf(c)) = Len(c)

\* A loop calls nothing twice and nothing that was registered after it began; what
\* the loop of handleIQ() calls waits for the id that is answered, also when nodes
\* have been put between it and the end that was asked for; and when a loop ends
\* it has called everything that it had to and that was not unregistered meanwhile.
EachIsToldOnce ==
    /\ \A i \in DOMAIN frames :
          LET called == frames[i].called
          IN \A j, k \in DOMAIN called : called[j] < frames[i].since
                                        /\ (called[j] = called[k] => j = k)
    /\ InCall /\ Top.run = "iq" =>
          \A j \in DOMAIN callbacks :
              callbacks[j].node = Top.at => callbacks[j].id = Top.elem.id
    /\ LoopIsOver => Top.due = {}

\* Once an iq has come to the signals, none of the callbacks of its id is left for a
\* later iq of the id to fire, whatever was dispatched, registered and sent within them.
AnswersAreTakenUp ==
    \A i \in DOMAIN frames : frames[i].run \in {"signal", "in"} =>
        \A j \in DOMAIN callbacks : callbacks[j].id # frames[i].elem.id
=============================================================================
