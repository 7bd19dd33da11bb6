----------------------- MODULE ComponentSession_proofs -----------------------
(***************************************************************************)
(* For any number of queries and of streams: the list of onElement() begins *)
(* with what is registered, whatever handlers do, and no assertion fails    *)
(* while the component leaves a stream alone once it has ended.             *)
(***************************************************************************)
EXTENDS ComponentSession, Lists_proofs

\* The list begins with n queries, the newest first, which are those of S.
BeginsWith(list, n, S) ==
    /\ n \in 0..Len(list)
    /\ {list[i] : i \in 1..n} = S
    /\ \A i, j \in 1..n : i < j => list[j] < list[i]

\* What is registered was numbered, and a loop that runs is at a node.
DispatchInv ==
    /\ TypeOK
    /\ loop.runs => loop.left > 0
    /\ \A q \in callbacks : q < nextQuery
    /\ \E n : BeginsWith(xpaths, n, callbacks)

\* When a stream has ended the session is disconnected, and it is disconnected by
\* nothing else while it is pushed what arrives.
EndsDisconnect ==
    /\ stream \in {"ended", "failed"} => connState = "csNotConnected"
    /\ pushing => stream # "failed"
    /\ pushing /\ stream # "ended" => connState # "csNotConnected"

ConnectionInv == AssertionsHold /\ EndsDisconnect

-----------------------------------------------------------------------------
LEMMA RemovedIsTyped ==
    ASSUME NEW list \in Seq(Queries), NEW q
    PROVE  Removed(list, q) \in Seq(Queries)
<1> DEFINE kept == Kept(list, Queries \ {q})
           tail == SubSeq(list, Len(kept) + 1, Len(list))
<1>1. /\ kept \in Seq(Queries) /\ Len(kept) \in Nat
      /\ Len(list) \in Nat
      /\ \A i \in 1..Len(list) : list[i] \in Queries
  BY KeptProperties, LenProperties, ElementOfSeq
<1> HIDE DEF kept
<1>2. tail \in Seq(Queries)
  BY <1>1, SubSeqProperties
<1>3. kept \o tail \in Seq(Queries)
  BY <1>1, <1>2, ConcatProperties
<1> QED  BY <1>3 DEF Removed, kept, tail

\* std::remove() of one that is registered leaves the others at the beginning.
LEMMA RemovedLeavesOthers ==
    ASSUME NEW list \in Seq(Queries), NEW q \in Queries, NEW n, NEW S,
           BeginsWith(list, n, S)
    PROVE  \E m : BeginsWith(Removed(list, q), m, S \ {q})
<1> DEFINE kept == Kept(list, Queries \ {q})
           tail == SubSeq(list, Len(kept) + 1, Len(list))
<1>1. /\ kept \in Seq(Queries) /\ Len(kept) <= Len(list)
      /\ Len(kept) \in Nat /\ Len(list) \in Nat
      /\ \A i \in 1..Len(list) : list[i] \in Queries
  BY KeptProperties, LenProperties, ElementOfSeq
<1>2. PICK h : LeftFrom(kept, list, Queries \ {q}, Len(list), h)
  BY KeptProperties
<1> HIDE DEF kept
<1>3. tail \in Seq(Queries) /\ Len(tail) \in Nat
  BY <1>1, SubSeqProperties, LenProperties
<1> HIDE DEF tail
<1>4. /\ kept \o tail \in Seq(Queries)
      /\ Len(kept \o tail) = Len(kept) + Len(tail)
      /\ \A j \in 1..Len(kept) : (kept \o tail)[j] = kept[j]
  BY <1>1, <1>3, ConcatProperties
<1>5. n \in 0..Len(list) /\ n \in Nat
  BY <1>1 DEF BeginsWith
\* The first place of kept that is not from the beginning of the list.
<1> DEFINE Beyond == {j \in 1..(Len(kept) + 1) : j = Len(kept) + 1 \/ h[j] > n}
<1>6. PICK last \in Beyond : \A j \in Beyond : last <= j
  <2>1. Beyond \subseteq Nat /\ Beyond # {}
    BY <1>1
  <2> HIDE DEF Beyond
  <2> QED  BY <2>1, LeastNatural
<1>7. /\ last \in 1..(Len(kept) + 1)
      /\ \A j \in 1..Len(kept) : h[j] \in 1..Len(list)
      /\ \A j \in 1..Len(kept) : kept[j] = list[h[j]] /\ list[h[j]] # q
      /\ \A j, k \in 1..Len(kept) : j < k => h[j] < h[k]
      /\ \A i \in 1..Len(list) : list[i] # q => \E j \in 1..Len(kept) : h[j] = i
  BY <1>1, <1>2, <1>6 DEF LeftFrom
<1>8. ASSUME NEW j \in 1..Len(kept) PROVE j < last <=> h[j] <= n
  <2>1. CASE j < last
    <3>1. j \notin Beyond
      BY <1>1, <1>6, <1>7, <2>1
    <3> QED  BY <1>1, <1>5, <1>7, <2>1, <3>1
  <2>2. CASE last <= j
    <3>1. last \in 1..Len(kept) /\ h[last] > n
      BY <1>1, <1>6, <2>2
    <3>2. h[last] <= h[j]
      BY <1>1, <1>7, <2>2, <3>1
    <3> QED  BY <1>1, <1>5, <1>7, <2>2, <3>1, <3>2
  <2> QED  BY <1>1, <1>7, <2>1, <2>2
<1> HIDE DEF Beyond
<1> DEFINE m == last - 1
           r == kept \o tail
<1>9. /\ m \in 0..Len(kept) /\ m \in 0..Len(r)
      /\ \A j \in 1..m : /\ j \in 1..Len(kept) /\ h[j] \in 1..n
                          /\ r[j] = list[h[j]] /\ list[h[j]] # q
  BY <1>1, <1>3, <1>4, <1>5, <1>7, <1>8
<1>10. \A i \in 1..n : list[i] # q => \E j \in 1..m : h[j] = i
  BY <1>1, <1>5, <1>7, <1>8
<1> HIDE DEF m, r
<1>11. {r[j] : j \in 1..m} = S \ {q}
  <2>1. ASSUME NEW j \in 1..m PROVE r[j] \in S \ {q}
    BY <1>9 DEF BeginsWith
  <2>2. ASSUME NEW p \in S \ {q} PROVE \E j \in 1..m : r[j] = p
    <3>1. PICK i \in 1..n : list[i] = p
      BY DEF BeginsWith
    <3>2. PICK j \in 1..m : h[j] = i
      BY <1>10, <3>1
    <3> QED  BY <1>9, <3>1, <3>2
  <2> QED  BY <2>1, <2>2
<1>12. ASSUME NEW j \in 1..m, NEW k \in 1..m, j < k PROVE r[k] < r[j]
  <2>1. h[j] \in 1..n /\ h[k] \in 1..n /\ h[j] < h[k]
    BY <1>7, <1>9, <1>12
  <2>2. list[h[k]] < list[h[j]]
    BY <2>1 DEF BeginsWith
  <2> QED  BY <1>9, <2>2
<1>13. BeginsWith(r, m, S \ {q})
  BY <1>9, <1>11, <1>12 DEF BeginsWith
<1>14. Removed(list, q) = r
  BY DEF Removed, kept, tail, r
<1> QED  BY <1>13, <1>14

\* Where a query is once another one has been put in front.
LEMMA PrependShifts ==
    ASSUME NEW list \in Seq(Queries), NEW q \in Queries
    PROVE  /\ <<q>> \o list \in Seq(Queries)
           /\ Len(list) \in Nat
           /\ Len(<<q>> \o list) = Len(list) + 1
           /\ (<<q>> \o list)[1] = q
           /\ \A i \in 1..Len(list) : (<<q>> \o list)[i + 1] = list[i]
<1>1. <<q>> \in Seq(Queries) /\ Len(<<q>>) = 1 /\ <<q>>[1] = q
  OBVIOUS
<1>2. Len(list) \in Nat
  BY LenProperties
<1>3. /\ <<q>> \o list \in Seq(Queries)
      /\ Len(<<q>> \o list) = 1 + Len(list)
      /\ \A i \in 1..(1 + Len(list)) :
            (<<q>> \o list)[i] = IF i <= 1 THEN <<q>>[i] ELSE list[i - 1]
  BY <1>1, ConcatProperties
<1> QED  BY <1>1, <1>2, <1>3

\* A query that is newer than those at the beginning is put in front of them.
LEMMA PrependLeavesOthers ==
    ASSUME NEW list \in Seq(Queries), NEW q \in Queries, NEW n, NEW S,
           BeginsWith(list, n, S), \A p \in S : p < q
    PROVE  BeginsWith(<<q>> \o list, n + 1, S \union {q})
<1> DEFINE r == <<q>> \o list
<1>1. /\ Len(list) \in Nat /\ Len(r) = Len(list) + 1 /\ r[1] = q
      /\ \A i \in 1..Len(list) : r[i + 1] = list[i]
  BY PrependShifts
<1> HIDE DEF r
<1>2. /\ n \in 0..Len(list) /\ n \in Nat
      /\ {list[i] : i \in 1..n} = S
      /\ \A i, j \in 1..n : i < j => list[j] < list[i]
  BY <1>1 DEF BeginsWith
<1>3. \A i \in 1..(n + 1) : i = 1 \/ (i - 1 \in 1..n /\ r[i] = list[i - 1])
  BY <1>1, <1>2
<1>4. n + 1 \in 0..Len(r)
  BY <1>1, <1>2
<1>5. {r[i] : i \in 1..(n + 1)} = S \union {q}
  <2>1. ASSUME NEW i \in 1..(n + 1) PROVE r[i] \in S \union {q}
    BY <1>1, <1>2, <1>3
  <2>2. ASSUME NEW p \in S PROVE \E i \in 1..(n + 1) : r[i] = p
    <3>1. PICK i \in 1..n : list[i] = p
      BY <1>2
    <3>2. i + 1 \in 1..(n + 1) /\ r[i + 1] = p
      BY <1>1, <1>2, <3>1
    <3> QED  BY <3>2
  <2>3. 1 \in 1..(n + 1)
    BY <1>2
  <2> QED  BY <1>1, <2>1, <2>2, <2>3
<1>6. ASSUME NEW i \in 1..(n + 1), NEW j \in 1..(n + 1), i < j PROVE r[j] < r[i]
  <2>1. j - 1 \in 1..n /\ r[j] = list[j - 1]
    BY <1>2, <1>3, <1>6
  <2>2. CASE i = 1
    BY <1>1, <1>2, <2>1, <2>2
  <2>3. CASE i # 1
    <3>1. i - 1 \in 1..n /\ r[i] = list[i - 1] /\ i - 1 < j - 1
      BY <1>2, <1>3, <1>6, <2>3
    <3> QED  BY <1>2, <2>1, <3>1
  <2> QED  BY <2>2, <2>3
<1>7. BeginsWith(r, n + 1, S \union {q})
  BY <1>4, <1>5, <1>6 DEF BeginsWith
<1> QED  BY <1>7 DEF r

\* A step of a loop that is at a node, if there is one left.
LEMMA VisitIsTyped ==
    ASSUME loop \in Loops, loop.runs => loop.left > 0,
           fault \in {"none", "assertion", "deleted"},
           NEW left \in Nat, Visit(left)
    PROVE  /\ loop' \in Loops
           /\ loop'.runs => loop'.left > 0
           /\ fault' \in {"none", "assertion", "deleted"}
<1>1. CASE left = 0
  <2>1. loop' = NoLoop /\ UNCHANGED fault
    BY <1>1 DEF Visit
  <2>2. NoLoop \in Loops /\ ~NoLoop.runs
    BY DEF NoLoop, Loops
  <2> QED  BY <2>1, <2>2
<1>2. CASE left # 0 /\ loop' = [runs |-> TRUE, left |-> left] /\ UNCHANGED fault
  BY <1>2 DEF Loops
<1>3. CASE fault' = "deleted" /\ UNCHANGED loop
  BY <1>3
<1> QED  BY <1>1, <1>2, <1>3 DEF Visit

LEMMA StepType ==
    ASSUME TypeOK, Next, loop.runs => loop.left > 0
    PROVE  TypeOK' /\ (loop'.runs => loop'.left > 0)
<1> USE ComponentAssumption DEF TypeOK, connection, dispatch, ConnStates, Phases
<1>1. /\ MaxQueries \in Nat /\ MaxStreams \in Nat
      /\ nextQuery \in 1..(MaxQueries + 1) /\ streamNo \in 0..MaxStreams
  OBVIOUS
<1>2. CASE Connect
  <2>1. CASE connState # "csNotConnected"
    BY <1>2, <2>1 DEF Connect, Stops
  <2>2. CASE connState = "csNotConnected"
    <3>1. /\ stream' = "fresh" /\ connState' = "csAwaitingAuth"
          /\ endTags' = 0 /\ handshakes' = 0 /\ answered' = FALSE
          /\ streamNo < MaxStreams /\ streamNo' = streamNo + 1
          /\ UNCHANGED <<dispatch, fault, pushing>>
      BY <1>2, <2>2 DEF Connect
    <3>2. streamNo' \in 0..MaxStreams
      BY <3>1
    <3> QED  BY <3>1, <3>2
  <2> QED  BY <1>2, <2>1, <2>2 DEF Connect
<1>3. ASSUME DoDisconnect, stream' \in Phases, pushing' \in BOOLEAN
      PROVE  TypeOK' /\ (loop'.runs => loop'.left > 0)
  <2>1. /\ connState' \in ConnStates /\ endTags' \in Nat /\ answered' \in BOOLEAN
        /\ fault' \in {"none", "assertion", "deleted"}
        /\ UNCHANGED <<handshakes, streamNo, dispatch>>
    <3>1. CASE connState = "csNotConnected"
      BY <1>3, <3>1 DEF DoDisconnect, Stops
    <3>2. CASE connState # "csNotConnected"
      BY <1>3, <3>2 DEF DoDisconnect
    <3> QED  BY <3>1, <3>2
  <2> QED  BY <1>3, <2>1
<1>14. CASE Disconnect
  BY <1>3, <1>14 DEF Disconnect
<1>4. CASE RegisterXPath
  <2>1. xpaths' \in Seq(Queries)
    BY <1>4, PrependShifts DEF RegisterXPath
  <2> QED  BY <1>4, <2>1 DEF RegisterXPath, Queries
<1>5. CASE UnregisterXPath
  <2>1. PICK q \in callbacks : /\ xpaths' = Removed(xpaths, q)
                               /\ callbacks' = callbacks \ {q}
    BY <1>5 DEF UnregisterXPath
  <2>2. xpaths' \in Seq(Queries)
    BY <2>1, RemovedIsTyped
  <2> QED  BY <1>5, <2>1, <2>2 DEF UnregisterXPath
<1>6. CASE Push
  BY <1>6 DEF Push
<1>7. CASE PushReturns
  BY <1>7 DEF PushReturns
<1>8. CASE ParserError
  BY <1>3, <1>8 DEF ParserError
<1>9. CASE DocumentStart
  BY <1>9 DEF DocumentStart
<1>10. CASE Handshake
  <2>1. loop' \in Loops /\ loop'.left > 0
    BY <1>10 DEF Handshake, Handlers, Loops
  <2> QED  BY <1>10, <2>1 DEF Handshake
<1>11. CASE Element
  <2>1. Len(xpaths) \in Nat
    BY LenProperties
  <2>2. PICK left \in Nat : Visit(left)
    BY <1>11, <2>1 DEF Element
  <2>3. /\ loop' \in Loops /\ (loop'.runs => loop'.left > 0)
        /\ fault' \in {"none", "assertion", "deleted"}
    BY <2>2, VisitIsTyped
  <2> QED  BY <1>11, <2>3 DEF Element
<1>12. CASE CallbackReturns
  <2>1. loop.left - 1 \in Nat
    BY <1>12 DEF CallbackReturns, Loops
  <2>2. PICK left \in Nat : Visit(left)
    BY <1>12, <2>1 DEF CallbackReturns
  <2>3. /\ loop' \in Loops /\ (loop'.runs => loop'.left > 0)
        /\ fault' \in {"none", "assertion", "deleted"}
    BY <2>2, VisitIsTyped
  <2> QED  BY <1>12, <2>3 DEF CallbackReturns
<1>13. CASE DocumentEnd
  BY <1>3, <1>13 DEF DocumentEnd
<1> QED
  BY <1>2, <1>14, <1>4, <1>5, <1>6, <1>7, <1>8, <1>9, <1>10, <1>11, <1>12, <1>13
  DEF Next

\* Initially nothing is registered and no loop runs.
LEMMA InitDispatch == Init => DispatchInv
<1> SUFFICES ASSUME Init PROVE DispatchInv
  OBVIOUS
<1>1. MaxQueries \in Nat /\ MaxStreams \in Nat
  BY ComponentAssumption
<1>2. xpaths \in Seq(Queries)
  BY DEF Init
<1>3. loop \in Loops
  BY DEF Init, NoLoop, Loops
<1>4. nextQuery \in 1..(MaxQueries + 1) /\ streamNo \in 0..MaxStreams
  BY <1>1 DEF Init
<1>5. TypeOK
  BY <1>2, <1>3, <1>4 DEF Init, TypeOK, ConnStates, Phases
<1>6. BeginsWith(xpaths, 0, callbacks)
  BY <1>2, LenProperties DEF Init, BeginsWith
<1> QED  BY <1>5, <1>6 DEF Init, DispatchInv, NoLoop

\* registerXPath() and unregisterXPath() keep what is registered at the beginning,
\* whatever loop runs.
LEMMA StepDispatch ==
    ASSUME DispatchInv, Next
    PROVE  DispatchInv'
<1> USE DEF DispatchInv
<1>1. TypeOK' /\ (loop'.runs => loop'.left > 0)
  BY StepType
<1>2. /\ xpaths \in Seq(Queries) /\ callbacks \subseteq Queries
      /\ nextQuery \in Nat /\ \A q \in callbacks : q \in Nat
  BY ComponentAssumption DEF TypeOK, Queries
<1>3. PICK n : BeginsWith(xpaths, n, callbacks)
  OBVIOUS
<1>4. CASE RegisterXPath
  <2>1. /\ nextQuery \in Queries /\ nextQuery' = nextQuery + 1
        /\ xpaths' = <<nextQuery>> \o xpaths
        /\ callbacks' = callbacks \union {nextQuery}
    BY <1>4 DEF RegisterXPath
  <2>2. BeginsWith(xpaths', n + 1, callbacks')
    BY <1>2, <1>3, <2>1, PrependLeavesOthers
  <2>3. \A q \in callbacks' : q < nextQuery'
    BY <1>2, <2>1
  <2> QED  BY <1>1, <2>2, <2>3
<1>5. CASE UnregisterXPath
  <2>1. PICK q \in callbacks : /\ xpaths' = Removed(xpaths, q)
                               /\ callbacks' = callbacks \ {q}
                               /\ nextQuery' = nextQuery
    BY <1>5 DEF UnregisterXPath
  <2>2. q \in Queries
    BY <1>2
  <2>3. \E m : BeginsWith(xpaths', m, callbacks')
    BY <1>2, <1>3, <2>1, <2>2, RemovedLeavesOthers
  <2> QED  BY <1>1, <2>1, <2>3
<1>6. CASE Connect \/ Disconnect \/ Push \/ PushReturns \/ ParserError \/ DocumentStart
            \/ Handshake \/ Element \/ CallbackReturns \/ DocumentEnd
  <2>1. UNCHANGED <<xpaths, callbacks, nextQuery>>
    BY <1>6 DEF Connect, Stops, Disconnect, DoDisconnect, Push, PushReturns, ParserError,
                DocumentStart, Handshake, Element, CallbackReturns, DocumentEnd, dispatch
  <2> QED  BY <1>1, <1>3, <2>1 DEF BeginsWith
<1> QED  BY <1>4, <1>5, <1>6 DEF Next

-----------------------------------------------------------------------------
\* The list of onElement() begins with the queries that are registered, the newest
\* first and each once, whatever registerXPath() and unregisterXPath() have done to
\* it, from callbacks too.
THEOREM RegisteredComeFirstAlways == Spec => []RegisteredComeFirst
<1>1. Init => DispatchInv
  BY InitDispatch
<1>2. DispatchInv /\ [Next]_vars => DispatchInv'
  <2>1. DispatchInv /\ UNCHANGED vars => DispatchInv'
    BY DEF vars, DispatchInv, TypeOK, BeginsWith
  <2> QED  BY <2>1, StepDispatch
<1>3. DispatchInv => RegisteredComeFirst
  BY DEF DispatchInv, BeginsWith, RegisteredComeFirst
<1> QED  BY <1>1, <1>2, <1>3, PTL DEF Spec

\* As long as nothing else ends a stream, its end finds the session connected.
LEMMA StepConnection ==
    ASSUME Habits \subseteq {"unregister"}, "junk" \notin Faults, ConnectionInv, Next
    PROVE  ConnectionInv'
<1> USE DEF ConnectionInv, AssertionsHold, EndsDisconnect
<1>1. fault = "none" /\ "again" \notin Habits /\ "linger" \notin Habits
      /\ "callback" \notin Habits
  BY DEF Next
<1>2. CASE Connect
  BY <1>1, <1>2 DEF Connect
<1>3. CASE Disconnect
  BY <1>1, <1>3 DEF Disconnect, DoDisconnect
<1>4. CASE Push
  BY <1>1, <1>4 DEF Push, connection
<1>5. CASE ParserError
  BY <1>1, <1>5 DEF ParserError, DoDisconnect, Parses
<1>6. CASE Handshake
  BY <1>1, <1>6 DEF Handshake
<1>7. CASE DocumentStart
  BY <1>1, <1>7 DEF DocumentStart, Parses
<1>8. CASE DocumentEnd
  BY <1>1, <1>8 DEF DocumentEnd, DoDisconnect, Parses
<1>9. CASE RegisterXPath \/ UnregisterXPath \/ PushReturns \/ Element \/ CallbackReturns
  BY <1>1, <1>9 DEF RegisterXPath, UnregisterXPath, PushReturns, Element, CallbackReturns,
                    Visit, connection
<1> QED  BY <1>2, <1>3, <1>4, <1>5, <1>6, <1>7, <1>8, <1>9 DEF Next

\* No assertion of connect(), disconnect() and push() fails for a component that
\* looks at getState() and leaves a stream alone once it has ended, if nothing
\* follows the end of a stream.
THEOREM NoAssertionFails ==
    Habits \subseteq {"unregister"} /\ "junk" \notin Faults => (Spec => []AssertionsHold)
<1> SUFFICES ASSUME Habits \subseteq {"unregister"}, "junk" \notin Faults
             PROVE  Spec => []AssertionsHold
  OBVIOUS
<1>1. Init => ConnectionInv
  BY DEF Init, ConnectionInv, AssertionsHold, EndsDisconnect
<1>2. ConnectionInv /\ [Next]_vars => ConnectionInv'
  <2>1. ConnectionInv /\ UNCHANGED vars => ConnectionInv'
    BY DEF vars, ConnectionInv, AssertionsHold, EndsDisconnect
  <2> QED  BY <2>1, StepConnection
<1>3. ConnectionInv => AssertionsHold
  BY DEF ConnectionInv
<1> QED  BY <1>1, <1>2, <1>3, PTL DEF Spec
=============================================================================
