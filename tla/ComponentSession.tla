-------------------------- MODULE ComponentSession --------------------------
(***************************************************************************)
(* jabberoo::ComponentSession: a server-side component, which proves itself *)
(* with a <handshake> and has XPath queries for what comes in.  It is       *)
(* written against the contract of StanzaStream: a push() is begun, brings  *)
(* any number of notifications of its stream, and returns or throws.        *)
(***************************************************************************)
EXTENDS Naturals, Sequences, FiniteSets, Lists

CONSTANTS
    Habits,     \* what the application does beyond the ordinary: see AllHabits
    Faults,     \* what the server does wrong: see AllFaults
    MaxQueries, \* bound: calls of registerXPath()
    MaxStreams  \* bound: calls of connect()

\* "linger": push() what arrives after disconnect().  "callback": call disconnect()
\* and unregisterXPath() from a handler.  "again": connect() a session that is not
\* disconnected.  "unregister": call unregisterXPath() at all.
AllHabits == {"linger", "callback", "again", "unregister"}

\* "garbage": what is not XML; "junk": the same, behind the end of the stream.
AllFaults == {"garbage", "junk"}

ASSUME ComponentAssumption ==
    /\ Habits \subseteq AllHabits
    /\ Faults \subseteq AllFaults
    /\ MaxQueries \in Nat
    /\ MaxStreams \in Nat

VARIABLES
    connState,  \* _connState
    stream,     \* what this listener was told: a phase of StanzaStream
    pushing,    \* push() has been called and has not returned
    xpaths,     \* _XPaths: queries, by number, the newest first
    callbacks,  \* _XPCallbacks: the queries that have one
    nextQuery,  \* the query registered next
    loop,       \* the loop of onElement(): see Loops
    endTags,    \* what was sent on this stream: how many end tags
    handshakes, \* and how many handshakes
    streamNo,   \* history: calls of connect()
    answered,   \* history: whether the last connect() was answered
    fault       \* what has stopped the process

vars == <<connState, stream, pushing, xpaths, callbacks, nextQuery, loop,
          endTags, handshakes, streamNo, answered, fault>>

ConnStates == {"csNotConnected", "csAwaitingAuth", "csConnected"}
Phases     == {"fresh", "open", "ended", "failed"}
Queries    == 1..MaxQueries

\* No node of the list is ever erased, so an iterator is a distance from its end:
\* `left' nodes are left, the one that is being called included.
Loops  == [runs : BOOLEAN, left : Nat]
NoLoop == [runs |-> FALSE, left |-> 0]

\* The handlers of evtConnected: a callback that nothing comes after.
Handlers == [runs |-> TRUE, left |-> 1]

connection == <<connState, endTags, handshakes, streamNo, answered>>
dispatch   == <<xpaths, callbacks, nextQuery, loop>>

TypeOK ==
    /\ connState \in ConnStates
    /\ stream \in Phases
    /\ pushing \in BOOLEAN
    /\ xpaths \in Seq(Queries)
    /\ callbacks \subseteq Queries
    /\ nextQuery \in 1..(MaxQueries + 1)
    /\ loop \in Loops
    /\ endTags \in Nat /\ handshakes \in Nat
    /\ streamNo \in 0..MaxStreams
    /\ answered \in BOOLEAN
    /\ fault \in {"none", "assertion", "deleted"}

Init ==
    /\ connState = "csNotConnected"
    /\ stream = "fresh"
    /\ pushing = FALSE
    /\ xpaths = <<>>
    /\ callbacks = {}
    /\ nextQuery = 1
    /\ loop = NoLoop
    /\ endTags = 0
    /\ handshakes = 0
    /\ streamNo = 0
    /\ answered = TRUE
    /\ fault = "none"

Stops(what) ==
    /\ fault' = what
    /\ UNCHANGED <<connection, dispatch>>

-----------------------------------------------------------------------------
(* The application. *)

\* connect(): an assertion, reset(), the header.
Connect ==
    /\ ~pushing
    /\ streamNo < MaxStreams
    /\ \/ /\ connState # "csNotConnected"
          /\ "again" \in Habits
          /\ Stops("assertion")
          /\ UNCHANGED stream
       \/ /\ connState = "csNotConnected"
          /\ stream' = "fresh"
          /\ connState' = "csAwaitingAuth"
          /\ endTags' = 0
          /\ handshakes' = 0
          /\ streamNo' = streamNo + 1
          /\ answered' = FALSE
          /\ UNCHANGED <<dispatch, fault>>
    /\ UNCHANGED pushing

\* Mutant of DoDisconnect: the state is left as it is.
DoDisconnect_KeepsState ==
    IF connState = "csNotConnected"
    THEN Stops("assertion")
    ELSE /\ endTags' = endTags + 1
         /\ UNCHANGED <<connState, handshakes, streamNo, answered, dispatch, fault>>

\* disconnect(): an assertion, and the end tag.
DoDisconnect ==
    IF connState = "csNotConnected"
    THEN Stops("assertion")
    ELSE /\ endTags' = endTags + 1
         /\ connState' = "csNotConnected"
         /\ answered' = TRUE
         /\ UNCHANGED <<handshakes, streamNo, dispatch, fault>>

\* The application looks at getState() first.
Disconnect ==
    /\ connState # "csNotConnected"
    /\ pushing => loop.runs /\ "callback" \in Habits
    /\ DoDisconnect
    /\ UNCHANGED <<stream, pushing>>

ApplicationRuns == pushing => loop.runs

RegisterXPath ==
    /\ ApplicationRuns
    /\ nextQuery \in Queries
    /\ xpaths' = <<nextQuery>> \o xpaths
    /\ callbacks' = callbacks \union {nextQuery}
    /\ nextQuery' = nextQuery + 1
    /\ UNCHANGED <<connection, stream, pushing, loop, fault>>

\* Mutant of Removed: the last of the list is put where the query was.
Removed_FillsWithLast(list, q) ==
    [i \in DOMAIN list |-> IF list[i] = q THEN list[Len(list)] ELSE list[i]]

\* std::remove(): the others move forward, and the list keeps its length.
Removed(list, q) ==
    LET kept == Kept(list, Queries \ {q})
    IN kept \o SubSeq(list, Len(kept) + 1, Len(list))

\* unregisterXPath(): what is left at the end of the list is not erased, be it one
\* that is registered and in the list once more, or the one that is deleted.
UnregisterXPath ==
    /\ ApplicationRuns
    /\ "unregister" \in Habits
    /\ "callback" \in Habits \/ ~loop.runs
    /\ \E q \in callbacks :
          /\ xpaths' = Removed(xpaths, q)
          /\ callbacks' = callbacks \ {q}
    /\ UNCHANGED <<connection, stream, pushing, nextQuery, loop, fault>>

\* push() of what has arrived.  ElementStream::push() asserts that the document
\* has not ended.
Push ==
    /\ ~pushing
    /\ streamNo > 0
    /\ connState # "csNotConnected" \/ "linger" \in Habits
    /\ IF stream = "ended"
       THEN fault' = "assertion" /\ UNCHANGED pushing
       ELSE pushing' = TRUE /\ UNCHANGED fault
    /\ UNCHANGED <<connection, dispatch, stream>>

-----------------------------------------------------------------------------
(* What a push() brings. *)

Parses == pushing /\ ~loop.runs

PushReturns ==
    /\ Parses
    /\ pushing' = FALSE
    /\ UNCHANGED <<connection, dispatch, stream, fault>>

\* ParserError: push() disconnects.  On a stream that has failed there is nothing
\* but the same error, whatever is pushed.
ParserError ==
    /\ Parses
    /\ \/ stream = "failed"
       \/ "garbage" \in Faults /\ stream # "ended"
       \/ "junk" \in Faults /\ stream = "ended"
    /\ stream' = "failed"
    /\ pushing' = FALSE
    /\ DoDisconnect

\* Mutant of DocumentStart: no handshake is sent.
DocumentStart_Silent ==
    /\ Parses
    /\ stream = "fresh"
    /\ stream' = "open"
    /\ UNCHANGED <<connection, dispatch, pushing, fault>>

\* onDocumentStart(): the handshake.
DocumentStart ==
    /\ Parses
    /\ stream = "fresh"
    /\ stream' = "open"
    /\ handshakes' = handshakes + 1
    /\ UNCHANGED <<connState, endTags, streamNo, answered, dispatch, pushing, fault>>

\* onElement() of a <handshake>: the server has accepted what it was sent.
Handshake ==
    /\ Parses
    /\ stream = "open"
    /\ handshakes > 0
    /\ connState # "csConnected"
    /\ connState' = "csConnected"
    /\ answered' = TRUE
    /\ loop' = Handlers
    /\ UNCHANGED <<endTags, handshakes, streamNo, xpaths, callbacks, nextQuery,
                   stream, pushing, fault>>

\* The loop is at a node with `left' nodes from it on: its query is checked, which
\* must not be deleted, and its callback run.
Visit(left) ==
    IF left = 0
    THEN loop' = NoLoop /\ UNCHANGED fault
    ELSE IF xpaths[Len(xpaths) - left + 1] \in callbacks
    THEN loop' = [runs |-> TRUE, left |-> left] /\ UNCHANGED fault
    ELSE fault' = "deleted" /\ UNCHANGED loop

\* onElement() of anything else, which all queries select.
Element ==
    /\ Parses
    /\ stream = "open"
    /\ Visit(Len(xpaths))
    /\ UNCHANGED <<connection, xpaths, callbacks, nextQuery, stream, pushing>>

\* A callback returns, and the loop goes on.
CallbackReturns ==
    /\ loop.runs
    /\ Visit(loop.left - 1)
    /\ UNCHANGED <<connection, xpaths, callbacks, nextQuery, stream, pushing>>

\* onDocumentEnd()
DocumentEnd ==
    /\ Parses
    /\ stream = "open"
    /\ stream' = "ended"
    /\ DoDisconnect
    /\ UNCHANGED pushing

Next ==
    /\ fault = "none"
    /\ \/ Connect
       \/ Disconnect
       \/ RegisterXPath
       \/ UnregisterXPath
       \/ Push
       \/ PushReturns
       \/ ParserError
       \/ DocumentStart
       \/ Handshake
       \/ Element
       \/ CallbackReturns
       \/ DocumentEnd

Spec == Init /\ [][Next]_vars

\* A component pushes what arrives and its handlers return.  The server sends its
\* header, and answers a handshake if only by ending the stream.
FairSpec ==
    /\ Spec
    /\ WF_vars(fault = "none" /\ Push)
    /\ WF_vars(fault = "none" /\ CallbackReturns)
    /\ SF_vars(fault = "none" /\ DocumentStart)
    /\ SF_vars(fault = "none" /\ handshakes > 0 /\ (Handshake \/ DocumentEnd))

-----------------------------------------------------------------------------
(* Properties. *)

\* No assertion of connect(), disconnect() and push() fails.  Three parties end a
\* stream (disconnect(), the server's end tag and an error of the parser) and all of
\* them call disconnect(), which may be called once.
AssertionsHold == fault # "assertion"

\* However the std::remove() of others has shuffled the list, it begins with the
\* queries that are registered, the newest first and each once: a loop of onElement()
\* that is left alone has told all of them before it comes to what was left behind.
RegisteredComeFirst ==
    \E n \in 0..Len(xpaths) :
       /\ {xpaths[i] : i \in 1..n} = callbacks
       /\ \A i, j \in 1..n : i < j => xpaths[j] < xpaths[i]

\* Every connect() is answered: by evtConnected, or by the end of the connection,
\* unless the process has stopped.
ConnectIsAnswered == ~answered ~> (answered \/ fault # "none")
=============================================================================
