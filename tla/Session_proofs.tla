---------------------------- MODULE Session_proofs ----------------------------
(***************************************************************************)
(* For all bounds, all habits of the application and all faults of the      *)
(* server: an answer finds only the callback that was registered for its    *)
(* request, on its own stream, and the session is connected only if the     *)
(* server accepted a login on the stream.  With fewer habits and faults,    *)
(* which each theorem names: what the Session keeps of the stream is true   *)
(* of it, it is neither dropped nor revived by what an earlier stream left  *)
(* behind, and a login is always under way until a signal answers it.       *)
(***************************************************************************)
EXTENDS Session, SequenceTheorems, TLAPS

\* The messages in a queue.
Elems(s) == {s[i] : i \in 1..Len(s)}

\* Callback c waits for the answer to a request of this kind on this stream.
Meant(c, kind) ==
    /\ c.stream = streamNo
    /\ kind \in DOMAIN HandlerOf
    /\ HandlerOf[kind] = c.handler

IsRequest(m) == m.kind \in Requests
IsAnswer(m)  == m.kind = "iq"

RequestsAreOld == \A m \in Elems(up) : IsRequest(m) => m.id < nextID
AnswersAreOld  == \A m \in Elems(down) : IsAnswer(m) => m.id < nextID

RequestsMatch ==
    \A m \in Elems(up), c \in callbacks :
        IsRequest(m) /\ m.id = c.id => Meant(c, m.kind)
AnswersMatch ==
    \A m \in Elems(down), c \in callbacks :
        IsAnswer(m) /\ m.id = c.id => Meant(c, m.re)

ResultsAreAccepted ==
    \A m \in Elems(down) :
        IsAnswer(m) /\ m.re = "authSet" /\ m.type = "result" => accepted

IdInv == RequestsAreOld /\ AnswersAreOld /\ RequestsMatch /\ AnswersMatch

IInv == TypeOK /\ IdInv /\ ResultsAreAccepted /\ ConnectedIsAccepted

\* The parts of TypeOK: what the ids are about, and the rest.
Callback == [id : Nat, handler : Handlers, stream : Nat]

QueuesOK ==
    /\ nextID \in Nat
    /\ streamNo \in Nat
    /\ callbacks \in SUBSET Callback
    /\ \A c \in callbacks : c.id < nextID /\ c.stream <= streamNo
    /\ up \in Seq(UpMessages)
    /\ down \in Seq(DownMessages)

ScalarsOK ==
    /\ connState \in ConnStates
    /\ authType \in AllAuthTypes
    /\ authenticate \in BOOLEAN
    /\ streamStart \in BOOLEAN
    /\ header \in Headers
    /\ stream \in {"fresh", "open", "ended", "failed"}
    /\ docEnded \in BOOLEAN
    /\ frame \in [kind : Frames, id : Nat]
    /\ linked \in BOOLEAN
    /\ server \in {"silent", "open", "closed"}
    /\ fault \in {"none", "nullQuery", "badHeader", "assertion"}
    /\ accepted \in BOOLEAN
    /\ event \in Events \union {"none"}

\* What a step of the Session does to the ids: the requests and callbacks it
\* adds have ids that were never given out, and go together.
Issues ==
    /\ nextID' \in Nat
    /\ nextID <= nextID'
    /\ up' \in Seq(UpMessages)
    /\ \A m \in Elems(up') :
          m \in Elems(up) \/ (IsRequest(m) => nextID <= m.id /\ m.id < nextID')
    /\ callbacks' \in SUBSET Callback
    /\ \A c \in callbacks' :
          c \in callbacks \/ (/\ nextID <= c.id /\ c.id < nextID'
                             /\ c.stream = streamNo)
    /\ \A m \in Elems(up'), c \in callbacks' :
          nextID <= c.id /\ IsRequest(m) /\ m.id = c.id => Meant(c, m.kind)

\* Nothing is added to what is on its way down.
Reads == down' \in Seq(DownMessages) /\ Elems(down') \subseteq Elems(down)

-----------------------------------------------------------------------------
\* What is sent is added to the messages of a queue.
LEMMA ElemsAppend ==
    ASSUME NEW S, NEW s \in Seq(S), NEW e \in S
    PROVE  /\ Append(s, e) \in Seq(S)
           /\ Elems(Append(s, e)) = Elems(s) \union {e}
<1>1. /\ Append(s, e) \in Seq(S)
      /\ Len(Append(s, e)) = Len(s) + 1
      /\ \A i \in 1..Len(s) : Append(s, e)[i] = s[i]
      /\ Append(s, e)[Len(s) + 1] = e
  BY AppendProperties
<1>2. Len(s) \in Nat
  BY LenProperties
<1> DEFINE t == Append(s, e)
<1> HIDE DEF t
<1>3. /\ Len(t) = Len(s) + 1
      /\ \A i \in 1..Len(s) : t[i] = s[i]
      /\ t[Len(s) + 1] = e
  BY <1>1 DEF t
<1>4. 1..Len(t) = (1..Len(s)) \union {Len(s) + 1}
  BY <1>2, <1>3
<1>5. Elems(t) = Elems(s) \union {e}
  BY <1>3, <1>4 DEF Elems
<1> QED
  BY <1>1, <1>5 DEF t

\* What is taken from the front was in the queue, and so is what is left.
LEMMA ElemsTail ==
    ASSUME NEW S, NEW s \in Seq(S), s # <<>>
    PROVE  /\ Tail(s) \in Seq(S)
           /\ Elems(Tail(s)) \subseteq Elems(s)
           /\ Head(s) \in Elems(s)
           /\ Head(s) \in S
<1>1. Len(s) \in Nat /\ Len(s) >= 1
  BY EmptySeq, LenProperties
<1> DEFINE t == Tail(s)
<1>2. /\ t \in Seq(S)
      /\ Len(t) = Len(s) - 1
      /\ \A i \in 1..Len(t) : t[i] = s[i + 1]
      /\ Head(s) \in S
  BY HeadTailProperties
<1>3. Head(s) = s[1]
  BY <1>1
<1> HIDE DEF t
<1>4. ASSUME NEW i \in 1..Len(t) PROVE i + 1 \in 1..Len(s)
  BY <1>1, <1>2
<1>5. Elems(t) \subseteq Elems(s)
  BY <1>2, <1>4 DEF Elems
<1>6. 1 \in 1..Len(s)
  BY <1>1
<1>7. Head(s) \in Elems(s)
  BY <1>3, <1>6 DEF Elems
<1> QED
  BY <1>2, <1>5, <1>7 DEF t

\* An empty queue holds no message, a queue of one holds that one.
LEMMA ElemsFew ==
    ASSUME NEW S, NEW e \in S
    PROVE  /\ <<>> \in Seq(S) /\ Elems(<<>>) = {}
           /\ <<e>> \in Seq(S) /\ Elems(<<e>>) = {e}
<1>1. Elems(<<>>) = {}
  BY EmptySeq DEF Elems
<1>2. Len(<<e>>) = 1 /\ <<e>>[1] = e
  OBVIOUS
<1>3. Elems(<<e>>) = {e}
  BY <1>2 DEF Elems
<1> QED
  BY <1>1, <1>3, EmptySeq

\* A queue behind a queue.
LEMMA ElemsConcat ==
    ASSUME NEW S, NEW s \in Seq(S), NEW t \in Seq(S)
    PROVE  /\ s \o t \in Seq(S)
           /\ Elems(s \o t) \subseteq Elems(s) \union Elems(t)
<1>1. Len(s) \in Nat /\ Len(t) \in Nat
  BY LenProperties
<1> DEFINE u == s \o t
<1>2. /\ u \in Seq(S)
      /\ Len(u) = Len(s) + Len(t)
      /\ \A i \in 1..(Len(s) + Len(t)) :
            u[i] = IF i <= Len(s) THEN s[i] ELSE t[i - Len(s)]
  BY ConcatProperties
<1> HIDE DEF u
<1>3. ASSUME NEW i \in 1..Len(u) PROVE u[i] \in Elems(s) \union Elems(t)
  <2>1. CASE i <= Len(s)
    <3>1. i \in 1..Len(s) /\ u[i] = s[i]
      BY <1>1, <1>2, <2>1
    <3> QED
      BY <3>1 DEF Elems
  <2>2. CASE ~(i <= Len(s))
    <3>1. i - Len(s) \in 1..Len(t) /\ u[i] = t[i - Len(s)]
      BY <1>1, <1>2, <2>2
    <3> QED
      BY <3>1 DEF Elems
  <2> QED
    BY <2>1, <2>2
<1>4. Elems(u) \subseteq Elems(s) \union Elems(t)
  BY <1>3 DEF Elems
<1> QED
  BY <1>2, <1>4 DEF u

-----------------------------------------------------------------------------
LEMMA TypeParts == TypeOK <=> QueuesOK /\ ScalarsOK
  BY DEF TypeOK, QueuesOK, ScalarsOK, Callback

\* A step that issues ids properly keeps the ids right, and may be connected
\* only if the server accepted.
LEMMA IssuesIsSafe ==
    ASSUME IInv, Issues, Reads, UNCHANGED <<streamNo, accepted>>,
           connState' = "csConnected" => connState = "csConnected" \/ accepted
    PROVE  QueuesOK' /\ IdInv' /\ ResultsAreAccepted' /\ ConnectedIsAccepted'
<1>1. QueuesOK /\ IdInv /\ ResultsAreAccepted /\ ConnectedIsAccepted
  BY TypeParts DEF IInv
<1>2. ASSUME NEW c \in callbacks'
      PROVE  c.id < nextID' /\ c.stream <= streamNo'
  <2>1. c \in Callback /\ c.id \in Nat
    BY DEF Issues, Callback
  <2>2. CASE c \in callbacks
    BY <1>1, <2>1, <2>2 DEF Issues, QueuesOK
  <2>3. CASE c \notin callbacks
    BY <1>1, <2>1, <2>3 DEF Issues, QueuesOK
  <2> QED
    BY <2>2, <2>3
<1>3. QueuesOK'
  BY <1>1, <1>2 DEF Issues, Reads, QueuesOK
<1>4. ASSUME NEW m \in Elems(up'), IsRequest(m)
      PROVE  m.id \in Nat /\ m.id < nextID'
  <2>1. m \in UpMessages
    <3>1. PICK i \in 1..Len(up') : m = up'[i]
      BY DEF Elems
    <3> QED
      BY <3>1, ElementOfSeq DEF Issues
  <2>2. m.id \in Nat
    BY <2>1, <1>4 DEF UpMessages, IsRequest, Requests, HandlerOf
  <2>3. CASE m \in Elems(up)
    <3>1. m.id < nextID
      BY <1>1, <1>4, <2>3 DEF IdInv, RequestsAreOld
    <3> QED
      BY <1>1, <2>2, <3>1 DEF Issues, QueuesOK
  <2>4. CASE m \notin Elems(up)
    BY <1>4, <2>2, <2>4 DEF Issues
  <2> QED
    BY <2>3, <2>4
<1>5. RequestsAreOld'
  BY <1>4 DEF RequestsAreOld, Elems, IsRequest
<1>6. ASSUME NEW m \in Elems(down'), IsAnswer(m)
      PROVE  m \in Elems(down) /\ m.id \in Nat /\ m.id < nextID
  <2>1. m \in Elems(down)
    BY DEF Reads
  <2>2. PICK i \in 1..Len(down) : m = down[i]
    BY <2>1 DEF Elems
  <2>3. m \in DownMessages
    BY <1>1, <2>2, ElementOfSeq DEF QueuesOK
  <2>4. m.id \in Nat
    BY <1>6, <2>3 DEF DownMessages, IsAnswer
  <2> QED
    BY <1>1, <1>6, <2>1, <2>4 DEF IdInv, AnswersAreOld
<1>7. AnswersAreOld'
  <2>1. ASSUME NEW m \in Elems(down'), IsAnswer(m) PROVE m.id < nextID'
    BY <1>1, <1>6, <2>1 DEF Issues, QueuesOK
  <2> QED
    BY <2>1 DEF AnswersAreOld, Elems, IsAnswer
<1>8. ASSUME NEW c \in callbacks', ~(nextID <= c.id)
      PROVE  c \in callbacks
  BY <1>8 DEF Issues
<1>9. ASSUME NEW m \in Elems(up'), NEW c \in callbacks',
             IsRequest(m), m.id = c.id
      PROVE  Meant(c, m.kind)
  <2>1. CASE nextID <= c.id
    BY <1>9, <2>1 DEF Issues
  <2>2. CASE ~(nextID <= c.id)
    <3>1. c \in callbacks
      BY <1>8, <2>2
    <3>2. m \in Elems(up)
      BY <1>9, <2>2 DEF Issues
    <3> QED
      BY <1>1, <1>9, <3>1, <3>2 DEF IdInv, RequestsMatch
  <2> QED
    BY <2>1, <2>2
<1>10. RequestsMatch'
  BY <1>9 DEF RequestsMatch, Elems, IsRequest, Meant
<1>11. ASSUME NEW m \in Elems(down'), NEW c \in callbacks',
              IsAnswer(m), m.id = c.id
       PROVE  Meant(c, m.re)
  <2>1. m \in Elems(down) /\ m.id \in Nat /\ m.id < nextID
    BY <1>6, <1>11
  <2>2. ~(nextID <= c.id)
    BY <1>1, <1>11, <2>1 DEF QueuesOK
  <2>3. c \in callbacks
    BY <1>8, <2>2
  <2> QED
    BY <1>1, <1>11, <2>1, <2>3 DEF IdInv, AnswersMatch
<1>12. AnswersMatch'
  BY <1>11 DEF AnswersMatch, Elems, IsAnswer, Meant
<1>13. ResultsAreAccepted'
  BY <1>1 DEF Reads, ResultsAreAccepted, Elems, IsAnswer
<1>14. ConnectedIsAccepted'
  BY <1>1 DEF ConnectedIsAccepted
<1> QED
  BY <1>3, <1>5, <1>7, <1>10, <1>12, <1>13, <1>14 DEF IdInv

-----------------------------------------------------------------------------
\* What Transmit() adds to the queue to the server.
LEMMA TransmitAdds ==
    ASSUME up \in Seq(UpMessages), NEW messages \in Seq(UpMessages),
           Transmit(messages)
    PROVE  /\ up' \in Seq(UpMessages)
           /\ Elems(up') \subseteq Elems(up) \union Elems(messages)
<1>1. /\ up \o messages \in Seq(UpMessages)
      /\ Elems(up \o messages) \subseteq Elems(up) \union Elems(messages)
  BY ElemsConcat
<1>2. up' = up \o messages \/ up' = up
  BY DEF Transmit
<1>3. CASE up' = up \o messages
  BY <1>1, <1>3
<1>4. CASE up' = up
  BY <1>4
<1> QED
  BY <1>2, <1>3, <1>4

LEMMA RequestFacts ==
    ASSUME NEW kind \in Requests, NEW id \in Nat
    PROVE  /\ Request(kind, id) \in UpMessages
           /\ Request(kind, id).kind = kind
           /\ Request(kind, id).id = id
  BY DEF Request, UpMessages

LEMMA RegisteredFacts ==
    ASSUME NEW kind \in DOMAIN HandlerOf, NEW id \in Nat, streamNo \in Nat
    PROVE  /\ Registered(kind, id) \subseteq Callback
           /\ \A c \in Registered(kind, id) :
                 c.id = id /\ c.stream = streamNo /\ Meant(c, kind)
<1>1. HandlerOf[kind] \in Handlers
  BY DEF HandlerOf, Handlers
<1> QED
  BY <1>1 DEF Registered, Callback, Meant

\* A step that issues no id.
LEMMA IssuesNothing ==
    ASSUME QueuesOK, RequestsAreOld, nextID' = nextID,
           callbacks' \in SUBSET callbacks,
           up' \in Seq(UpMessages),
           \A m \in Elems(up') : m \in Elems(up) \/ ~IsRequest(m)
    PROVE  Issues
<1>1. callbacks' \in SUBSET Callback
  BY DEF QueuesOK
<1>2. \A c \in callbacks' : c.id \in Nat /\ ~(nextID <= c.id)
  BY DEF QueuesOK, Callback
<1> QED
  BY <1>1, <1>2 DEF Issues, QueuesOK

\* The first steps of a step that issues ids: one request, with or without a
\* callback, behind others whose ids no callback has.
LEMMA IssuesOne ==
    ASSUME QueuesOK, RequestsAreOld,
           NEW kind \in Requests, NEW id \in Nat, NEW cbs, NEW new,
           NEW sent \in Seq(UpMessages),
           cbs \in SUBSET callbacks,
           nextID <= id,
           \A m \in Elems(sent) : IsRequest(m) => nextID <= m.id /\ m.id < id,
           new = {} \/ (kind \in DOMAIN HandlerOf /\ new = Registered(kind, id)),
           nextID' = id + 1,
           callbacks' = cbs \union new,
           Transmit(Append(sent, Request(kind, id)))
    PROVE  Issues
<1> DEFINE r == Request(kind, id)
<1>1. r \in UpMessages /\ r.kind = kind /\ r.id = id
  BY RequestFacts
<1> HIDE DEF r
<1>2. /\ Append(sent, r) \in Seq(UpMessages)
      /\ Elems(Append(sent, r)) = Elems(sent) \union {r}
  BY <1>1, ElemsAppend
<1>3. Transmit(Append(sent, r))
  BY DEF r
<1>4. /\ up' \in Seq(UpMessages)
      /\ Elems(up') \subseteq Elems(up) \union Elems(sent) \union {r}
  BY <1>2, <1>3, TransmitAdds DEF QueuesOK
<1>5. /\ new \in SUBSET Callback
      /\ \A c \in new : c.id = id /\ c.stream = streamNo /\ Meant(c, kind)
  BY RegisteredFacts DEF QueuesOK
<1>6. callbacks' \in SUBSET Callback
  BY <1>5 DEF QueuesOK
<1>7. nextID' \in Nat /\ nextID <= nextID' /\ id < nextID'
  BY DEF QueuesOK
<1>8. ASSUME NEW m \in Elems(sent) PROVE m \in UpMessages
  BY ElementOfSeq DEF Elems
<1>9. ASSUME NEW m \in Elems(up'), m \notin Elems(up), IsRequest(m)
      PROVE  nextID <= m.id /\ m.id < nextID'
  <2>1. CASE m = r
    BY <1>1, <1>7, <2>1
  <2>2. CASE m \in Elems(sent)
    <3>1. m.id \in Nat
      BY <1>8, <1>9, <2>2 DEF UpMessages, IsRequest, Requests, HandlerOf
    <3> QED
      BY <1>9, <2>2, <3>1 DEF QueuesOK
  <2> QED
    BY <1>4, <1>9, <2>1, <2>2
<1>10. ASSUME NEW c \in callbacks', c \notin callbacks
       PROVE  nextID <= c.id /\ c.id < nextID' /\ c.stream = streamNo
  BY <1>5, <1>7, <1>10
<1>11. ASSUME NEW m \in Elems(up'), NEW c \in callbacks',
              nextID <= c.id, IsRequest(m), m.id = c.id
       PROVE  Meant(c, m.kind)
  <2>1. c \notin callbacks
    BY <1>11 DEF QueuesOK, Callback
  <2>2. c \in new /\ c.id = id /\ Meant(c, kind)
    BY <1>5, <2>1
  <2>3. m \notin Elems(up)
    BY <1>11, <2>2 DEF RequestsAreOld, QueuesOK
  <2>4. m \notin Elems(sent)
    BY <1>11, <2>2
  <2>5. m = r
    BY <1>4, <2>3, <2>4
  <2> QED
    BY <1>1, <2>2, <2>5
<1> QED
  BY <1>4, <1>6, <1>7, <1>9, <1>10, <1>11 DEF Issues

\* sendLogin(), after requests whose ids no callback has.
LEMMA SendLoginIssues ==
    ASSUME QueuesOK, RequestsAreOld,
           NEW state, NEW atype, NEW query, NEW id \in Nat, NEW cbs,
           NEW sent \in Seq(UpMessages),
           cbs \in SUBSET callbacks,
           nextID <= id,
           \A m \in Elems(sent) : IsRequest(m) => nextID <= m.id /\ m.id < id,
           SendLogin(state, atype, query, id, cbs, sent)
    PROVE  /\ Issues
           /\ connState' \in {connState, "csAwaitingAuth"}
           /\ fault' \in {fault, "nullQuery"}
<1> DEFINE kind == LoginKind(state)
           new  == IF kind = "blank" THEN {} ELSE Registered(kind, id)
<1>1. CASE kind = "authSet" /\ atype = "at0kAuth" /\ ~query
  <2>1. /\ fault' = "nullQuery"
        /\ UNCHANGED <<connState, nextID, callbacks, up>>
    BY <1>1 DEF SendLogin
  <2>2. Issues
    BY <2>1, IssuesNothing DEF QueuesOK
  <2> QED
    BY <2>1, <2>2
<1>2. CASE ~(kind = "authSet" /\ atype = "at0kAuth" /\ ~query)
  <2>1. /\ connState' = "csAwaitingAuth"
        /\ nextID' = id + 1
        /\ callbacks' = cbs \union new
        /\ Transmit(Append(sent, Request(kind, id)))
        /\ fault' = fault
    BY <1>2 DEF SendLogin
  <2>2. /\ kind \in Requests
        /\ kind = "blank" \/ kind \in DOMAIN HandlerOf
    BY DEF LoginKind, Requests, HandlerOf
  <2>3. new = {} \/ (kind \in DOMAIN HandlerOf /\ new = Registered(kind, id))
    BY <2>2
  <2> HIDE DEF kind, new
  <2>4. Issues
    BY <2>1, <2>2, <2>3, IssuesOne
  <2> QED
    BY <2>1, <2>4
<1> QED
  BY <1>1, <1>2

\* authenticate().
LEMMA AuthenticateIssues ==
    ASSUME QueuesOK, RequestsAreOld, NEW state, NEW atype, NEW cbs,
           cbs \in SUBSET callbacks,
           Authenticate(state, atype, cbs)
    PROVE  /\ Issues
           /\ connState' \in {connState, state, "csAwaitingAuth"}
           /\ fault' \in {fault, "nullQuery"}
<1>1. /\ "authGet" \in Requests
      /\ "authGet" \in DOMAIN HandlerOf
  BY DEF Requests, HandlerOf
<1>2. nextID \in Nat
  BY DEF QueuesOK
<1> DEFINE r == Request("authGet", nextID)
<1>3. r \in UpMessages /\ r.kind = "authGet" /\ r.id = nextID
  BY <1>1, <1>2, RequestFacts
<1>4. CASE atype = "atAutoAuth"
  <2>1. /\ connState' = state
        /\ nextID' = nextID + 1
        /\ callbacks' = cbs \union Registered("authGet", nextID)
        /\ Transmit(<<r>>)
        /\ fault' = fault
    BY <1>4 DEF Authenticate
  <2>2. /\ <<>> \in Seq(UpMessages)
        /\ Elems(<<>>) = {}
    BY <1>3, ElemsFew
  <2>3. <<r>> = Append(<<>>, r)
    OBVIOUS
  <2>4. nextID <= nextID
    BY <1>2
  <2>5. Transmit(Append(<<>>, Request("authGet", nextID)))
    BY <2>1, <2>3
  <2>6. Issues
    BY <1>1, <1>2, <2>1, <2>2, <2>4, <2>5, IssuesOne
  <2> QED
    BY <2>1, <2>6
<1>5. CASE atype # "atAutoAuth"
  <2>1. SendLogin(state, atype, FALSE, nextID + 1, cbs, <<r>>)
    BY <1>5 DEF Authenticate
  <2> HIDE DEF r
  <2>2. <<r>> \in Seq(UpMessages) /\ Elems(<<r>>) = {r}
    BY <1>3, ElemsFew
  <2>3. nextID + 1 \in Nat /\ nextID <= nextID + 1
    BY <1>2
  <2>4. \A m \in Elems(<<r>>) :
            IsRequest(m) => nextID <= m.id /\ m.id < nextID + 1
    BY <1>2, <1>3, <2>2
  <2>5. /\ Issues
        /\ connState' \in {connState, "csAwaitingAuth"}
        /\ fault' \in {fault, "nullQuery"}
    BY <2>1, <2>2, <2>3, <2>4, SendLoginIssues
  <2> QED
    BY <2>5
<1> QED
  BY <1>4, <1>5

-----------------------------------------------------------------------------
LEMMA SessionStep ==
    ASSUME IInv, Issues, Reads, UNCHANGED <<streamNo, accepted>>, ScalarsOK',
           connState' = "csConnected" => connState = "csConnected" \/ accepted
    PROVE  IInv'
<1>1. QueuesOK' /\ IdInv' /\ ResultsAreAccepted' /\ ConnectedIsAccepted'
  BY IssuesIsSafe
<1>2. TypeOK'
  BY <1>1 DEF TypeOK, QueuesOK, ScalarsOK, Callback
<1> QED
  BY <1>1, <1>2 DEF IInv

LEMMA IInvParts == IInv => QueuesOK /\ ScalarsOK /\ RequestsAreOld
  BY TypeParts DEF IInv, IdInv

LEMMA ReadsNothing ==
    ASSUME QueuesOK, down' = down
    PROVE  Reads
  BY DEF QueuesOK, Reads

LEMMA ReadsHead ==
    ASSUME QueuesOK, down # <<>>, down' = Tail(down)
    PROVE  Reads /\ Head(down) \in Elems(down) /\ Head(down) \in DownMessages
<1> DEFINE t == Tail(down)
<1>1. /\ t \in Seq(DownMessages)
      /\ Elems(t) \subseteq Elems(down)
      /\ Head(down) \in Elems(down)
      /\ Head(down) \in DownMessages
  BY ElemsTail DEF QueuesOK
<1> HIDE DEF t
<1>2. down' = t
  BY DEF t
<1> QED
  BY <1>1, <1>2 DEF Reads

\* Neither ids nor requests, and no callback is added.
LEMMA IssuesSame ==
    ASSUME QueuesOK, RequestsAreOld, nextID' = nextID,
           callbacks' \in SUBSET callbacks, up' = up
    PROVE  Issues
  BY IssuesNothing DEF QueuesOK

\* The close tag is not a request.
LEMMA IssuesClose ==
    ASSUME QueuesOK, RequestsAreOld, UNCHANGED <<nextID, callbacks>>,
           Transmit(<<[kind |-> "close"]>>)
    PROVE  Issues
<1> DEFINE m == [kind |-> "close"]
<1>1. m \in UpMessages /\ ~IsRequest(m)
  BY DEF UpMessages, IsRequest, Requests, HandlerOf
<1>2. Transmit(<<m>>)
  OBVIOUS
<1> HIDE DEF m
<1>3. <<m>> \in Seq(UpMessages) /\ Elems(<<m>>) = {m}
  BY <1>1, ElemsFew
<1>4. /\ up' \in Seq(UpMessages)
      /\ Elems(up') \subseteq Elems(up) \union {m}
  BY <1>2, <1>3, TransmitAdds DEF QueuesOK
<1> QED
  BY <1>1, <1>4, IssuesNothing DEF QueuesOK

-----------------------------------------------------------------------------
\* The operations of the application.
LEMMA OpenStreamSafe ==
    ASSUME IInv, NEW newuser, OpenStream(newuser), ScalarsOK'
    PROVE  IInv'
<1>1. QueuesOK
  BY IInvParts
<1> DEFINE m == [kind |-> "open"]
<1>2. m \in UpMessages /\ ~IsRequest(m)
  BY DEF UpMessages, IsRequest, Requests, HandlerOf
<1>3. up' = <<m>> /\ down' = <<>>
  BY DEF OpenStream
<1> HIDE DEF m
<1>4. <<m>> \in Seq(UpMessages) /\ Elems(<<m>>) = {m}
  BY <1>2, ElemsFew
<1>5. /\ up' \in Seq(UpMessages)
      /\ \A k \in Elems(up') : ~IsRequest(k)
  BY <1>2, <1>3, <1>4
<1>6. [kind |-> "garbage"] \in DownMessages
  BY DEF DownMessages
<1>7. <<>> \in Seq(DownMessages) /\ Elems(<<>>) = {}
  BY <1>6, ElemsFew
<1>8. down' \in Seq(DownMessages) /\ Elems(down') = {}
  BY <1>3, <1>7
<1>9. /\ UNCHANGED <<nextID, callbacks>>
      /\ streamNo' = streamNo + 1
      /\ connState' \in {"csCreateUser", "csAuthReq"}
  BY DEF OpenStream
<1>10. QueuesOK'
  BY <1>1, <1>5, <1>8, <1>9 DEF QueuesOK, Callback
<1>11. IdInv'
  BY <1>5, <1>8
     DEF IdInv, RequestsAreOld, AnswersAreOld, RequestsMatch, AnswersMatch,
         Elems, IsRequest
<1>12. ResultsAreAccepted' /\ ConnectedIsAccepted'
  BY <1>8, <1>9 DEF ResultsAreAccepted, ConnectedIsAccepted, Elems
<1>13. TypeOK'
  BY <1>10 DEF TypeOK, QueuesOK, ScalarsOK, Callback
<1> QED
  BY <1>11, <1>12, <1>13 DEF IInv

LEMMA AuthenticateAgainSafe ==
    ASSUME IInv, NEW atype \in AllAuthTypes, NEW newuser \in BOOLEAN,
           NEW auth \in BOOLEAN, AuthenticateAgain(atype, newuser, auth),
           authType' = atype, authenticate' = auth,
           UNCHANGED <<streamStart, header, frame>>
    PROVE  IInv'
<1>1. QueuesOK /\ ScalarsOK /\ RequestsAreOld
  BY IInvParts
<1>2. /\ connState \in {"csCreateUser", "csAuthReq", "csAwaitingAuth"}
      /\ UNCHANGED <<stream, docEnded, linked, down, server, streamNo, accepted>>
  BY DEF AuthenticateAgain, xmlVars
<1> DEFINE state == IF newuser THEN "csCreateUser" ELSE connState
<1>3. state \in {"csCreateUser", "csAuthReq", "csAwaitingAuth"}
  BY <1>2
<1>4. \/ Authenticate(state, atype, callbacks) /\ event' = "none"
      \/ connState' = state /\ EmitConnected /\ UNCHANGED <<nextID, callbacks, up>>
  BY DEF AuthenticateAgain
<1> HIDE DEF state
<1>5. Reads
  BY <1>1, <1>2, ReadsNothing
<1>6. /\ Issues
      /\ connState' \in {"csCreateUser", "csAuthReq", "csAwaitingAuth"}
      /\ fault' \in {fault, "none", "nullQuery", "badHeader"}
      /\ event' \in {"none", "evtConnected"}
  <2>1. CASE Authenticate(state, atype, callbacks) /\ event' = "none"
    <3>1. /\ Issues
          /\ connState' \in {connState, state, "csAwaitingAuth"}
          /\ fault' \in {fault, "nullQuery"}
      BY <1>1, <2>1, AuthenticateIssues
    <3> QED
      BY <1>2, <1>3, <2>1, <3>1
  <2>2. CASE /\ connState' = state
             /\ EmitConnected
             /\ UNCHANGED <<nextID, callbacks, up>>
    <3>1. Issues
      BY <1>1, <2>2, IssuesSame
    <3> QED
      BY <1>3, <2>2, <3>1 DEF EmitConnected
  <2> QED
    BY <1>4, <2>1, <2>2
<1>7. ScalarsOK'
  BY <1>1, <1>2, <1>6 DEF ScalarsOK, ConnStates, Events
<1> QED
  BY <1>2, <1>5, <1>6, <1>7, SessionStep

LEMMA ConnectSafe ==
    ASSUME IInv, Connect
    PROVE  IInv'
<1>1. PICK atype \in AuthTypes, newuser \in BOOLEAN, auth \in BOOLEAN :
         /\ authType' = atype
         /\ authenticate' = auth
         /\ OpenStream(newuser) \/ AuthenticateAgain(atype, newuser, auth)
  BY DEF Connect
<1>2. UNCHANGED <<streamStart, header, frame>>
  BY DEF Connect
<1>3. atype \in AllAuthTypes
  BY SessionAssumption
<1>4. CASE OpenStream(newuser)
  <2>1. ScalarsOK
    BY IInvParts
  <2>2. ScalarsOK'
    BY <1>1, <1>2, <1>3, <1>4, <2>1
       DEF OpenStream, ScalarsOK, ConnStates, Events
  <2> QED
    BY <1>4, <2>2, OpenStreamSafe
<1>5. CASE AuthenticateAgain(atype, newuser, auth)
  BY <1>1, <1>2, <1>3, <1>5, AuthenticateAgainSafe
<1> QED
  BY <1>1, <1>4, <1>5

LEMMA DisconnectSafe ==
    ASSUME IInv, Disconnect
    PROVE  IInv'
<1>1. QueuesOK /\ ScalarsOK /\ RequestsAreOld
  BY IInvParts
<1>2. /\ connState' = "csNotConnected"
      /\ streamStart' = FALSE
      /\ event' = "none"
      /\ UNCHANGED <<authType, authenticate, nextID, callbacks, header, stream,
                     docEnded, frame, fault, streamNo, accepted>>
  BY DEF Disconnect, authVars, xmlVars
<1>3. /\ [kind |-> "open"] \in UpMessages
      /\ [kind |-> "garbage"] \in DownMessages
  BY DEF UpMessages, DownMessages
<1>4. /\ <<>> \in Seq(UpMessages)
      /\ <<>> \in Seq(DownMessages)
      /\ Elems(<<>>) = {}
  BY <1>3, ElemsFew
<1>5. /\ Issues /\ Reads
      /\ linked' \in BOOLEAN
      /\ server' \in {"silent", "open", "closed"}
  <2>1. CASE linked' = FALSE /\ up' = <<>> /\ down' = <<>> /\ server' = "closed"
    <3>1. up' \in Seq(UpMessages) /\ Elems(up') = {}
      BY <1>4, <2>1
    <3>2. Issues
      BY <1>1, <1>2, <3>1, IssuesNothing
    <3>3. Reads
      BY <1>4, <2>1 DEF Reads
    <3> QED
      BY <2>1, <3>2, <3>3
  <2>2. CASE /\ Transmit(<<[kind |-> "close"]>>) \/ up' = up
             /\ UNCHANGED <<linked, down, server>>
    <3>1. Issues
      BY <1>1, <1>2, <2>2, IssuesClose, IssuesSame
    <3>2. Reads
      BY <1>1, <2>2, ReadsNothing
    <3> QED
      BY <1>1, <2>2, <3>1, <3>2 DEF ScalarsOK
  <2> QED
    BY <2>1, <2>2 DEF Disconnect
<1>6. ScalarsOK'
  BY <1>1, <1>2, <1>5 DEF ScalarsOK, ConnStates
<1> QED
  BY <1>2, <1>5, <1>6, SessionStep

LEMMA QueryNamespaceSafe ==
    ASSUME IInv, QueryNamespace
    PROVE  IInv'
<1>1. QueuesOK /\ ScalarsOK /\ RequestsAreOld
  BY IInvParts
<1>2. /\ nextID' = nextID + 1
      /\ callbacks' = callbacks \union Registered("query", nextID)
      /\ Transmit(<<Request("query", nextID)>>)
      /\ UNCHANGED <<connState, authType, authenticate, streamStart, header,
                     stream, docEnded, frame, linked, down, server, fault,
                     streamNo, accepted, event>>
  BY DEF QueryNamespace, authVars, xmlVars
<1>3. nextID \in Nat /\ nextID <= nextID
  BY <1>1 DEF QueuesOK
<1>4. "query" \in Requests /\ "query" \in DOMAIN HandlerOf
  BY DEF Requests, HandlerOf
<1>5. Transmit(Append(<<>>, Request("query", nextID)))
  BY <1>2
<1>6. [kind |-> "open"] \in UpMessages
  BY DEF UpMessages
<1>7. <<>> \in Seq(UpMessages) /\ Elems(<<>>) = {}
  BY <1>6, ElemsFew
<1>8. Issues
  BY <1>1, <1>2, <1>3, <1>4, <1>5, <1>7, IssuesOne
<1>9. Reads
  BY <1>1, <1>2, ReadsNothing
<1>10. ScalarsOK'
  BY <1>1, <1>2 DEF ScalarsOK
<1> QED
  BY <1>2, <1>8, <1>9, <1>10, SessionStep

-----------------------------------------------------------------------------
\* What push() does with the message at the front of the queue.
LEMMA HeadIsAnswer ==
    ASSUME QueuesOK, down # <<>>, Head(down).kind = "iq", down' = Tail(down)
    PROVE  /\ Reads
           /\ Head(down) \in Elems(down)
           /\ IsAnswer(Head(down))
           /\ Head(down).id \in Nat
<1>1. Reads /\ Head(down) \in Elems(down) /\ Head(down) \in DownMessages
  BY ReadsHead
<1>2. Head(down).id \in Nat
  BY <1>1 DEF DownMessages
<1> QED
  BY <1>1, <1>2 DEF IsAnswer

\* The login was accepted if its callback is given a result.
LEMMA ResultIsAccepted ==
    ASSUME IInv, down # <<>>, Head(down).kind = "iq", down' = Tail(down),
           \E c \in callbacks : c.id = Head(down).id /\ c.handler = "IQHandler_Auth",
           Head(down).type = "result"
    PROVE  accepted
<1>1. Head(down) \in Elems(down) /\ IsAnswer(Head(down))
  BY IInvParts, HeadIsAnswer
<1>2. PICK c \in callbacks :
         c.id = Head(down).id /\ c.handler = "IQHandler_Auth"
  OBVIOUS
<1>3. Meant(c, Head(down).re)
  BY <1>1, <1>2 DEF IInv, IdInv, AnswersMatch
<1>4. Head(down).re = "authSet"
  BY <1>2, <1>3 DEF Meant, HandlerOf
<1> QED
  BY <1>1, <1>4 DEF IInv, ResultsAreAccepted

LEMMA EraseRemoves ==
    ASSUME NEW cbs, NEW id
    PROVE  Erase(cbs, id) \in SUBSET cbs
  BY DEF Erase

LEMMA PushAbortsSafe ==
    ASSUME IInv, PushAborts
    PROVE  IInv'
<1>1. QueuesOK /\ ScalarsOK /\ RequestsAreOld
  BY IInvParts
<1>2. /\ fault' = "assertion"
      /\ UNCHANGED <<connState, authType, authenticate, streamStart, nextID,
                     callbacks, header, stream, docEnded, frame, linked, up,
                     down, server, streamNo, accepted, event>>
  BY DEF PushAborts, authVars, xmlVars
<1>3. Issues /\ Reads
  BY <1>1, <1>2, IssuesSame, ReadsNothing
<1>4. ScalarsOK'
  BY <1>1, <1>2 DEF ScalarsOK
<1> QED
  BY <1>2, <1>3, <1>4, SessionStep

LEMMA PushThrowsSafe ==
    ASSUME IInv, PushThrows
    PROVE  IInv'
<1>1. QueuesOK /\ ScalarsOK /\ RequestsAreOld
  BY IInvParts
<1>2. /\ down # <<>>
      /\ down' = Tail(down)
      /\ stream' = "failed"
      /\ event' = "evtXMLParserError"
      /\ frame' = [kind |-> "parserError", id |-> 0]
      /\ UNCHANGED <<connState, authType, authenticate, streamStart, nextID,
                     callbacks, header, docEnded, linked, up, server, fault,
                     streamNo, accepted>>
  BY DEF PushThrows, Arrived, authVars
<1>3. Issues /\ Reads
  BY <1>1, <1>2, IssuesSame, ReadsHead
<1>4. ScalarsOK'
  BY <1>1, <1>2 DEF ScalarsOK, Events, Frames
<1> QED
  BY <1>2, <1>3, <1>4, SessionStep

LEMMA DocumentStartSafe ==
    ASSUME IInv, DocumentStart
    PROVE  IInv'
<1>1. QueuesOK /\ ScalarsOK /\ RequestsAreOld
  BY IInvParts
<1>2. /\ down # <<>>
      /\ down' = Tail(down)
      /\ stream' = "open"
      /\ header' = "live"
      /\ streamStart' = TRUE
      /\ UNCHANGED <<authType, authenticate, docEnded, frame, linked, server,
                     streamNo, accepted>>
  BY DEF DocumentStart, Pushed, Arrived, authVars
<1>3. Reads
  BY <1>1, <1>2, ReadsHead
<1>4. /\ Issues
      /\ connState' \in {connState, "csAwaitingAuth"}
      /\ fault' \in {fault, "nullQuery"}
      /\ event' \in {event, "evtConnected"}
  <2>1. CASE Authenticate(connState, authType, callbacks) /\ event' = event
    BY <1>1, <2>1, AuthenticateIssues
  <2>2. CASE /\ event' = "evtConnected"
             /\ UNCHANGED <<connState, nextID, callbacks, up, fault>>
    BY <1>1, <2>2, IssuesSame
  <2> QED
    BY <2>1, <2>2 DEF DocumentStart, loginVars
<1>5. ScalarsOK'
  BY <1>1, <1>2, <1>4 DEF ScalarsOK, ConnStates, Events, Headers
<1> QED
  BY <1>2, <1>3, <1>4, <1>5, SessionStep

LEMMA DocumentEndSafe ==
    ASSUME IInv, DocumentEnd
    PROVE  IInv'
<1>1. QueuesOK /\ ScalarsOK /\ RequestsAreOld
  BY IInvParts
<1>2. /\ down # <<>>
      /\ down' = Tail(down)
      /\ stream' = "ended"
      /\ connState' = "csNotConnected"
      /\ streamStart' = FALSE
      /\ Transmit(<<[kind |-> "close"]>>)
      /\ event' = "evtDisconnected"
      /\ frame' = [kind |-> "documentEnd", id |-> 0]
      /\ UNCHANGED <<authType, authenticate, nextID, callbacks, header,
                     docEnded, linked, server, fault, streamNo, accepted>>
  BY DEF DocumentEnd, Pushed, Arrived, authVars
<1>3. Issues /\ Reads
  BY <1>1, <1>2, IssuesClose, ReadsHead
<1>4. ScalarsOK'
  BY <1>1, <1>2 DEF ScalarsOK, ConnStates, Events, Frames
<1> QED
  BY <1>2, <1>3, <1>4, SessionStep

\* What the actions on an iq that a callback waits for have in common.
LEMMA AnswerFacts ==
    ASSUME IInv, NEW handler, Answer(handler)
    PROVE  /\ down # <<>>
           /\ down' = Tail(down)
           /\ Head(down).kind = "iq"
           /\ Head(down).id \in Nat
           /\ Reads
           /\ \E c \in callbacks : c.id = Head(down).id /\ c.handler = handler
           /\ UNCHANGED <<authType, authenticate, streamStart, header, stream,
                          docEnded, linked, server, streamNo, accepted>>
<1>1. /\ down # <<>>
      /\ down' = Tail(down)
      /\ Head(down).kind = "iq"
      /\ \E c \in callbacks : c.id = Head(down).id /\ c.handler = handler
      /\ UNCHANGED <<authType, authenticate, streamStart, header, stream,
                     docEnded, linked, server, streamNo, accepted>>
  BY DEF Answer, Pushed, Arrived, authVars, xmlVars
<1>2. Reads /\ Head(down).id \in Nat
  BY <1>1, IInvParts, HeadIsAnswer
<1> QED
  BY <1>1, <1>2

LEMMA OnAuthTypeReceivedSafe ==
    ASSUME IInv, OnAuthTypeReceived
    PROVE  IInv'
<1>1. QueuesOK /\ ScalarsOK /\ RequestsAreOld
  BY IInvParts
<1>2. /\ Reads
      /\ UNCHANGED <<authType, authenticate, streamStart, header, stream,
                     docEnded, linked, server, streamNo, accepted, frame, event>>
  BY AnswerFacts DEF OnAuthTypeReceived
<1> DEFINE cbs == Erase(callbacks, Head(down).id)
<1>3. SendLogin(connState, "atPlaintextAuth", TRUE, nextID, cbs, <<>>)
  BY DEF OnAuthTypeReceived
<1>4. cbs \in SUBSET callbacks
  BY EraseRemoves
<1> HIDE DEF cbs
<1>5. [kind |-> "open"] \in UpMessages
  BY DEF UpMessages
<1>6. <<>> \in Seq(UpMessages) /\ Elems(<<>>) = {}
  BY <1>5, ElemsFew
<1>7. nextID \in Nat /\ nextID <= nextID
  BY <1>1 DEF QueuesOK
<1>8. /\ Issues
      /\ connState' \in {connState, "csAwaitingAuth"}
      /\ fault' \in {fault, "nullQuery"}
  BY <1>1, <1>3, <1>4, <1>6, <1>7, SendLoginIssues
<1>9. ScalarsOK'
  BY <1>1, <1>2, <1>8 DEF ScalarsOK, ConnStates
<1> QED
  BY <1>2, <1>8, <1>9, SessionStep

LEMMA IQHandler_AuthSafe ==
    ASSUME IInv, IQHandler_Auth
    PROVE  IInv'
<1>1. QueuesOK /\ ScalarsOK /\ RequestsAreOld
  BY IInvParts
<1>2. /\ down # <<>>
      /\ down' = Tail(down)
      /\ Head(down).kind = "iq"
      /\ Head(down).id \in Nat
      /\ Reads
      /\ \E c \in callbacks :
            c.id = Head(down).id /\ c.handler = "IQHandler_Auth"
      /\ UNCHANGED <<authType, authenticate, streamStart, header, stream,
                     docEnded, linked, server, streamNo, accepted>>
  BY AnswerFacts DEF IQHandler_Auth
<1>3. UNCHANGED <<nextID, callbacks, up>>
  BY DEF IQHandler_Auth
<1>4. Issues
  BY <1>1, <1>3, IssuesSame
<1>5. /\ connState' \in {connState, "csAuthReq", "csConnected"}
      /\ event' \in Events
      /\ fault' \in {fault, "none", "badHeader"}
      /\ frame' \in [kind : Frames, id : Nat]
      /\ connState' = "csConnected" =>
            connState = "csConnected" \/ Head(down).type = "result"
  <2>1. CASE Head(down).type = "result"
    <3>1. /\ connState' = "csConnected"
          /\ event' = "evtConnected"
          /\ fault' \in {"none", "badHeader"}
          /\ frame' = [kind |-> "Auth", id |-> Head(down).id]
      BY <2>1 DEF IQHandler_Auth, EmitConnected, Calls
    <3> QED
      BY <1>2, <2>1, <3>1 DEF Events, Frames
  <2>2. CASE Head(down).type # "result"
    <3>1. /\ connState' \in {connState, "csAuthReq"}
          /\ event' = "evtAuthError"
          /\ fault' = fault
          /\ frame' = [kind |-> "erase", id |-> Head(down).id]
      BY <2>2 DEF IQHandler_Auth, Calls
    <3> QED
      BY <1>2, <3>1 DEF Events, Frames
  <2> QED
    BY <2>1, <2>2
<1>6. connState' = "csConnected" => connState = "csConnected" \/ accepted
  BY <1>2, <1>5, ResultIsAccepted
<1>7. ScalarsOK'
  BY <1>1, <1>2, <1>5 DEF ScalarsOK, ConnStates
<1> QED
  BY <1>2, <1>4, <1>6, <1>7, SessionStep

LEMMA IQHandler_CreateUserSafe ==
    ASSUME IInv, IQHandler_CreateUser
    PROVE  IInv'
<1>1. QueuesOK /\ ScalarsOK /\ RequestsAreOld
  BY IInvParts
<1>2. /\ Head(down).id \in Nat
      /\ Reads
      /\ UNCHANGED <<authType, authenticate, streamStart, header, stream,
                     docEnded, linked, server, streamNo, accepted>>
  BY AnswerFacts DEF IQHandler_CreateUser
<1> DEFINE cbs == Erase(callbacks, Head(down).id)
<1>3. cbs \in SUBSET callbacks
  BY EraseRemoves
<1>4. \/ /\ Authenticate("csAuthReq", authType, cbs)
         /\ UNCHANGED <<frame, event>>
      \/ /\ connState' = "csAuthReq"
         /\ event' = "evtAuthError"
         /\ frame' = [kind |-> "erase", id |-> Head(down).id]
         /\ UNCHANGED <<nextID, callbacks, up, fault>>
      \/ /\ connState' = "csAuthReq"
         /\ callbacks' = cbs
         /\ UNCHANGED <<nextID, up, fault, frame, event>>
  BY DEF IQHandler_CreateUser, Calls
<1> HIDE DEF cbs
<1>5. /\ Issues
      /\ connState' \in {connState, "csAuthReq", "csAwaitingAuth"}
      /\ event' \in {event, "evtAuthError"}
      /\ fault' \in {fault, "nullQuery"}
      /\ frame' \in [kind : Frames, id : Nat]
  <2>1. CASE /\ Authenticate("csAuthReq", authType, cbs)
             /\ UNCHANGED <<frame, event>>
    <3>1. /\ Issues
          /\ connState' \in {connState, "csAuthReq", "csAwaitingAuth"}
          /\ fault' \in {fault, "nullQuery"}
      BY <1>1, <1>3, <2>1, AuthenticateIssues
    <3> QED
      BY <1>1, <2>1, <3>1 DEF ScalarsOK
  <2>2. CASE /\ connState' = "csAuthReq"
             /\ event' = "evtAuthError"
             /\ frame' = [kind |-> "erase", id |-> Head(down).id]
             /\ UNCHANGED <<nextID, callbacks, up, fault>>
    <3>1. Issues
      BY <1>1, <2>2, IssuesSame
    <3> QED
      BY <1>2, <2>2, <3>1 DEF Frames
  <2>3. CASE /\ connState' = "csAuthReq"
             /\ callbacks' = cbs
             /\ UNCHANGED <<nextID, up, fault, frame, event>>
    <3>1. Issues
      BY <1>1, <1>3, <2>3, IssuesSame
    <3> QED
      BY <1>1, <2>3, <3>1 DEF ScalarsOK
  <2> QED
    BY <1>4, <2>1, <2>2, <2>3
<1>6. ScalarsOK'
  BY <1>1, <1>2, <1>5 DEF ScalarsOK, ConnStates, Events
<1> QED
  BY <1>2, <1>5, <1>6, SessionStep

LEMMA ApplicationCallbackSafe ==
    ASSUME IInv, ApplicationCallback
    PROVE  IInv'
<1>1. QueuesOK /\ ScalarsOK /\ RequestsAreOld
  BY IInvParts
<1>2. /\ Head(down).id \in Nat
      /\ Reads
      /\ frame' = [kind |-> "erase", id |-> Head(down).id]
      /\ UNCHANGED <<connState, authType, authenticate, streamStart, nextID,
                     callbacks, header, stream, docEnded, linked, up, server,
                     fault, streamNo, accepted, event>>
  BY AnswerFacts DEF ApplicationCallback, Calls, loginVars
<1>3. Issues
  BY <1>1, <1>2, IssuesSame
<1>4. ScalarsOK'
  BY <1>1, <1>2 DEF ScalarsOK, Frames
<1> QED
  BY <1>2, <1>3, <1>4, SessionStep

LEMMA UnaskedIQSafe ==
    ASSUME IInv, UnaskedIQ
    PROVE  IInv'
<1>1. QueuesOK /\ ScalarsOK /\ RequestsAreOld
  BY IInvParts
<1>2. /\ down # <<>>
      /\ down' = Tail(down)
      /\ UNCHANGED <<connState, authType, authenticate, streamStart, nextID,
                     callbacks, header, stream, docEnded, frame, linked, up,
                     server, fault, streamNo, accepted, event>>
  BY DEF UnaskedIQ, Pushed, Arrived, authVars, xmlVars
<1>3. Issues /\ Reads
  BY <1>1, <1>2, IssuesSame, ReadsHead
<1>4. ScalarsOK'
  BY <1>1, <1>2 DEF ScalarsOK
<1> QED
  BY <1>2, <1>3, <1>4, SessionStep

-----------------------------------------------------------------------------
\* What runs after the handlers.
LEMMA ReturnsFacts ==
    ASSUME IInv, NEW kind, Returns(kind)
    PROVE  /\ frame' \in [kind : Frames, id : Nat]
           /\ Reads
           /\ UNCHANGED <<authType, authenticate, linked, server, fault,
                          streamNo, accepted, event>>
  BY IInvParts, ReadsNothing DEF Returns, Idle, Frames, authVars

LEMMA ReturnSafe ==
    ASSUME IInv, Return
    PROVE  IInv'
<1>1. QueuesOK /\ ScalarsOK /\ RequestsAreOld
  BY IInvParts
<1>2. /\ frame' \in [kind : Frames, id : Nat]
      /\ Reads
      /\ UNCHANGED <<authType, authenticate, linked, server, fault, streamNo,
                     accepted, event>>
  BY ReturnsFacts
     DEF Return, ReturnDocumentEnd, ReturnParserError, ReturnAuth, ReturnErase
<1>3. CASE ReturnDocumentEnd
  <2>1. /\ docEnded' = TRUE
        /\ UNCHANGED <<connState, streamStart, nextID, callbacks, header,
                       stream, up>>
    BY <1>3 DEF ReturnDocumentEnd
  <2>2. Issues
    BY <1>1, <2>1, IssuesSame
  <2>3. ScalarsOK'
    BY <1>1, <1>2, <2>1 DEF ScalarsOK
  <2> QED
    BY <1>2, <2>1, <2>2, <2>3, SessionStep
<1>4. CASE ReturnParserError
  <2>1. /\ connState' = "csNotConnected"
        /\ streamStart' = FALSE
        /\ UNCHANGED <<nextID, callbacks, header, stream, docEnded, up>>
    BY <1>4 DEF ReturnParserError, xmlVars
  <2>2. Issues
    BY <1>1, <2>1, IssuesSame
  <2>3. ScalarsOK'
    BY <1>1, <1>2, <2>1 DEF ScalarsOK, ConnStates
  <2> QED
    BY <1>2, <2>1, <2>2, <2>3, SessionStep
<1>5. CASE ReturnAuth
  <2>1. /\ header' = "freed"
        /\ callbacks' = Erase(callbacks, frame.id)
        /\ UNCHANGED <<connState, streamStart, stream, docEnded>>
    BY <1>5 DEF ReturnAuth, xmlVars
  <2>2. callbacks' \in SUBSET callbacks
    BY <2>1, EraseRemoves
  <2>3. Issues
    <3>1. CASE authenticate
      <4>1. nextID' = nextID + 1 /\ Transmit(<<Request("roster", nextID)>>)
        BY <1>5, <3>1 DEF ReturnAuth
      <4>2. Transmit(Append(<<>>, Request("roster", nextID)))
        BY <4>1
      <4>3. "roster" \in Requests /\ [kind |-> "open"] \in UpMessages
        BY DEF Requests, UpMessages
      <4>4. <<>> \in Seq(UpMessages) /\ Elems(<<>>) = {}
        BY <4>3, ElemsFew
      <4>5. nextID \in Nat /\ nextID <= nextID
        BY <1>1 DEF QueuesOK
      <4>6. callbacks' = callbacks' \union {}
        OBVIOUS
      <4> DEFINE cbs == callbacks'
      <4> HIDE DEF cbs
      <4>7. cbs \in SUBSET callbacks /\ callbacks' = cbs \union {}
        BY <2>2, <4>6 DEF cbs
      <4> QED
        BY <1>1, <4>1, <4>2, <4>3, <4>4, <4>5, <4>7, IssuesOne
    <3>2. CASE ~authenticate
      <4>1. UNCHANGED <<nextID, up>>
        BY <1>5, <3>2 DEF ReturnAuth
      <4> QED
        BY <1>1, <2>2, <4>1, IssuesSame
    <3> QED
      BY <3>1, <3>2
  <2>4. ScalarsOK'
    BY <1>1, <1>2, <2>1 DEF ScalarsOK, Headers
  <2> QED
    BY <1>2, <2>1, <2>3, <2>4, SessionStep
<1>6. CASE ReturnErase
  <2>1. /\ callbacks' = Erase(callbacks, frame.id)
        /\ UNCHANGED <<connState, streamStart, nextID, header, stream,
                       docEnded, up>>
    BY <1>6 DEF ReturnErase, xmlVars
  <2>2. Issues
    BY <1>1, <2>1, EraseRemoves, IssuesSame
  <2>3. ScalarsOK'
    BY <1>1, <1>2, <2>1 DEF ScalarsOK
  <2> QED
    BY <1>2, <2>1, <2>2, <2>3, SessionStep
<1> QED
  BY <1>3, <1>4, <1>5, <1>6 DEF Return

-----------------------------------------------------------------------------
\* What the server sends is no answer, or answers a request on its way up.
LEMMA SaidIsSafe ==
    ASSUME IInv, ScalarsOK', UNCHANGED <<connState, nextID, callbacks, streamNo>>,
           NEW message \in DownMessages, Say(message),
           up' \in Seq(UpMessages), Elems(up') \subseteq Elems(up),
           accepted => accepted',
           IsAnswer(message) =>
              \E r \in Elems(up) :
                 IsRequest(r) /\ message.id = r.id /\ message.re = r.kind,
           IsAnswer(message) /\ message.re = "authSet" /\ message.type = "result"
              => accepted'
    PROVE  IInv'
<1>1. QueuesOK /\ IdInv /\ ResultsAreAccepted /\ ConnectedIsAccepted
  BY TypeParts DEF IInv
<1>2. /\ down' \in Seq(DownMessages)
      /\ Elems(down') = Elems(down) \union {message}
  BY <1>1, ElemsAppend DEF QueuesOK, Say
<1>3. QueuesOK'
  BY <1>1, <1>2 DEF QueuesOK, Callback
<1>4. TypeOK'
  BY <1>3 DEF TypeOK, QueuesOK, ScalarsOK, Callback
<1>5. RequestsAreOld' /\ RequestsMatch'
  BY <1>1 DEF IdInv, RequestsAreOld, RequestsMatch, Elems, IsRequest, Meant
<1>6. ASSUME NEW m \in Elems(down'), IsAnswer(m)
      PROVE  /\ m.id < nextID
             /\ \A c \in callbacks : m.id = c.id => Meant(c, m.re)
  <2>1. CASE m \in Elems(down)
    BY <1>1, <1>6, <2>1 DEF IdInv, AnswersAreOld, AnswersMatch
  <2>2. CASE m = message
    <3>1. PICK r \in Elems(up) :
             IsRequest(r) /\ message.id = r.id /\ message.re = r.kind
      BY <1>6, <2>2
    <3> QED
      BY <1>1, <2>2, <3>1 DEF IdInv, RequestsAreOld, RequestsMatch
  <2> QED
    BY <1>2, <2>1, <2>2
<1>7. AnswersAreOld' /\ AnswersMatch'
  BY <1>6 DEF AnswersAreOld, AnswersMatch, Elems, IsAnswer, Meant
<1>8. ASSUME NEW m \in Elems(down'), IsAnswer(m), m.re = "authSet",
             m.type = "result"
      PROVE  accepted'
  BY <1>1, <1>2, <1>8 DEF ResultsAreAccepted
<1>9. ResultsAreAccepted'
  BY <1>8 DEF ResultsAreAccepted, Elems, IsAnswer
<1>10. ConnectedIsAccepted'
  BY <1>1 DEF ConnectedIsAccepted
<1> QED
  BY <1>4, <1>5, <1>7, <1>9, <1>10 DEF IInv, IdInv

LEMMA TagsDown ==
    /\ [kind |-> "open"] \in DownMessages /\ ~IsAnswer([kind |-> "open"])
    /\ [kind |-> "close"] \in DownMessages /\ ~IsAnswer([kind |-> "close"])
    /\ [kind |-> "garbage"] \in DownMessages /\ ~IsAnswer([kind |-> "garbage"])
  BY DEF DownMessages, IsAnswer

LEMMA ServerReadsSafe ==
    ASSUME IInv, ServerReads
    PROVE  IInv'
<1>1. QueuesOK /\ ScalarsOK
  BY IInvParts
<1>2. UNCHANGED <<connState, authType, authenticate, streamStart, nextID,
                  callbacks, header, stream, docEnded, frame, linked, fault,
                  streamNo, event>>
  BY DEF ServerReads, ServerOnly, authVars, xmlVars
<1>3. up # <<>> /\ up' = Tail(up)
  BY DEF ServerReads
<1> DEFINE m == Head(up)
           t == Tail(up)
<1>4. /\ t \in Seq(UpMessages) /\ Elems(t) \subseteq Elems(up)
      /\ m \in Elems(up) /\ m \in UpMessages
  BY <1>1, <1>3, ElemsTail DEF QueuesOK
<1>5. \/ m.kind = "open" /\ server' = "open" /\ Say([kind |-> "open"])
                        /\ UNCHANGED accepted
      \/ m.kind = "close" /\ server' = "closed" /\ Say([kind |-> "close"])
                         /\ UNCHANGED accepted
      \/ /\ m.kind # "open" /\ m.kind # "close"
         /\ \E type \in Answers(m.kind) :
               /\ Say([kind |-> "iq", id |-> m.id, re |-> m.kind, type |-> type])
               /\ accepted' = (accepted \/ (m.kind = "authSet" /\ type = "result"))
               /\ UNCHANGED server
  BY DEF ServerReads
<1>6. up' = t
  BY <1>3
<1> HIDE DEF m, t
<1>7. up' \in Seq(UpMessages) /\ Elems(up') \subseteq Elems(up)
  BY <1>4, <1>6
<1>8. CASE \/ server' = "open" /\ Say([kind |-> "open"]) /\ UNCHANGED accepted
           \/ server' = "closed" /\ Say([kind |-> "close"]) /\ UNCHANGED accepted
  <2>1. ScalarsOK'
    BY <1>1, <1>2, <1>8 DEF ScalarsOK
  <2> QED
    BY <1>2, <1>7, <1>8, <2>1, TagsDown, SaidIsSafe
<1>9. CASE /\ m.kind # "open" /\ m.kind # "close"
           /\ \E type \in Answers(m.kind) :
                 /\ Say([kind |-> "iq", id |-> m.id, re |-> m.kind, type |-> type])
                 /\ accepted' = (accepted \/ (m.kind = "authSet" /\ type = "result"))
                 /\ UNCHANGED server
  <2>1. m.kind \in Requests /\ m.id \in Nat
    BY <1>4, <1>9 DEF UpMessages
  <2>2. PICK type \in Answers(m.kind) :
           /\ Say([kind |-> "iq", id |-> m.id, re |-> m.kind, type |-> type])
           /\ accepted' = (accepted \/ (m.kind = "authSet" /\ type = "result"))
           /\ UNCHANGED server
    BY <1>9
  <2>3. type \in {"result", "refuse", "emptyError"}
    BY DEF Answers
  <2> DEFINE a == [kind |-> "iq", id |-> m.id, re |-> m.kind, type |-> type]
  <2>4. /\ a \in DownMessages
        /\ a.id = m.id /\ a.re = m.kind /\ a.type = type
    BY <2>1, <2>3 DEF DownMessages
  <2>5. Say(a)
    BY <2>2
  <2> HIDE DEF a
  <2>6. accepted \in BOOLEAN
    BY <1>1 DEF ScalarsOK
  <2>7. /\ accepted' \in BOOLEAN
        /\ accepted => accepted'
        /\ m.kind = "authSet" /\ type = "result" => accepted'
    BY <2>2, <2>6
  <2>8. ScalarsOK'
    BY <1>1, <1>2, <2>2, <2>7 DEF ScalarsOK
  <2>9. IsRequest(m)
    BY <2>1 DEF IsRequest
  <2> QED
    BY <1>2, <1>4, <1>7, <2>4, <2>5, <2>7, <2>8, <2>9, SaidIsSafe
<1> QED
  BY <1>5, <1>8, <1>9

LEMMA ServerErrsSafe ==
    ASSUME IInv, ServerHangsUp \/ ServerSendsGarbage
    PROVE  IInv'
<1>1. QueuesOK /\ ScalarsOK
  BY IInvParts
<1>2. /\ server' \in {server, "closed"}
      /\ Say([kind |-> "close"]) \/ Say([kind |-> "garbage"])
      /\ UNCHANGED <<connState, authType, authenticate, streamStart, nextID,
                     callbacks, header, stream, docEnded, frame, linked, up,
                     fault, streamNo, accepted, event>>
  BY DEF ServerHangsUp, ServerSendsGarbage, ServerOnly, authVars, xmlVars
<1>3. ScalarsOK'
  BY <1>1, <1>2 DEF ScalarsOK
<1>4. up' \in Seq(UpMessages) /\ Elems(up') \subseteq Elems(up)
  BY <1>1, <1>2 DEF QueuesOK
<1> QED
  BY <1>2, <1>3, <1>4, TagsDown, SaidIsSafe

-----------------------------------------------------------------------------
LEMMA InitSafe == Init => IInv
<1> SUFFICES ASSUME Init PROVE IInv
  OBVIOUS
<1>1. /\ [kind |-> "open"] \in UpMessages
      /\ [kind |-> "garbage"] \in DownMessages
  BY DEF UpMessages, DownMessages
<1>2. /\ <<>> \in Seq(UpMessages)
      /\ <<>> \in Seq(DownMessages)
      /\ Elems(<<>>) = {}
  BY <1>1, ElemsFew
<1>3. QueuesOK
  BY <1>2 DEF Init, QueuesOK
<1>4. ScalarsOK
  BY DEF Init, ScalarsOK, ConnStates, AllAuthTypes, Headers, Frames, Idle, Events
<1>5. TypeOK
  BY <1>3, <1>4, TypeParts
<1>6. up = <<>> /\ down = <<>> /\ connState = "csNotConnected"
  BY DEF Init
<1>7. IdInv /\ ResultsAreAccepted /\ ConnectedIsAccepted
  BY <1>2, <1>6
     DEF IdInv, RequestsAreOld, AnswersAreOld, RequestsMatch, AnswersMatch,
         ResultsAreAccepted, ConnectedIsAccepted
<1> QED
  BY <1>5, <1>7 DEF IInv

LEMMA NextSafe == IInv /\ [Next]_vars => IInv'
<1> SUFFICES ASSUME IInv, [Next]_vars PROVE IInv'
  OBVIOUS
<1>1. CASE Application
  BY <1>1, ConnectSafe, DisconnectSafe, QueryNamespaceSafe DEF Application
<1>2. CASE Push
  BY <1>2, PushAbortsSafe, PushThrowsSafe, DocumentStartSafe, DocumentEndSafe,
     OnAuthTypeReceivedSafe, IQHandler_AuthSafe, IQHandler_CreateUserSafe,
     ApplicationCallbackSafe, UnaskedIQSafe DEF Push
<1>3. CASE Return
  BY <1>3, ReturnSafe
<1>4. CASE ServerReads
  BY <1>4, ServerReadsSafe
<1>5. CASE ServerHangsUp \/ ServerSendsGarbage
  BY <1>5, ServerErrsSafe
<1>6. CASE UNCHANGED vars
  <2>1. UNCHANGED <<connState, authType, authenticate, streamStart, nextID,
                    callbacks, header, stream, docEnded, frame, linked, up,
                    down, server, fault, streamNo, accepted, event>>
    BY <1>6 DEF vars
  <2>2. QueuesOK /\ ScalarsOK /\ RequestsAreOld
    BY IInvParts
  <2>3. Issues /\ Reads
    BY <2>1, <2>2, IssuesSame, ReadsNothing
  <2>4. ScalarsOK'
    BY <2>1, <2>2 DEF ScalarsOK
  <2> QED
    BY <2>1, <2>3, <2>4, SessionStep
<1> QED
  BY <1>1, <1>2, <1>3, <1>4, <1>5, <1>6 DEF Next

\* The inductive invariant of the Session holds in every reachable state.
THEOREM Invariance == Spec => []IInv
<1>1. Init => IInv
  BY InitSafe
<1>2. IInv /\ [Next]_vars => IInv'
  BY NextSafe
<1> QED
  BY <1>1, <1>2, PTL DEF Spec

\* Every variable of the Session keeps its type, and no callback has an id that
\* getNextID() is still to give out.
THEOREM TypeOKAlways == Spec => []TypeOK
<1>1. IInv => TypeOK
  BY DEF IInv
<1> QED
  BY <1>1, Invariance, PTL

\* Callbacks outlive their streams and are found by the id alone; an answer
\* finds the one registered for the request it answers, on this stream.
THEOREM AnswersFindTheirRequestAlways == Spec => []AnswersFindTheirRequest
<1>1. IInv => AnswersFindTheirRequest
  <2> SUFFICES ASSUME IInv,
                      NEW i \in 1..Len(down), NEW c \in callbacks,
                      down[i].kind = "iq", down[i].id = c.id
               PROVE  /\ c.stream = streamNo
                      /\ down[i].re \in DOMAIN HandlerOf
                      /\ HandlerOf[down[i].re] = c.handler
    BY DEF AnswersFindTheirRequest
  <2>1. down[i] \in Elems(down) /\ IsAnswer(down[i])
    BY DEF Elems, IsAnswer
  <2>2. Meant(c, down[i].re)
    BY <2>1 DEF IInv, IdInv, AnswersMatch
  <2> QED
    BY <2>2 DEF Meant
<1> QED
  BY <1>1, Invariance, PTL

\* The session is csConnected only if the server accepted a login on the stream.
THEOREM ConnectedIsAcceptedAlways == Spec => []ConnectedIsAccepted
<1>1. IInv => ConnectedIsAccepted
  BY DEF IInv
<1> QED
  BY <1>1, Invariance, PTL

-----------------------------------------------------------------------------
(* The stream: what the Session knows of it, when the application behaves.  *)

\* The stream is open and the session was not given up.
Live == stream = "open" /\ connState # "csNotConnected"

\* disconnect() was called, or connect() never was: nothing arrives any more.
GivenUp == ~linked /\ down = <<>> /\ server # "open"

FrameMeansFailed == frame.kind = "parserError" => stream = "failed"

StreamInv ==
    /\ FrameMeansFailed
    /\ frame.kind = "documentEnd" => connState = "csNotConnected"
    /\ stream = "ended" => docEnded \/ frame.kind = "documentEnd"
    /\ streamStart => /\ connState # "csNotConnected"
                      /\ stream = "open" \/ frame.kind = "parserError"
    /\ Live => streamStart
    /\ connState = "csNotConnected" =>
           \/ GivenUp
           \/ stream = "failed"
           \/ docEnded
           \/ frame.kind = "documentEnd"

\* What may be pushed, when the application does not linger, is for a session
\* that is not disconnected.
LEMMA PushedIsWanted ==
    ASSUME StreamInv, NEW kind, Pushed(kind)
    PROVE  /\ connState # "csNotConnected"
           /\ frame.kind = "none"
           /\ stream \notin {"ended", "failed"}
           /\ ~docEnded
           /\ down # <<>>
           /\ down' = Tail(down)
  BY DEF StreamInv, GivenUp, Pushed, Arrived, Top

\* The states authenticate() and sendLogin() lead to.
LEMMA AuthenticateStates ==
    ASSUME NEW state, NEW atype, NEW cbs, Authenticate(state, atype, cbs)
    PROVE  connState' \in {connState, state, "csAwaitingAuth"}
  BY DEF Authenticate, SendLogin

LEMMA ApplicationStreams ==
    ASSUME "linger" \notin Habits, "reentrant" \notin Habits, StreamInv,
           Application
    PROVE  /\ StreamInv'
           /\ connState = "csNotConnected" /\ connState' # "csNotConnected" =>
                  streamNo' = streamNo + 1
<1>1. frame.kind = "none"
  BY DEF Application, Connect, Disconnect, QueryNamespace, AppRuns
<1>2. CASE Connect
  <2>1. PICK atype \in AuthTypes, newuser \in BOOLEAN, auth \in BOOLEAN :
           OpenStream(newuser) \/ AuthenticateAgain(atype, newuser, auth)
    BY <1>2 DEF Connect
  <2>2. UNCHANGED <<streamStart, frame>>
    BY <1>2 DEF Connect
  <2>3. CASE OpenStream(newuser)
    <3>1. /\ connState = "csNotConnected"
          /\ connState' # "csNotConnected"
          /\ stream' = "fresh"
          /\ streamNo' = streamNo + 1
      BY <2>3 DEF OpenStream
    <3> QED
      BY <1>1, <2>2, <3>1 DEF StreamInv, FrameMeansFailed, Live
  <2>4. CASE AuthenticateAgain(atype, newuser, auth)
    <3> DEFINE state == IF newuser THEN "csCreateUser" ELSE connState
    <3>1. /\ connState \in {"csCreateUser", "csAuthReq", "csAwaitingAuth"}
          /\ Authenticate(state, atype, callbacks) \/ connState' = state
          /\ UNCHANGED <<stream, docEnded>>
      BY <2>4 DEF AuthenticateAgain, xmlVars
    <3>2. state # "csNotConnected"
      BY <3>1
    <3> HIDE DEF state
    <3>3. connState # "csNotConnected" /\ connState' # "csNotConnected"
      BY <3>1, <3>2, AuthenticateStates
    <3> QED
      BY <1>1, <2>2, <3>1, <3>3 DEF StreamInv, FrameMeansFailed, Live
  <2> QED
    BY <2>1, <2>3, <2>4
<1>3. CASE Disconnect
  <2>1. /\ connState' = "csNotConnected"
        /\ streamStart' = FALSE
        /\ ~linked' /\ down' = <<>> /\ server' = "closed"
        /\ UNCHANGED <<frame, stream, docEnded>>
    BY <1>3 DEF Disconnect, xmlVars
  <2> QED
    BY <1>1, <2>1 DEF StreamInv, FrameMeansFailed, Live, GivenUp
<1>4. CASE QueryNamespace
  <2>1. /\ connState = "csConnected"
        /\ UNCHANGED <<connState, streamStart, stream, docEnded, frame>>
    BY <1>4 DEF QueryNamespace, xmlVars
  <2> QED
    BY <1>1, <2>1 DEF StreamInv, FrameMeansFailed, Live
<1> QED
  BY <1>2, <1>3, <1>4 DEF Application

LEMMA PushStreams ==
    ASSUME StreamInv, Push
    PROVE  /\ StreamInv'
           /\ connState = "csNotConnected" => connState' = "csNotConnected"
<1>1. CASE PushAborts
  BY <1>1 DEF PushAborts, StreamInv, FrameMeansFailed, Live, GivenUp, xmlVars
<1>2. CASE PushThrows
  <2>1. /\ frame.kind = "none"
        /\ ~docEnded
        /\ down # <<>>
        /\ stream' = "failed"
        /\ frame'.kind = "parserError"
        /\ UNCHANGED <<connState, streamStart, docEnded>>
    BY <1>2 DEF PushThrows, Arrived, Top
  <2> QED
    BY <2>1 DEF StreamInv, FrameMeansFailed, Live
<1>3. CASE DocumentStart
  <2>1. Pushed("open") /\ connState # "csNotConnected" /\ frame.kind = "none"
    BY <1>3, PushedIsWanted DEF DocumentStart
  <2>2. /\ stream' = "open" /\ streamStart' = TRUE
        /\ UNCHANGED frame
        /\ \/ Authenticate(connState, authType, callbacks)
           \/ connState' = connState
    BY <1>3 DEF DocumentStart, loginVars
  <2>3. connState' # "csNotConnected"
    BY <2>1, <2>2, AuthenticateStates
  <2> QED
    BY <2>1, <2>2, <2>3 DEF StreamInv, FrameMeansFailed, Live
<1>4. CASE DocumentEnd
  <2>1. /\ stream' = "ended"
        /\ connState' = "csNotConnected"
        /\ streamStart' = FALSE
        /\ frame'.kind = "documentEnd"
    BY <1>4 DEF DocumentEnd
  <2> QED
    BY <2>1 DEF StreamInv, FrameMeansFailed, Live
<1>5. ASSUME Pushed("iq"), UNCHANGED <<streamStart, stream, docEnded>>,
             connState' # "csNotConnected" \/ UNCHANGED connState,
             frame'.kind \in {"none", "Auth", "erase"}
      PROVE  /\ StreamInv'
             /\ connState = "csNotConnected" => connState' = "csNotConnected"
  <2>1. connState # "csNotConnected" /\ frame.kind = "none"
    BY <1>5, PushedIsWanted
  <2>2. connState' # "csNotConnected"
    BY <1>5, <2>1
  <2> QED
    BY <1>5, <2>1, <2>2 DEF StreamInv, FrameMeansFailed, Live
<1>6. ASSUME NEW handler, Answer(handler)
      PROVE  /\ Pushed("iq")
             /\ connState # "csNotConnected"
             /\ frame.kind = "none"
             /\ UNCHANGED <<streamStart, stream, docEnded>>
  BY <1>6, PushedIsWanted DEF Answer, xmlVars
<1>7. CASE OnAuthTypeReceived
  <2>1. Answer("OnAuthTypeReceived") /\ UNCHANGED frame
    BY <1>7 DEF OnAuthTypeReceived
  <2>2. connState' \in {connState, "csAwaitingAuth"}
    BY <1>7 DEF OnAuthTypeReceived, SendLogin
  <2> QED
    BY <1>5, <1>6, <2>1, <2>2
<1>8. CASE IQHandler_Auth
  <2>1. Answer("IQHandler_Auth")
    BY <1>8 DEF IQHandler_Auth
  <2>2. /\ connState' \in {connState, "csConnected", "csAuthReq"}
        /\ frame'.kind \in {"Auth", "erase"}
    BY <1>8 DEF IQHandler_Auth, Calls
  <2> QED
    BY <1>5, <1>6, <2>1, <2>2
<1>9. CASE IQHandler_CreateUser
  <2>1. Answer("IQHandler_CreateUser")
    BY <1>9 DEF IQHandler_CreateUser
  <2>2. /\ \/ \E cbs : Authenticate("csAuthReq", authType, cbs)
           \/ connState' = "csAuthReq"
        /\ frame'.kind = "erase" \/ UNCHANGED frame
    BY <1>9 DEF IQHandler_CreateUser, Calls
  <2>3. connState' \in {connState, "csAuthReq", "csAwaitingAuth"}
    BY <2>2, AuthenticateStates
  <2> QED
    BY <1>5, <1>6, <2>1, <2>2, <2>3
<1>10. CASE ApplicationCallback
  <2>1. Answer("application") /\ UNCHANGED connState /\ frame'.kind = "erase"
    BY <1>10 DEF ApplicationCallback, Calls, loginVars
  <2> QED
    BY <1>5, <1>6, <2>1
<1>11. CASE UnaskedIQ
  <2>1. /\ Pushed("iq")
        /\ UNCHANGED <<connState, streamStart, stream, docEnded, frame>>
    BY <1>11 DEF UnaskedIQ, xmlVars
  <2>2. frame.kind = "none"
    BY <2>1, PushedIsWanted
  <2> QED
    BY <1>5, <2>1, <2>2
<1> QED
  BY <1>1, <1>2, <1>3, <1>4, <1>7, <1>8, <1>9, <1>10, <1>11 DEF Push

LEMMA OtherStreams ==
    ASSUME StreamInv, Return \/ ServerReads \/ ServerHangsUp \/ ServerSendsGarbage
    PROVE  /\ StreamInv'
           /\ connState = "csNotConnected" => connState' = "csNotConnected"
<1>1. CASE ReturnDocumentEnd
  <2>1. /\ frame.kind = "documentEnd" /\ frame'.kind = "none"
        /\ docEnded' = TRUE
        /\ UNCHANGED <<connState, streamStart, stream>>
    BY <1>1 DEF ReturnDocumentEnd, Returns, Idle
  <2> QED
    BY <2>1 DEF StreamInv, FrameMeansFailed, Live
<1>2. CASE ReturnParserError
  <2>1. /\ frame.kind = "parserError" /\ frame'.kind = "none"
        /\ connState' = "csNotConnected"
        /\ streamStart' = FALSE
        /\ UNCHANGED stream
    BY <1>2 DEF ReturnParserError, Returns, Idle, xmlVars
  <2> QED
    BY <2>1 DEF StreamInv, FrameMeansFailed, Live
<1>3. CASE ReturnAuth \/ ReturnErase
  <2>1. /\ frame.kind \in {"Auth", "erase"} /\ frame'.kind = "none"
        /\ UNCHANGED <<connState, streamStart, stream, docEnded, linked, down, server>>
    BY <1>3 DEF ReturnAuth, ReturnErase, Returns, Idle, xmlVars
  <2> QED
    BY <2>1 DEF StreamInv, FrameMeansFailed, Live, GivenUp
<1>4. CASE ServerReads \/ ServerHangsUp \/ ServerSendsGarbage
  <2>1. /\ ~GivenUp
        /\ UNCHANGED <<connState, streamStart, stream, docEnded, frame>>
    BY <1>4 DEF ServerReads, ServerHangsUp, ServerSendsGarbage, ServerOnly,
                GivenUp, xmlVars
  <2> QED
    BY <2>1 DEF StreamInv, FrameMeansFailed, Live
<1> QED
  BY <1>1, <1>2, <1>3, <1>4 DEF Return

LEMMA StreamStep ==
    ASSUME "linger" \notin Habits, "reentrant" \notin Habits,
           StreamInv, [Next]_vars
    PROVE  /\ StreamInv'
           /\ connState = "csNotConnected" /\ connState' # "csNotConnected" =>
                  streamNo' = streamNo + 1
<1>1. CASE UNCHANGED vars
  BY <1>1 DEF vars, StreamInv, FrameMeansFailed, Live, GivenUp
<1> QED
  BY <1>1, ApplicationStreams, PushStreams, OtherStreams DEF Next

LEMMA InitStreams == Init => StreamInv
  BY DEF Init, Idle, StreamInv, FrameMeansFailed, Live, GivenUp

\* When the application leaves the transport alone after disconnect(), and does
\* not call back from handlers: once disconnected, a session stays so until
\* connect() opens a new stream.
THEOREM DisconnectHoldsAlways ==
    ASSUME "linger" \notin Habits, "reentrant" \notin Habits
    PROVE  Spec => DisconnectHolds
<1>1. Init => StreamInv
  BY InitStreams
<1>2. StreamInv /\ [Next]_vars => StreamInv'
  BY StreamStep
<1>3. StreamInv /\ [Next]_vars =>
         [connState = "csNotConnected" /\ connState' # "csNotConnected" =>
             streamNo' = streamNo + 1]_vars
  BY StreamStep
<1> QED
  BY <1>1, <1>2, <1>3, PTL DEF Spec, DisconnectHolds

-----------------------------------------------------------------------------
\* _StreamStart is set while the stream is open, and only then.
THEOREM StreamStartTracksStreamAlways ==
    ASSUME "linger" \notin Habits, "reentrant" \notin Habits
    PROVE  Spec => []StreamStartTracksStream
<1>1. Init => StreamInv
  BY InitStreams
<1>2. StreamInv /\ [Next]_vars => StreamInv'
  BY StreamStep
<1>3. StreamInv => StreamStartTracksStream
  BY DEF StreamInv, StreamStartTracksStream, Top, Live
<1> QED
  BY <1>1, <1>2, <1>3, PTL DEF Spec

-----------------------------------------------------------------------------
\* The callbacks of the logins on this stream.
Logins == {c \in callbacks : c.handler \in Internal /\ c.stream = streamNo}

IsOpen(m) == m.kind = "open"

\* The header is asked for once, before anything else, and what the server
\* sends begins with it.
OpenInv ==
    /\ \A m \in Elems(up) :
          IsOpen(m) => /\ up = <<[kind |-> "open"]>>
                       /\ down = <<>>
                       /\ server = "silent"
                       /\ stream = "fresh"
    /\ \A i \in 1..Len(down) : IsOpen(down[i]) => i = 1 /\ stream = "fresh"
    /\ stream = "fresh" =>
          /\ Logins = {}
          /\ event = "none"
          /\ connState \in {"csNotConnected", "csCreateUser", "csAuthReq"}

\* One login at a time; it is over when the application is told of the outcome,
\* and the header is freed only after the last.
OneLogin == \A c, d \in Logins : c.id = d.id

ToldIsOver ==
    Live /\ event # "none" =>
        \A c \in Logins : frame.kind \in {"Auth", "erase"} /\ c.id = frame.id

FreedIsOver ==
    Live => header = "live" \/ (connState = "csConnected" /\ Logins = {})

LoginInv ==
    /\ OneLogin
    /\ ToldIsOver
    /\ FreedIsOver
    /\ frame.kind = "Auth" => /\ connState = "csConnected"
                              /\ stream = "open"
                              /\ event = "evtConnected"
    /\ event = "evtAuthError" => stream = "open"
    /\ HeaderIsLive

\* No header is sent.
NoOpenSent == \A m \in Elems(up') : IsOpen(m) => m \in Elems(up)

\* A request whose answer callback id waits for is on its way, or the answer is.
Asked(id) ==
    \/ \E m \in Elems(up) : IsRequest(m) /\ m.id = id
    \/ \E m \in Elems(down) : IsAnswer(m) /\ m.id = id

\* A login is sent in `state', the callbacks then being cbs.
Begun(cbs, state) ==
    \E new \in SUBSET Callback :
        /\ callbacks' = cbs \union new
        /\ \A c, d \in new : c.id = d.id
        /\ NoOpenSent
        /\ connState' \in {state, "csAwaitingAuth"}
        /\ fault' = fault
        /\ state \in {"csCreateUser", "csAuthReq"} /\ linked =>
              \E c \in new :
                 /\ c.handler \in Internal
                 /\ c.stream = streamNo
                 /\ \E m \in Elems(up') : IsRequest(m) /\ m.id = c.id
                 /\ c.handler = "OnAuthTypeReceived" => connState' = state

\* The zero-knowledge login without a <query>.
ReadNull == fault' = "nullQuery" /\ UNCHANGED <<connState, nextID, callbacks, up>>

LEMMA ElemsConcatAll ==
    ASSUME NEW S, NEW s \in Seq(S), NEW t \in Seq(S)
    PROVE  Elems(s \o t) = Elems(s) \union Elems(t)
<1>1. Len(s) \in Nat /\ Len(t) \in Nat
  BY LenProperties
<1> DEFINE u == s \o t
<1>2. /\ Len(u) = Len(s) + Len(t)
      /\ \A i \in 1..(Len(s) + Len(t)) :
            u[i] = IF i <= Len(s) THEN s[i] ELSE t[i - Len(s)]
  BY ConcatProperties
<1>3. Elems(u) \subseteq Elems(s) \union Elems(t)
  BY ElemsConcat
<1> HIDE DEF u
<1>4. ASSUME NEW i \in 1..Len(s) PROVE s[i] \in Elems(u)
  <2>1. i \in 1..Len(u) /\ u[i] = s[i]
    BY <1>1, <1>2
  <2> QED
    BY <2>1 DEF Elems
<1>5. ASSUME NEW i \in 1..Len(t) PROVE t[i] \in Elems(u)
  <2>1. /\ Len(s) + i \in 1..Len(u)
        /\ ~(Len(s) + i <= Len(s))
        /\ (Len(s) + i) - Len(s) = i
    BY <1>1, <1>2
  <2>2. u[Len(s) + i] = t[i]
    BY <1>1, <1>2, <2>1
  <2> QED
    BY <2>1, <2>2 DEF Elems
<1>6. Elems(s) \subseteq Elems(u) /\ Elems(t) \subseteq Elems(u)
  BY <1>4, <1>5 DEF Elems
<1> QED
  BY <1>3, <1>6 DEF u

\* Nothing but the head of a queue is lost when it is taken.
LEMMA ElemsTailAll ==
    ASSUME NEW S, NEW s \in Seq(S), s # <<>>
    PROVE  Elems(s) = {Head(s)} \union Elems(Tail(s))
<1>1. Len(s) \in Nat /\ Len(s) >= 1
  BY EmptySeq, LenProperties
<1> DEFINE t == Tail(s)
<1>2. /\ Len(t) = Len(s) - 1
      /\ \A i \in 1..Len(t) : t[i] = s[i + 1]
  BY HeadTailProperties
<1>3. Elems(t) \subseteq Elems(s) /\ Head(s) \in Elems(s)
  BY ElemsTail
<1>4. Head(s) = s[1]
  BY <1>1
<1> HIDE DEF t
<1>5. ASSUME NEW i \in 1..Len(s), i # 1 PROVE s[i] \in Elems(t)
  <2>1. i - 1 \in 1..Len(t) /\ (i - 1) + 1 = i
    BY <1>1, <1>2, <1>5
  <2>2. t[i - 1] = s[i]
    BY <1>2, <2>1
  <2> QED
    BY <2>1, <2>2 DEF Elems
<1>6. Elems(s) \subseteq {Head(s)} \union Elems(t)
  BY <1>4, <1>5 DEF Elems
<1> QED
  BY <1>3, <1>6 DEF t

\* What Transmit() does to the queue to the server.
LEMMA TransmitAll ==
    ASSUME up \in Seq(UpMessages), NEW messages \in Seq(UpMessages),
           Transmit(messages)
    PROVE  /\ Elems(up) \subseteq Elems(up')
           /\ Elems(up') \subseteq Elems(up) \union Elems(messages)
           /\ linked => Elems(messages) \subseteq Elems(up')
<1>1. Elems(up \o messages) = Elems(up) \union Elems(messages)
  BY ElemsConcatAll
<1>2. up' = IF linked THEN up \o messages ELSE up
  BY DEF Transmit
<1>3. CASE linked
  BY <1>1, <1>2, <1>3
<1>4. CASE ~linked
  BY <1>2, <1>4
<1> QED
  BY <1>3, <1>4

LEMMA OneBegins ==
    ASSUME QueuesOK, NEW state, NEW cbs, NEW kind \in Requests, NEW id \in Nat,
           NEW sent \in Seq(UpMessages),
           \A m \in Elems(sent) : ~IsOpen(m),
           callbacks' = cbs \union
               (IF kind = "blank" THEN {} ELSE Registered(kind, id)),
           kind \in {"blank", "authGet", "authSet", "register"},
           state \in {"csCreateUser", "csAuthReq"} => kind # "blank",
           connState' = IF kind = "authGet" THEN state ELSE "csAwaitingAuth",
           fault' = fault,
           Transmit(Append(sent, Request(kind, id)))
    PROVE  Begun(cbs, state)
<1> DEFINE r   == Request(kind, id)
           new == IF kind = "blank" THEN {} ELSE Registered(kind, id)
<1>1. r \in UpMessages /\ r.kind = kind /\ r.id = id
  BY RequestFacts
<1>2. IsRequest(r) /\ ~IsOpen(r)
  BY <1>1 DEF IsRequest, IsOpen
<1>3. kind # "blank" => kind \in DOMAIN HandlerOf
  BY DEF HandlerOf
<1>4. /\ new \in SUBSET Callback
      /\ \A c \in new : c.id = id
  BY <1>3, RegisteredFacts DEF QueuesOK
<1>5. callbacks' = cbs \union new
  OBVIOUS
<1>6. kind # "blank" =>
         \E c \in new : /\ c.handler = HandlerOf[kind]
                        /\ c.stream = streamNo
                        /\ c.id = id
  BY DEF Registered
<1>7. kind # "blank" => /\ HandlerOf[kind] \in Internal
                        /\ HandlerOf[kind] = "OnAuthTypeReceived" => kind = "authGet"
  BY DEF HandlerOf, Internal
<1> HIDE DEF r, new
<1>8. /\ Append(sent, r) \in Seq(UpMessages)
      /\ Elems(Append(sent, r)) = Elems(sent) \union {r}
  BY <1>1, ElemsAppend
<1>9. Transmit(Append(sent, r))
  BY DEF r
<1>10. /\ Elems(up') \subseteq Elems(up) \union Elems(sent) \union {r}
       /\ linked => r \in Elems(up')
  BY <1>8, <1>9, TransmitAll DEF QueuesOK
<1>11. NoOpenSent
  BY <1>2, <1>10 DEF NoOpenSent
<1>12. ASSUME state \in {"csCreateUser", "csAuthReq"}, linked
       PROVE  \E c \in new :
                 /\ c.handler \in Internal
                 /\ c.stream = streamNo
                 /\ \E m \in Elems(up') : IsRequest(m) /\ m.id = c.id
                 /\ c.handler = "OnAuthTypeReceived" => connState' = state
  <2>1. PICK c \in new : /\ c.handler = HandlerOf[kind]
                         /\ c.stream = streamNo
                         /\ c.id = id
    BY <1>6, <1>12
  <2>2. \E m \in Elems(up') : IsRequest(m) /\ m.id = c.id
    BY <1>1, <1>2, <1>10, <1>12, <2>1
  <2> QED
    BY <1>7, <1>12, <2>1, <2>2
<1> QED
  BY <1>4, <1>5, <1>11, <1>12 DEF Begun

LEMMA SendLoginBegins ==
    ASSUME QueuesOK, NEW state, NEW atype, NEW query, NEW id \in Nat, NEW cbs,
           NEW sent \in Seq(UpMessages),
           \A m \in Elems(sent) : ~IsOpen(m),
           SendLogin(state, atype, query, id, cbs, sent)
    PROVE  Begun(cbs, state) \/ ReadNull
<1> DEFINE kind == LoginKind(state)
<1>1. CASE kind = "authSet" /\ atype = "at0kAuth" /\ ~query
  BY <1>1 DEF SendLogin, ReadNull
<1>2. CASE ~(kind = "authSet" /\ atype = "at0kAuth" /\ ~query)
  <2>1. /\ connState' = "csAwaitingAuth"
        /\ callbacks' = cbs \union
               (IF kind = "blank" THEN {} ELSE Registered(kind, id))
        /\ Transmit(Append(sent, Request(kind, id)))
        /\ fault' = fault
    BY <1>2 DEF SendLogin
  <2>2. /\ kind \in Requests
        /\ kind \in {"blank", "authSet", "register"}
        /\ state \in {"csCreateUser", "csAuthReq"} => kind # "blank"
    BY DEF LoginKind, Requests, HandlerOf
  <2> HIDE DEF kind
  <2> QED
    BY <2>1, <2>2, OneBegins
<1> QED
  BY <1>1, <1>2

LEMMA AuthenticateBegins ==
    ASSUME QueuesOK, NEW state, NEW atype, NEW cbs,
           Authenticate(state, atype, cbs)
    PROVE  Begun(cbs, state) \/ ReadNull
<1>1. "authGet" \in Requests
  BY DEF Requests, HandlerOf
<1>2. nextID \in Nat /\ nextID + 1 \in Nat
  BY DEF QueuesOK
<1> DEFINE r == Request("authGet", nextID)
<1>3. r \in UpMessages /\ r.kind = "authGet"
  BY <1>1, <1>2, RequestFacts
<1>4. CASE atype = "atAutoAuth"
  <2>1. /\ connState' = state
        /\ callbacks' = cbs \union Registered("authGet", nextID)
        /\ Transmit(<<r>>)
        /\ fault' = fault
    BY <1>4 DEF Authenticate
  <2>2. <<>> \in Seq(UpMessages) /\ Elems(<<>>) = {}
    BY <1>3, ElemsFew
  <2>3. <<r>> = Append(<<>>, r)
    OBVIOUS
  <2>4. Transmit(Append(<<>>, Request("authGet", nextID)))
    BY <2>1, <2>3
  <2> DEFINE kind == "authGet"
  <2>5. /\ callbacks' = cbs \union
              (IF kind = "blank" THEN {} ELSE Registered(kind, nextID))
        /\ kind \in {"blank", "authGet", "authSet", "register"}
        /\ state \in {"csCreateUser", "csAuthReq"} => kind # "blank"
        /\ connState' = IF kind = "authGet" THEN state ELSE "csAwaitingAuth"
        /\ kind \in Requests
        /\ Transmit(Append(<<>>, Request(kind, nextID)))
    BY <1>1, <2>1, <2>4
  <2> HIDE DEF kind
  <2> QED
    BY <1>2, <2>1, <2>2, <2>5, OneBegins
<1>5. CASE atype # "atAutoAuth"
  <2>1. SendLogin(state, atype, FALSE, nextID + 1, cbs, <<r>>)
    BY <1>5 DEF Authenticate
  <2> HIDE DEF r
  <2>2. <<r>> \in Seq(UpMessages) /\ Elems(<<r>>) = {r}
    BY <1>3, ElemsFew
  <2>3. \A m \in Elems(<<r>>) : ~IsOpen(m)
    BY <1>3, <2>2 DEF IsOpen
  <2> QED
    BY <1>2, <2>1, <2>2, <2>3, SendLoginBegins
<1> QED
  BY <1>4, <1>5

-----------------------------------------------------------------------------
\* What follows the head of the queue is no header.
LEMMA TailHasNoOpen ==
    ASSUME QueuesOK, OpenInv, down # <<>>
    PROVE  \A i \in 1..Len(Tail(down)) : ~IsOpen(Tail(down)[i])
<1>1. Len(down) \in Nat /\ Len(down) >= 1
  BY EmptySeq, LenProperties DEF QueuesOK
<1> DEFINE t == Tail(down)
<1>2. /\ Len(t) = Len(down) - 1
      /\ \A i \in 1..Len(t) : t[i] = down[i + 1]
  BY HeadTailProperties DEF QueuesOK
<1> HIDE DEF t
<1>3. ASSUME NEW i \in 1..Len(t) PROVE ~IsOpen(t[i])
  <2>1. i + 1 \in 1..Len(down) /\ i + 1 # 1
    BY <1>1, <1>2
  <2>2. ~IsOpen(down[i + 1])
    BY <2>1 DEF OpenInv
  <2> QED
    BY <1>2, <2>2
<1> QED
  BY <1>3 DEF t

\* A step of the Session after the header was asked for, which asks for none.
LEMMA OpenStep ==
    ASSUME QueuesOK, OpenInv, NoOpenSent,
           \/ down # <<>> /\ down' = Tail(down)
           \/ UNCHANGED <<down, stream>> /\ (stream # "fresh" \/ up' = up),
           up' = up \/ stream # "fresh" \/ down # <<>>,
           stream' = "fresh" => stream = "fresh" /\ UNCHANGED server,
           stream' = "fresh" =>
              /\ Logins' = {}
              /\ event' = "none"
              /\ connState' \in {"csNotConnected", "csCreateUser", "csAuthReq"}
    PROVE  OpenInv'
<1>1. \A i \in 1..Len(down') : IsOpen(down'[i]) => i = 1 /\ stream' = "fresh"
  <2>1. CASE down # <<>> /\ down' = Tail(down)
    <3> DEFINE t == Tail(down)
    <3>1. \A i \in 1..Len(t) : ~IsOpen(t[i])
      BY <2>1, TailHasNoOpen
    <3>2. down' = t
      BY <2>1
    <3> HIDE DEF t
    <3> QED
      BY <3>1, <3>2
  <2>2. CASE UNCHANGED <<down, stream>>
    BY <2>2 DEF OpenInv
  <2> QED
    BY <2>1, <2>2
<1>2. \A m \in Elems(up') :
         IsOpen(m) => /\ up' = <<[kind |-> "open"]>>
                      /\ down' = <<>>
                      /\ server' = "silent"
                      /\ stream' = "fresh"
  <2> SUFFICES ASSUME NEW m \in Elems(up'), IsOpen(m)
               PROVE  /\ up' = <<[kind |-> "open"]>>
                      /\ down' = <<>>
                      /\ server' = "silent"
                      /\ stream' = "fresh"
    OBVIOUS
  <2>1. m \in Elems(up)
    BY DEF NoOpenSent
  <2>2. /\ up = <<[kind |-> "open"]>> /\ down = <<>>
        /\ server = "silent" /\ stream = "fresh"
    BY <2>1 DEF OpenInv
  <2> QED
    BY <2>2
<1> QED
  BY <1>1, <1>2 DEF OpenInv, Elems, IsOpen

LEMMA NothingSent == up' = up => NoOpenSent
  BY DEF NoOpenSent, Elems

LEMMA CloseSent ==
    ASSUME QueuesOK, Transmit(<<[kind |-> "close"]>>)
    PROVE  NoOpenSent /\ Elems(up) \subseteq Elems(up')
<1> DEFINE m == [kind |-> "close"]
<1>1. m \in UpMessages /\ ~IsOpen(m)
  BY DEF UpMessages, IsOpen
<1>2. Transmit(<<m>>)
  OBVIOUS
<1> HIDE DEF m
<1>3. <<m>> \in Seq(UpMessages) /\ Elems(<<m>>) = {m}
  BY <1>1, ElemsFew
<1> QED
  BY <1>1, <1>2, <1>3, TransmitAll DEF QueuesOK, NoOpenSent

LEMMA RequestSent ==
    ASSUME QueuesOK, NEW kind \in Requests, NEW id \in Nat,
           Transmit(<<Request(kind, id)>>)
    PROVE  NoOpenSent /\ Elems(up) \subseteq Elems(up')
<1> DEFINE m == Request(kind, id)
<1>1. m \in UpMessages /\ ~IsOpen(m)
  BY RequestFacts DEF IsOpen, Requests, HandlerOf
<1>2. Transmit(<<m>>)
  OBVIOUS
<1> HIDE DEF m
<1>3. <<m>> \in Seq(UpMessages) /\ Elems(<<m>>) = {m}
  BY <1>1, ElemsFew
<1> QED
  BY <1>1, <1>2, <1>3, TransmitAll DEF QueuesOK, NoOpenSent

-----------------------------------------------------------------------------
\* A login that begins when no other is left is the one login.
LEMMA BegunIsOne ==
    ASSUME NEW cbs, NEW state, Begun(cbs, state), streamNo' = streamNo,
           \A c \in cbs : c \notin Logins, cbs \subseteq callbacks
    PROVE  OneLogin' /\ NoOpenSent /\ fault' = fault
<1>1. PICK new : /\ callbacks' = cbs \union new
                 /\ \A c, d \in new : c.id = d.id
                 /\ NoOpenSent
                 /\ fault' = fault
  BY DEF Begun
<1>2. ASSUME NEW c \in Logins' PROVE c \in new
  BY <1>1 DEF Logins
<1>3. \A c, d \in Logins' : c.id = d.id
  BY <1>1, <1>2
<1> QED
  BY <1>1, <1>3 DEF OneLogin

LEMMA ReadNullSafe ==
    ASSUME ReadNull, streamNo' = streamNo
    PROVE  Logins' = Logins /\ NoOpenSent /\ fault' = "nullQuery"
  BY NothingSent DEF ReadNull, Logins

\* An answer to a login finds the one login of an open stream.
LEMMA AnsweredLogin ==
    ASSUME IInv, StreamInv, OpenInv, LoginInv,
           NEW handler \in Internal, Answer(handler)
    PROVE  /\ \E c \in Logins : c.id = Head(down).id /\ c.handler = handler
           /\ \A c \in Logins : c.id = Head(down).id
           /\ stream = "open" /\ Live /\ event = "none" /\ header = "live"
           /\ frame.kind = "none"
           /\ fault = "none"
           /\ down # <<>> /\ down' = Tail(down)
           /\ Head(down) \in Elems(down) /\ IsAnswer(Head(down))
           /\ UNCHANGED <<authType, authenticate, streamStart, header, stream,
                          docEnded, linked, server, streamNo, accepted>>
<1>1. /\ down # <<>> /\ down' = Tail(down)
      /\ IsAnswer(Head(down))
      /\ UNCHANGED <<authType, authenticate, streamStart, header, stream,
                     docEnded, linked, server, streamNo, accepted>>
  BY AnswerFacts DEF IsAnswer
<1>2. PICK c \in callbacks : c.id = Head(down).id /\ c.handler = handler
  BY AnswerFacts
<1>3. Head(down) \in Elems(down)
  BY <1>1, IInvParts, ReadsHead
<1>4. c \in Logins
  BY <1>1, <1>2, <1>3 DEF IInv, IdInv, AnswersMatch, Meant, Logins
<1>5. Pushed("iq")
  BY DEF Answer
<1>6. /\ connState # "csNotConnected" /\ frame.kind = "none"
      /\ stream \notin {"ended", "failed"}
      /\ fault = "none"
  BY <1>5, PushedIsWanted DEF Pushed, Arrived, Top, Running
<1>7. stream = "open"
  BY <1>4, <1>6, IInvParts DEF OpenInv, ScalarsOK
<1>8. Live
  BY <1>6, <1>7 DEF Live
<1>9. event = "none"
  BY <1>4, <1>6, <1>8 DEF LoginInv, ToldIsOver
<1>10. header = "live"
  BY <1>4, <1>8 DEF LoginInv, FreedIsOver
<1>11. \A d \in Logins : d.id = Head(down).id
  BY <1>2, <1>4 DEF LoginInv, OneLogin
<1> QED
  BY <1>1, <1>2, <1>3, <1>4, <1>6, <1>7, <1>8, <1>9, <1>10, <1>11

LEMMA ErasedLogins ==
    ASSUME NEW id, \A c \in Logins : c.id = id
    PROVE  /\ \A c \in Erase(callbacks, id) : c \notin Logins
           /\ Erase(callbacks, id) \subseteq callbacks
  BY DEF Erase

LEMMA OnAuthTypeReceivedOnce ==
    ASSUME IInv, StreamInv, OpenInv, LoginInv, OnAuthTypeReceived
    PROVE  OpenInv' /\ LoginInv'
<1>0. QueuesOK /\ [kind |-> "open"] \in UpMessages
  BY IInvParts DEF UpMessages
<1>1. Answer("OnAuthTypeReceived") /\ "OnAuthTypeReceived" \in Internal
  BY DEF OnAuthTypeReceived, Internal
<1>2. /\ \A c \in Logins : c.id = Head(down).id
      /\ stream = "open" /\ Live /\ event = "none" /\ header = "live"
      /\ frame.kind = "none" /\ fault = "none"
      /\ down # <<>> /\ down' = Tail(down)
      /\ UNCHANGED <<stream, header, streamNo, server, frame, event>>
  BY <1>1, AnsweredLogin DEF OnAuthTypeReceived
<1> DEFINE cbs == Erase(callbacks, Head(down).id)
<1>3. (\A c \in cbs : c \notin Logins) /\ cbs \subseteq callbacks
  BY <1>2, ErasedLogins
<1>4. SendLogin(connState, "atPlaintextAuth", TRUE, nextID, cbs, <<>>)
  BY DEF OnAuthTypeReceived
<1> HIDE DEF cbs
<1>5. nextID \in Nat /\ <<>> \in Seq(UpMessages) /\ Elems(<<>>) = {}
  BY <1>0, ElemsFew DEF QueuesOK
<1>6. Begun(cbs, connState) \/ ReadNull
  BY <1>0, <1>4, <1>5, SendLoginBegins
<1>7. OneLogin' /\ NoOpenSent /\ fault' \in {"none", "nullQuery"}
  BY <1>2, <1>3, <1>6, BegunIsOne, ReadNullSafe DEF LoginInv, OneLogin
<1>8. OpenInv'
  BY <1>0, <1>2, <1>7, OpenStep
<1> QED
  BY <1>2, <1>7, <1>8
     DEF LoginInv, ToldIsOver, FreedIsOver, HeaderIsLive

LEMMA IQHandler_AuthOnce ==
    ASSUME IInv, StreamInv, OpenInv, LoginInv, IQHandler_Auth
    PROVE  OpenInv' /\ LoginInv'
<1>0. QueuesOK
  BY IInvParts
<1>1. Answer("IQHandler_Auth") /\ "IQHandler_Auth" \in Internal
  BY DEF IQHandler_Auth, Internal
<1>2. /\ \A c \in Logins : c.id = Head(down).id
      /\ stream = "open" /\ header = "live" /\ fault = "none"
      /\ down # <<>> /\ down' = Tail(down)
      /\ UNCHANGED <<stream, header, streamNo, server>>
  BY <1>1, AnsweredLogin
<1>3. UNCHANGED <<callbacks, up>> /\ Logins' = Logins /\ NoOpenSent
  BY <1>2, NothingSent DEF IQHandler_Auth, Logins
<1>4. OpenInv'
  BY <1>0, <1>2, <1>3, OpenStep
<1>5. /\ frame'.id = Head(down).id /\ fault' = "none"
      /\ \/ /\ frame'.kind = "Auth" /\ connState' = "csConnected"
            /\ event' = "evtConnected"
         \/ frame'.kind = "erase" /\ event' = "evtAuthError"
  BY <1>2 DEF IQHandler_Auth, Calls, EmitConnected
<1> QED
  BY <1>2, <1>3, <1>4, <1>5
     DEF LoginInv, OneLogin, ToldIsOver, FreedIsOver, HeaderIsLive

LEMMA IQHandler_CreateUserOnce ==
    ASSUME IInv, StreamInv, OpenInv, LoginInv, IQHandler_CreateUser
    PROVE  OpenInv' /\ LoginInv'
<1>0. QueuesOK
  BY IInvParts
<1>1. Answer("IQHandler_CreateUser") /\ "IQHandler_CreateUser" \in Internal
  BY DEF IQHandler_CreateUser, Internal
<1>2. /\ \A c \in Logins : c.id = Head(down).id
      /\ stream = "open" /\ Live /\ event = "none" /\ header = "live"
      /\ frame.kind = "none" /\ fault = "none"
      /\ down # <<>> /\ down' = Tail(down)
      /\ UNCHANGED <<stream, header, streamNo, server>>
  BY <1>1, AnsweredLogin
<1> DEFINE cbs == Erase(callbacks, Head(down).id)
<1>3. (\A c \in cbs : c \notin Logins) /\ cbs \subseteq callbacks
  BY <1>2, ErasedLogins
<1>4. \/ /\ Authenticate("csAuthReq", authType, cbs)
         /\ UNCHANGED <<frame, event>>
      \/ /\ event' = "evtAuthError"
         /\ frame' = [kind |-> "erase", id |-> Head(down).id]
         /\ UNCHANGED <<callbacks, up, fault>>
      \/ /\ callbacks' = cbs
         /\ UNCHANGED <<up, fault, frame, event>>
  BY DEF IQHandler_CreateUser, Calls
<1> HIDE DEF cbs
<1>5. CASE /\ Authenticate("csAuthReq", authType, cbs)
           /\ UNCHANGED <<frame, event>>
  <2>1. Begun(cbs, "csAuthReq") \/ ReadNull
    BY <1>0, <1>5, AuthenticateBegins
  <2>2. OneLogin' /\ NoOpenSent /\ fault' \in {"none", "nullQuery"}
    BY <1>2, <1>3, <2>1, BegunIsOne, ReadNullSafe DEF LoginInv, OneLogin
  <2>3. OpenInv'
    BY <1>0, <1>2, <2>2, OpenStep
  <2> QED
    BY <1>2, <1>5, <2>2, <2>3
       DEF LoginInv, ToldIsOver, FreedIsOver, HeaderIsLive
<1>6. CASE /\ event' = "evtAuthError"
           /\ frame' = [kind |-> "erase", id |-> Head(down).id]
           /\ UNCHANGED <<callbacks, up, fault>>
  <2>1. Logins' = Logins /\ NoOpenSent
    BY <1>2, <1>6, NothingSent DEF Logins
  <2>2. OpenInv'
    BY <1>0, <1>2, <2>1, OpenStep
  <2> QED
    BY <1>2, <1>6, <2>1, <2>2
       DEF LoginInv, OneLogin, ToldIsOver, FreedIsOver, HeaderIsLive
<1>7. CASE callbacks' = cbs /\ UNCHANGED <<up, fault, frame, event>>
  <2>1. Logins' = {} /\ NoOpenSent
    BY <1>2, <1>3, <1>7, NothingSent DEF Logins
  <2>2. OpenInv'
    BY <1>0, <1>2, <2>1, OpenStep
  <2> QED
    BY <1>2, <1>7, <2>1, <2>2
       DEF LoginInv, OneLogin, ToldIsOver, FreedIsOver, HeaderIsLive
<1> QED
  BY <1>4, <1>5, <1>6, <1>7

LEMMA OtherIQsOnce ==
    ASSUME IInv, StreamInv, OpenInv, LoginInv, ApplicationCallback \/ UnaskedIQ
    PROVE  OpenInv' /\ LoginInv'
<1>0. QueuesOK
  BY IInvParts
<1>1. Pushed("iq")
  BY DEF ApplicationCallback, UnaskedIQ, Answer
<1>2. /\ frame.kind = "none" /\ down # <<>> /\ down' = Tail(down)
  BY <1>1, PushedIsWanted
<1>3. /\ UNCHANGED <<connState, callbacks, header, stream, up, server, fault,
                     streamNo, event>>
      /\ frame'.kind \in {"none", "erase"}
  BY <1>2 DEF ApplicationCallback, UnaskedIQ, Answer, Calls, loginVars, xmlVars
<1>4. Logins' = Logins /\ NoOpenSent
  BY <1>3, NothingSent DEF Logins
<1>5. OpenInv'
  BY <1>0, <1>2, <1>3, <1>4, OpenStep DEF OpenInv
<1> QED
  BY <1>2, <1>3, <1>4, <1>5
     DEF LoginInv, OneLogin, ToldIsOver, FreedIsOver, HeaderIsLive, Live

LEMMA PushEndsOnce ==
    ASSUME IInv, StreamInv, OpenInv, LoginInv,
           PushAborts \/ PushThrows \/ DocumentEnd
    PROVE  OpenInv' /\ LoginInv'
<1>0. QueuesOK
  BY IInvParts
<1>1. CASE PushAborts
  <2>1. /\ fault' = "assertion"
        /\ UNCHANGED <<connState, callbacks, header, stream, frame, up, down,
                       server, streamNo, event>>
    BY <1>1 DEF PushAborts, xmlVars
  <2>2. Logins' = Logins
    BY <2>1 DEF Logins
  <2> QED
    BY <2>1, <2>2
       DEF OpenInv, Elems, LoginInv, OneLogin, ToldIsOver, FreedIsOver,
           HeaderIsLive, Live
<1>2. CASE PushThrows
  <2>1. /\ down # <<>> /\ down' = Tail(down)
        /\ stream' = "failed"
        /\ event' = "evtXMLParserError"
        /\ frame'.kind = "parserError"
        /\ UNCHANGED <<callbacks, up, fault, streamNo>>
    BY <1>2 DEF PushThrows, Arrived
  <2>2. Logins' = Logins /\ NoOpenSent
    BY <2>1, NothingSent DEF Logins
  <2>3. OpenInv'
    BY <1>0, <2>1, <2>2, OpenStep
  <2> QED
    BY <2>1, <2>2, <2>3
       DEF LoginInv, OneLogin, ToldIsOver, FreedIsOver, HeaderIsLive, Live
<1>3. CASE DocumentEnd
  <2>1. /\ down # <<>> /\ down' = Tail(down)
        /\ stream' = "ended"
        /\ event' = "evtDisconnected"
        /\ frame'.kind = "documentEnd"
        /\ Transmit(<<[kind |-> "close"]>>)
        /\ UNCHANGED <<callbacks, fault, streamNo>>
    BY <1>3 DEF DocumentEnd, Pushed, Arrived
  <2>2. Logins' = Logins /\ NoOpenSent
    BY <1>0, <2>1, CloseSent DEF Logins
  <2>3. OpenInv'
    BY <1>0, <2>1, <2>2, OpenStep
  <2> QED
    BY <2>1, <2>2, <2>3
       DEF LoginInv, OneLogin, ToldIsOver, FreedIsOver, HeaderIsLive, Live
<1> QED
  BY <1>1, <1>2, <1>3

\* The header arrives once, before any login.
LEMMA HeaderIsFirst ==
    ASSUME QueuesOK, StreamInv, OpenInv, DocumentStart
    PROVE  /\ stream = "fresh" /\ Logins = {} /\ event = "none"
           /\ connState \in {"csCreateUser", "csAuthReq"}
           /\ frame.kind = "none" /\ fault = "none"
           /\ down # <<>> /\ down' = Tail(down)
           /\ stream' = "open" /\ header' = "live"
           /\ UNCHANGED <<frame, server, streamNo, linked>>
           /\ \/ /\ authenticate
                 /\ Authenticate(connState, authType, callbacks)
                 /\ UNCHANGED event
              \/ /\ event' = "evtConnected"
                 /\ UNCHANGED <<connState, callbacks, up, fault>>
<1>1. Pushed("open")
  BY DEF DocumentStart
<1>2. /\ down # <<>> /\ down' = Tail(down)
      /\ connState # "csNotConnected" /\ frame.kind = "none"
      /\ fault = "none" /\ Head(down).kind = "open"
  BY <1>1, PushedIsWanted DEF Pushed, Arrived, Top, Running
<1>3. 1 \in 1..Len(down) /\ Head(down) = down[1]
  BY <1>2, EmptySeq, LenProperties DEF QueuesOK
<1>4. stream = "fresh"
  BY <1>2, <1>3 DEF OpenInv, IsOpen
<1>5. Logins = {} /\ event = "none" /\ connState \in {"csCreateUser", "csAuthReq"}
  BY <1>2, <1>4 DEF OpenInv
<1>6. /\ stream' = "open" /\ header' = "live"
      /\ UNCHANGED <<frame, server, streamNo, linked>>
      /\ \/ /\ authenticate
            /\ Authenticate(connState, authType, callbacks)
            /\ UNCHANGED event
         \/ /\ event' = "evtConnected"
            /\ UNCHANGED <<connState, callbacks, up, fault>>
  BY DEF DocumentStart, loginVars
<1> QED
  BY <1>2, <1>4, <1>5, <1>6

LEMMA DocumentStartOnce ==
    ASSUME IInv, StreamInv, OpenInv, LoginInv, DocumentStart
    PROVE  OpenInv' /\ LoginInv'
<1>0. QueuesOK
  BY IInvParts
<1>1. /\ Logins = {} /\ event = "none"
      /\ frame.kind = "none" /\ fault = "none"
      /\ down # <<>> /\ down' = Tail(down)
      /\ stream' = "open" /\ header' = "live"
      /\ UNCHANGED <<frame, server, streamNo>>
      /\ \/ /\ Authenticate(connState, authType, callbacks)
            /\ UNCHANGED event
         \/ /\ event' = "evtConnected"
            /\ UNCHANGED <<connState, callbacks, up, fault>>
  BY <1>0, HeaderIsFirst
<1>2. CASE Authenticate(connState, authType, callbacks) /\ UNCHANGED event
  <2>1. Begun(callbacks, connState) \/ ReadNull
    BY <1>0, <1>2, AuthenticateBegins
  <2>2. OneLogin' /\ NoOpenSent /\ fault' \in {"none", "nullQuery"}
    BY <1>1, <2>1, BegunIsOne, ReadNullSafe DEF LoginInv, OneLogin
  <2>3. OpenInv'
    BY <1>0, <1>1, <2>2, OpenStep
  <2> QED
    BY <1>1, <1>2, <2>2, <2>3
       DEF LoginInv, ToldIsOver, FreedIsOver, HeaderIsLive
<1>3. CASE event' = "evtConnected" /\ UNCHANGED <<connState, callbacks, up, fault>>
  <2>1. Logins' = {} /\ NoOpenSent
    BY <1>1, <1>3, NothingSent DEF Logins
  <2>2. OpenInv'
    BY <1>0, <1>1, <2>1, OpenStep
  <2> QED
    BY <1>1, <1>3, <2>1, <2>2
       DEF LoginInv, OneLogin, ToldIsOver, FreedIsOver, HeaderIsLive
<1> QED
  BY <1>1, <1>2, <1>3

LEMMA ReturnOnce ==
    ASSUME IInv, StreamInv, OpenInv, LoginInv, Return
    PROVE  OpenInv' /\ LoginInv'
<1>0. QueuesOK
  BY IInvParts
<1>1. /\ frame'.kind = "none"
      /\ UNCHANGED <<stream, linked, down, server, fault, streamNo, event>>
  BY DEF Return, ReturnDocumentEnd, ReturnParserError, ReturnAuth, ReturnErase,
         Returns, Idle, xmlVars
<1>2. CASE ReturnDocumentEnd \/ ReturnParserError
  <2>1. /\ connState' = "csNotConnected"
        /\ UNCHANGED <<callbacks, up>>
    BY <1>2 DEF ReturnDocumentEnd, ReturnParserError, Returns, StreamInv
  <2>2. Logins' = Logins /\ NoOpenSent
    BY <1>1, <2>1, NothingSent DEF Logins
  <2>3. OpenInv'
    BY <1>0, <1>1, <2>1, <2>2, OpenStep DEF OpenInv
  <2> QED
    BY <1>1, <2>1, <2>2, <2>3
       DEF LoginInv, OneLogin, ToldIsOver, FreedIsOver, HeaderIsLive, Live
<1>3. CASE ReturnAuth
  <2>1. /\ frame.kind = "Auth"
        /\ callbacks' = Erase(callbacks, frame.id)
        /\ UNCHANGED connState
        /\ \/ /\ nextID \in Nat
              /\ Transmit(<<Request("roster", nextID)>>)
           \/ up' = up
    BY <1>0, <1>3 DEF ReturnAuth, Returns, QueuesOK
  <2>2. connState = "csConnected" /\ stream = "open" /\ event = "evtConnected"
    BY <2>1 DEF LoginInv
  <2>3. \A c \in Logins : c.id = frame.id
    BY <2>2 DEF LoginInv, ToldIsOver, Live
  <2>4. Logins' = {}
    BY <1>1, <2>1, <2>3 DEF Logins, Erase
  <2>5. "roster" \in Requests
    BY DEF Requests
  <2>6. NoOpenSent
    BY <1>0, <2>1, <2>5, RequestSent, NothingSent
  <2>7. OpenInv'
    BY <1>0, <1>1, <2>2, <2>6, OpenStep
  <2> QED
    BY <1>1, <2>1, <2>2, <2>4, <2>7
       DEF LoginInv, OneLogin, ToldIsOver, FreedIsOver, HeaderIsLive, Live
<1>4. CASE ReturnErase
  <2>1. /\ frame.kind = "erase"
        /\ callbacks' = Erase(callbacks, frame.id)
        /\ UNCHANGED <<connState, header, up>>
    BY <1>4 DEF ReturnErase, Returns
  <2>2. Logins' \subseteq Logins /\ \A c \in Logins' : c.id # frame.id
    BY <1>1, <2>1 DEF Logins, Erase
  <2>3. NoOpenSent
    BY <2>1, NothingSent
  <2>4. OpenInv'
    BY <1>0, <1>1, <2>1, <2>2, <2>3, OpenStep DEF OpenInv
  <2>5. ToldIsOver'
    BY <1>1, <2>1, <2>2 DEF LoginInv, ToldIsOver, Live
  <2>6. OneLogin' /\ FreedIsOver'
    BY <1>1, <2>1, <2>2 DEF LoginInv, OneLogin, FreedIsOver, Live
  <2> QED
    BY <1>1, <2>1, <2>4, <2>5, <2>6 DEF LoginInv, HeaderIsLive
<1> QED
  BY <1>2, <1>3, <1>4 DEF Return

-----------------------------------------------------------------------------
LEMMA DisconnectOnce ==
    ASSUME "linger" \notin Habits, "reentrant" \notin Habits,
           IInv, OpenInv, LoginInv, Disconnect
    PROVE  OpenInv' /\ LoginInv'
<1>1. /\ frame.kind = "none"
      /\ connState' = "csNotConnected" /\ event' = "none"
      /\ up' = <<>> /\ down' = <<>>
      /\ UNCHANGED <<callbacks, stream, frame, fault, streamNo>>
  BY DEF Disconnect, AppRuns, xmlVars
<1>2. Logins' = Logins
  BY <1>1 DEF Logins
<1>3. Elems(<<>>) = {} /\ Len(<<>>) = 0
  BY ElemsFew, EmptySeq
<1>4. Elems(up') = {} /\ 1..Len(down') = {}
  BY <1>1, <1>3
<1>5. OpenInv'
  BY <1>1, <1>2, <1>4 DEF OpenInv, Elems
<1> QED
  BY <1>1, <1>2, <1>5
     DEF LoginInv, OneLogin, ToldIsOver, FreedIsOver, HeaderIsLive, Live

LEMMA QueryNamespaceOnce ==
    ASSUME "reentrant" \notin Habits, IInv, StreamInv, OpenInv, LoginInv,
           QueryNamespace
    PROVE  OpenInv' /\ LoginInv'
<1>0. QueuesOK
  BY IInvParts
<1>1. /\ frame.kind = "none" /\ connState = "csConnected"
      /\ callbacks' = callbacks \union Registered("query", nextID)
      /\ Transmit(<<Request("query", nextID)>>)
      /\ UNCHANGED <<connState, header, stream, frame, linked, down, server,
                     fault, streamNo, event>>
  BY DEF QueryNamespace, AppRuns, xmlVars
<1>2. \A c \in Registered("query", nextID) : c.handler \notin Internal
  BY DEF Registered, HandlerOf, Internal
<1>3. Logins' = Logins
  BY <1>1, <1>2 DEF Logins
<1>4. stream # "fresh"
  BY <1>1 DEF OpenInv
<1>5. "query" \in Requests /\ nextID \in Nat
  BY <1>0 DEF Requests, HandlerOf, QueuesOK
<1>6. NoOpenSent
  BY <1>0, <1>1, <1>5, RequestSent
<1>7. OpenInv'
  BY <1>0, <1>1, <1>4, <1>6, OpenStep
<1> QED
  BY <1>1, <1>3, <1>7
     DEF LoginInv, OneLogin, ToldIsOver, FreedIsOver, HeaderIsLive, Live

LEMMA OpenStreamOnce ==
    ASSUME QueuesOK, LoginInv, NEW newuser, OpenStream(newuser),
           frame.kind = "none", UNCHANGED frame
    PROVE  OpenInv' /\ LoginInv'
<1>1. /\ connState' \in {"csCreateUser", "csAuthReq"}
      /\ stream' = "fresh" /\ event' = "none" /\ server' = "silent"
      /\ up' = <<[kind |-> "open"]>> /\ down' = <<>>
      /\ streamNo' = streamNo + 1
      /\ UNCHANGED <<callbacks, fault>>
  BY DEF OpenStream
<1>2. \A c \in callbacks : c.stream # streamNo'
  BY <1>1 DEF QueuesOK, Callback
<1>3. Logins' = {}
  BY <1>1, <1>2 DEF Logins
<1>4. Len(<<>>) = 0
  BY EmptySeq
<1>5. 1..Len(down') = {}
  BY <1>1, <1>4
<1>6. OpenInv'
  BY <1>1, <1>3, <1>5 DEF OpenInv
<1> QED
  BY <1>1, <1>3, <1>6
     DEF LoginInv, OneLogin, ToldIsOver, FreedIsOver, HeaderIsLive, Live

\* connect() after a refusal, when the stream is open and no login is left.
LEMMA AgainIsAfterError ==
    ASSUME "again" \notin Habits, LoginInv, frame.kind = "none",
           NEW atype, NEW newuser, NEW auth,
           AuthenticateAgain(atype, newuser, auth)
    PROVE  /\ event = "evtAuthError" /\ stream = "open" /\ Logins = {}
           /\ header = "live"
           /\ connState \in {"csCreateUser", "csAuthReq", "csAwaitingAuth"}
           /\ UNCHANGED <<stream, linked, down, server, streamNo>>
<1>1. /\ event = "evtAuthError"
      /\ connState \in {"csCreateUser", "csAuthReq", "csAwaitingAuth"}
      /\ UNCHANGED <<stream, linked, down, server, streamNo>>
  BY DEF AuthenticateAgain, xmlVars
<1>2. stream = "open" /\ Live
  BY <1>1 DEF LoginInv, Live
<1>3. Logins = {}
  BY <1>1, <1>2 DEF LoginInv, ToldIsOver
<1>4. header = "live"
  BY <1>1, <1>2 DEF LoginInv, FreedIsOver
<1> QED
  BY <1>1, <1>2, <1>3, <1>4

LEMMA AuthenticateAgainOnce ==
    ASSUME "again" \notin Habits, IInv, OpenInv, LoginInv,
           frame.kind = "none", fault = "none", UNCHANGED <<frame, header>>,
           NEW atype, NEW newuser, NEW auth,
           AuthenticateAgain(atype, newuser, auth)
    PROVE  OpenInv' /\ LoginInv'
<1>0. QueuesOK
  BY IInvParts
<1>1. /\ stream = "open" /\ Logins = {} /\ header = "live"
      /\ UNCHANGED <<stream, down, server, streamNo>>
  BY AgainIsAfterError
<1> DEFINE state == IF newuser THEN "csCreateUser" ELSE connState
<1>2. \/ Authenticate(state, atype, callbacks) /\ event' = "none"
      \/ EmitConnected /\ UNCHANGED <<callbacks, up>>
  BY DEF AuthenticateAgain
<1> HIDE DEF state
<1>3. CASE Authenticate(state, atype, callbacks) /\ event' = "none"
  <2>1. Begun(callbacks, state) \/ ReadNull
    BY <1>0, <1>3, AuthenticateBegins
  <2>2. OneLogin' /\ NoOpenSent /\ fault' \in {"none", "nullQuery"}
    BY <1>1, <2>1, BegunIsOne, ReadNullSafe DEF LoginInv, OneLogin
  <2>3. OpenInv'
    BY <1>0, <1>1, <2>2, OpenStep
  <2> QED
    BY <1>1, <1>3, <2>2, <2>3
       DEF LoginInv, ToldIsOver, FreedIsOver, HeaderIsLive
<1>4. CASE EmitConnected /\ UNCHANGED <<callbacks, up>>
  <2>1. event' = "evtConnected" /\ fault' = "none"
    BY <1>1, <1>4 DEF EmitConnected
  <2>2. Logins' = {} /\ NoOpenSent
    BY <1>1, <1>4, NothingSent DEF Logins
  <2>3. OpenInv'
    BY <1>0, <1>1, <2>2, OpenStep
  <2> QED
    BY <1>1, <2>1, <2>2, <2>3
       DEF LoginInv, OneLogin, ToldIsOver, FreedIsOver, HeaderIsLive
<1> QED
  BY <1>2, <1>3, <1>4

LEMMA ApplicationOnce ==
    ASSUME Habits \cap {"again", "linger", "reentrant"} = {},
           IInv, StreamInv, OpenInv, LoginInv, Application
    PROVE  OpenInv' /\ LoginInv'
<1>1. CASE Connect
  <2>1. PICK atype \in AuthTypes, newuser \in BOOLEAN, auth \in BOOLEAN :
           OpenStream(newuser) \/ AuthenticateAgain(atype, newuser, auth)
    BY <1>1 DEF Connect
  <2>2. frame.kind = "none" /\ fault = "none" /\ UNCHANGED <<frame, header>>
    BY <1>1 DEF Connect, AppRuns, Running
  <2> QED
    BY <2>1, <2>2, IInvParts, OpenStreamOnce, AuthenticateAgainOnce
<1>2. CASE Disconnect
  BY <1>2, DisconnectOnce
<1>3. CASE QueryNamespace
  BY <1>3, QueryNamespaceOnce
<1> QED
  BY <1>1, <1>2, <1>3 DEF Application

-----------------------------------------------------------------------------
\* The server says one thing: on its own account while it is open, or to what
\* it reads.
Replied(m) ==
    /\ up # <<>>
    /\ up' = Tail(up)
    /\ IsOpen(m) <=> IsOpen(Head(up))
    /\ IsRequest(Head(up)) => IsAnswer(m) /\ m.id = Head(up).id

Said ==
    \E m \in DownMessages :
        /\ Say(m)
        /\ IsAnswer(m) /\ m.type = "emptyError" => "emptyError" \in Faults
        /\ \/ Replied(m)
           \/ server = "open" /\ up' = up /\ ~IsOpen(m)

LEMMA ServerSays ==
    ASSUME QueuesOK, ServerReads \/ ServerHangsUp \/ ServerSendsGarbage
    PROVE  /\ Said
           /\ UNCHANGED <<connState, callbacks, header, stream, frame, linked,
                          fault, streamNo, event>>
<1>1. UNCHANGED <<connState, callbacks, header, stream, frame, linked, fault,
                  streamNo, event>>
  BY DEF ServerReads, ServerHangsUp, ServerSendsGarbage, ServerOnly, xmlVars
<1>2. CASE ServerReads
  <2> DEFINE r == Head(up)
  <2>1. up # <<>> /\ up' = Tail(up)
    BY <1>2 DEF ServerReads
  <2>2. r \in UpMessages
    BY <2>1, ElemsTail DEF QueuesOK
  <2>3. \/ r.kind = "open" /\ Say([kind |-> "open"])
        \/ r.kind = "close" /\ Say([kind |-> "close"])
        \/ /\ r.kind # "open" /\ r.kind # "close"
           /\ \E type \in Answers(r.kind) :
                 Say([kind |-> "iq", id |-> r.id, re |-> r.kind, type |-> type])
    BY <1>2 DEF ServerReads
  <2> HIDE DEF r
  <2>4. CASE r.kind = "open" /\ Say([kind |-> "open"])
    <3> DEFINE m == [kind |-> "open"]
    <3>1. m \in DownMessages /\ ~IsAnswer(m) /\ Say(m)
      BY <2>4, TagsDown
    <3>2. m.kind = "open"
      OBVIOUS
    <3> HIDE DEF m
    <3>3. ~IsRequest(r) /\ (IsOpen(m) <=> IsOpen(r))
      BY <2>4, <3>2 DEF IsRequest, Requests, HandlerOf, IsOpen
    <3>4. Replied(m)
      BY <2>1, <3>3 DEF Replied, r
    <3> QED
      BY <1>1, <3>1, <3>4 DEF Said
  <2>5. CASE r.kind = "close" /\ Say([kind |-> "close"])
    <3> DEFINE m == [kind |-> "close"]
    <3>1. m \in DownMessages /\ ~IsAnswer(m) /\ Say(m)
      BY <2>5, TagsDown
    <3>2. m.kind = "close"
      OBVIOUS
    <3> HIDE DEF m
    <3>3. ~IsRequest(r) /\ (IsOpen(m) <=> IsOpen(r))
      BY <2>5, <3>2 DEF IsRequest, Requests, HandlerOf, IsOpen
    <3>4. Replied(m)
      BY <2>1, <3>3 DEF Replied, r
    <3> QED
      BY <1>1, <3>1, <3>4 DEF Said
  <2>6. CASE /\ r.kind # "open" /\ r.kind # "close"
             /\ \E type \in Answers(r.kind) :
                   Say([kind |-> "iq", id |-> r.id, re |-> r.kind, type |-> type])
    <3>1. r.kind \in Requests /\ r.id \in Nat
      BY <2>2, <2>6 DEF UpMessages
    <3>2. PICK type \in Answers(r.kind) :
             Say([kind |-> "iq", id |-> r.id, re |-> r.kind, type |-> type])
      BY <2>6
    <3>3. /\ type \in {"result", "refuse", "emptyError"}
          /\ type = "emptyError" => "emptyError" \in Faults
      BY DEF Answers
    <3> DEFINE a == [kind |-> "iq", id |-> r.id, re |-> r.kind, type |-> type]
    <3>4. /\ a \in DownMessages /\ a.kind = "iq" /\ a.id = r.id /\ a.type = type
      BY <3>1, <3>3 DEF DownMessages
    <3>5. Say(a)
      BY <3>2
    <3> HIDE DEF a
    <3>6. Replied(a)
      BY <2>1, <2>6, <3>4 DEF Replied, IsOpen, IsAnswer, r
    <3> QED
      BY <1>1, <3>3, <3>4, <3>5, <3>6 DEF Said
  <2> QED
    BY <2>3, <2>4, <2>5, <2>6
<1>3. CASE ServerHangsUp
  <2>1. Say([kind |-> "close"]) /\ server = "open" /\ up' = up
    BY <1>3 DEF ServerHangsUp
  <2> QED
    BY <1>1, <2>1, TagsDown DEF Said, IsOpen
<1>4. CASE ServerSendsGarbage
  <2>1. Say([kind |-> "garbage"]) /\ server = "open" /\ up' = up
    BY <1>4 DEF ServerSendsGarbage
  <2> QED
    BY <1>1, <2>1, TagsDown DEF Said, IsOpen
<1> QED
  BY <1>2, <1>3, <1>4

LEMMA ServerOnce ==
    ASSUME IInv, OpenInv, LoginInv,
           ServerReads \/ ServerHangsUp \/ ServerSendsGarbage
    PROVE  OpenInv' /\ LoginInv'
<1>0. QueuesOK
  BY IInvParts
<1>1. /\ Said
      /\ UNCHANGED <<connState, callbacks, header, stream, frame, linked, fault,
                     streamNo, event>>
  BY <1>0, ServerSays
<1>2. Logins' = Logins
  BY <1>1 DEF Logins
<1>3. LoginInv'
  BY <1>1, <1>2
     DEF LoginInv, OneLogin, ToldIsOver, FreedIsOver, HeaderIsLive, Live
<1>4. PICK m \in DownMessages :
         /\ Say(m)
         /\ Replied(m) \/ (server = "open" /\ up' = up /\ ~IsOpen(m))
  BY <1>1 DEF Said
<1>5. /\ Len(down) \in Nat
      /\ Len(down') = Len(down) + 1
      /\ \A i \in 1..Len(down) : down'[i] = down[i]
      /\ down'[Len(down) + 1] = m
  BY <1>0, <1>4, AppendProperties, LenProperties DEF QueuesOK, Say
<1>6. IsOpen(m) => down = <<>> /\ stream = "fresh"
  <2> SUFFICES ASSUME IsOpen(m) PROVE down = <<>> /\ stream = "fresh"
    OBVIOUS
  <2>1. up # <<>> /\ IsOpen(Head(up))
    BY <1>4 DEF Replied
  <2>2. Head(up) \in Elems(up)
    BY <1>0, <2>1, ElemsTail DEF QueuesOK
  <2> QED
    BY <2>1, <2>2 DEF OpenInv
<1>7. ASSUME NEW i \in 1..Len(down'), IsOpen(down'[i])
      PROVE  i = 1 /\ stream' = "fresh"
  <2>1. CASE i \in 1..Len(down)
    BY <1>1, <1>5, <1>7, <2>1 DEF OpenInv
  <2>2. CASE i = Len(down) + 1
    <3>1. IsOpen(m)
      BY <1>5, <1>7, <2>2
    <3>2. Len(down) = 0
      BY <1>6, <3>1, EmptySeq
    <3> QED
      BY <1>1, <1>6, <2>2, <3>1, <3>2
  <2> QED
    BY <1>5, <2>1, <2>2
<1>8. \A k \in Elems(up') : ~IsOpen(k)
  <2>1. CASE Replied(m)
    <3> DEFINE t == Tail(up)
    <3>1. up # <<>> /\ up' = t
      BY <2>1 DEF Replied
    <3>2. t \in Seq(UpMessages) /\ Elems(t) \subseteq Elems(up)
      BY <1>0, <3>1, ElemsTail DEF QueuesOK
    <3>3. ASSUME up = <<[kind |-> "open"]>> PROVE Elems(t) = {}
      <4>1. Len(t) = Len(up) - 1 /\ Len(up) = 1
        BY <1>0, <3>1, <3>3, HeadTailProperties DEF QueuesOK
      <4> HIDE DEF t
      <4> QED
        BY <4>1 DEF Elems
    <3> HIDE DEF t
    <3> QED
      BY <3>1, <3>2, <3>3 DEF OpenInv
  <2>2. CASE server = "open" /\ up' = up
    BY <2>2 DEF OpenInv
  <2> QED
    BY <1>4, <2>1, <2>2
<1>9. OpenInv'
  BY <1>1, <1>2, <1>7, <1>8 DEF OpenInv, Elems, IsOpen
<1> QED
  BY <1>3, <1>9

LEMMA LoginStep ==
    ASSUME Habits \cap {"again", "linger", "reentrant"} = {},
           IInv, StreamInv, OpenInv, LoginInv, [Next]_vars
    PROVE  OpenInv' /\ LoginInv'
<1>1. CASE Application
  BY <1>1, ApplicationOnce
<1>2. CASE Push
  BY <1>2, PushEndsOnce, DocumentStartOnce, OnAuthTypeReceivedOnce,
     IQHandler_AuthOnce, IQHandler_CreateUserOnce, OtherIQsOnce DEF Push
<1>3. CASE Return
  BY <1>3, ReturnOnce
<1>4. CASE ServerReads \/ ServerHangsUp \/ ServerSendsGarbage
  BY <1>4, ServerOnce
<1>5. CASE UNCHANGED vars
  <2>1. UNCHANGED <<connState, callbacks, header, stream, frame, up, down,
                    server, fault, streamNo, event>>
    BY <1>5 DEF vars
  <2>2. Logins' = Logins
    BY <2>1 DEF Logins
  <2>3. OpenInv'
    BY <2>1, <2>2 DEF OpenInv, Elems
  <2> QED
    BY <2>1, <2>2, <2>3
       DEF LoginInv, OneLogin, ToldIsOver, FreedIsOver, HeaderIsLive, Live
<1> QED
  BY <1>1, <1>2, <1>3, <1>4, <1>5 DEF Next

LEMMA InitOnce == Init => OpenInv /\ LoginInv
<1> SUFFICES ASSUME Init PROVE OpenInv /\ LoginInv
  OBVIOUS
<1>1. Elems(<<>>) = {} /\ Len(<<>>) = 0
  BY ElemsFew, EmptySeq
<1>2. Logins = {} /\ Elems(up) = {} /\ 1..Len(down) = {}
  BY <1>1 DEF Init, Logins
<1> QED
  BY <1>2
     DEF Init, Idle, OpenInv, LoginInv, OneLogin, ToldIsOver, FreedIsOver,
         HeaderIsLive, Live

\* With an application that calls connect() again only after an evtAuthError,
\* whatever the server does: _StreamStart is true of the stream, and no handler
\* of evtConnected is handed a header that was freed or never received.
THEOREM StreamIsTrackedAlways ==
    ASSUME Habits \cap {"again", "linger", "reentrant"} = {}
    PROVE  Spec => []StreamIsTracked
<1> DEFINE Inv == IInv /\ StreamInv /\ OpenInv /\ LoginInv
<1>1. Init => Inv
  BY InitSafe, InitStreams, InitOnce
<1>2. Inv /\ [Next]_vars => Inv'
  BY NextSafe, StreamStep, LoginStep
<1>3. Inv => StreamIsTracked
  BY DEF StreamInv, LoginInv, StreamIsTracked, StreamStartTracksStream, Top, Live
<1> QED
  BY <1>1, <1>2, <1>3, PTL DEF Spec

-----------------------------------------------------------------------------
\* A login is under way whose callback waits for what is still to come.
UnderWay ==
    \E c \in Logins :
        /\ Asked(c.id)
        /\ c.handler = "OnAuthTypeReceived" => connState \in {"csCreateUser", "csAuthReq"}

UnderWayInv ==
    /\ \A m \in Elems(down) : IsAnswer(m) => m.type # "emptyError"
    /\ Running /\ Live /\ event = "none" => UnderWay
    /\ Running /\ event = "evtAuthError" => connState = "csAuthReq"
    /\ connState # "csNotConnected" => linked
    /\ frame.kind = "erase" /\ event = "none" =>
          \A c \in Logins : c.id # frame.id

LEMMA BegunIsUnderWay ==
    ASSUME NEW cbs, NEW state \in {"csCreateUser", "csAuthReq"},
           Begun(cbs, state), linked, streamNo' = streamNo
    PROVE  UnderWay'
<1>1. PICK new \in SUBSET Callback :
         /\ callbacks' = cbs \union new
         /\ \E c \in new :
               /\ c.handler \in Internal
               /\ c.stream = streamNo
               /\ \E m \in Elems(up') : IsRequest(m) /\ m.id = c.id
               /\ c.handler = "OnAuthTypeReceived" => connState' = state
  BY DEF Begun
<1>2. PICK c \in new :
         /\ c.handler \in Internal
         /\ c.stream = streamNo
         /\ \E m \in Elems(up') : IsRequest(m) /\ m.id = c.id
         /\ c.handler = "OnAuthTypeReceived" => connState' = state
  BY <1>1
<1>3. c \in Logins'
  BY <1>1, <1>2 DEF Logins
<1>4. Asked(c.id)'
  BY <1>2 DEF Asked, Elems, IsRequest
<1> QED
  BY <1>2, <1>3, <1>4 DEF UnderWay

\* Callbacks of one id have one handler.
LEMMA AnsweredKind ==
    ASSUME IInv, NEW handler, Answer(handler),
           NEW d \in callbacks, d.id = Head(down).id
    PROVE  d.handler = handler
<1>1. down # <<>> /\ down' = Tail(down) /\ IsAnswer(Head(down))
  BY AnswerFacts DEF IsAnswer
<1>2. PICK c \in callbacks : c.id = Head(down).id /\ c.handler = handler
  BY AnswerFacts
<1>3. Head(down) \in Elems(down)
  BY <1>1, IInvParts, ReadsHead
<1> QED
  BY <1>1, <1>2, <1>3 DEF IInv, IdInv, AnswersMatch, Meant

LEMMA AnswersAreLeft ==
    ASSUME QueuesOK, UnderWayInv, down # <<>>, down' = Tail(down)
    PROVE  \A m \in Elems(down') : IsAnswer(m) => m.type # "emptyError"
<1>1. Elems(down') \subseteq Elems(down)
  BY ReadsHead DEF Reads
<1> QED
  BY <1>1 DEF UnderWayInv

\* An iq that answers no login leaves every login as it is.
LEMMA LoginIsLeft ==
    ASSUME QueuesOK, UnderWay, down # <<>>, down' = Tail(down),
           \A c \in Logins : c.id # Head(down).id,
           UNCHANGED <<connState, callbacks, up, streamNo>>
    PROVE  UnderWay'
<1>1. PICK c \in Logins :
         /\ Asked(c.id)
         /\ c.handler = "OnAuthTypeReceived" =>
               connState \in {"csCreateUser", "csAuthReq"}
  BY DEF UnderWay
<1>2. c \in Logins'
  BY DEF Logins
<1>3. Elems(down) = {Head(down)} \union Elems(Tail(down))
  BY ElemsTailAll DEF QueuesOK
<1>4. \/ \E m \in Elems(up) : IsRequest(m) /\ m.id = c.id
      \/ \E m \in Elems(Tail(down)) : IsAnswer(m) /\ m.id = c.id
  BY <1>1, <1>3 DEF Asked
<1> DEFINE t == Tail(down)
<1> HIDE DEF t
<1>5. down' = t /\ \/ \E m \in Elems(up) : IsRequest(m) /\ m.id = c.id
                   \/ \E m \in Elems(t) : IsAnswer(m) /\ m.id = c.id
  BY <1>4 DEF t
<1>6. Asked(c.id)'
  BY <1>5 DEF Asked, Elems, IsRequest, IsAnswer
<1> QED
  BY <1>1, <1>2, <1>6 DEF UnderWay

\* The answer to a login is the one it waits for, and no emptyError.
LEMMA AnsweredUnderWay ==
    ASSUME IInv, StreamInv, OpenInv, LoginInv, UnderWayInv,
           NEW handler \in Internal, Answer(handler)
    PROVE  /\ Head(down).type \in {"result", "refuse"}
           /\ linked /\ UNCHANGED linked
           /\ handler = "OnAuthTypeReceived" =>
                 connState \in {"csCreateUser", "csAuthReq"}
           /\ \A m \in Elems(down') : IsAnswer(m) => m.type # "emptyError"
<1>1. /\ Live /\ event = "none" /\ fault = "none"
      /\ down # <<>> /\ down' = Tail(down)
      /\ Head(down) \in Elems(down) /\ IsAnswer(Head(down))
      /\ UNCHANGED linked
      /\ \A c \in Logins : c.id = Head(down).id
  BY AnsweredLogin
<1>2. Head(down) \in DownMessages
  BY <1>1, IInvParts, ReadsHead
<1>3. Head(down).type \in {"result", "refuse"}
  BY <1>1, <1>2 DEF UnderWayInv, DownMessages, IsAnswer
<1>4. UnderWay /\ linked
  BY <1>1 DEF UnderWayInv, Running, Live
<1>5. handler = "OnAuthTypeReceived" => connState \in {"csCreateUser", "csAuthReq"}
  BY <1>1, <1>4, AnsweredKind DEF UnderWay, Logins
<1> QED
  BY <1>1, <1>3, <1>4, <1>5, IInvParts, AnswersAreLeft

LEMMA AnswersUnderWay ==
    ASSUME IInv, StreamInv, OpenInv, LoginInv, UnderWayInv,
           OnAuthTypeReceived \/ IQHandler_Auth \/ IQHandler_CreateUser
    PROVE  UnderWayInv'
<1>0. QueuesOK /\ [kind |-> "open"] \in UpMessages
  BY IInvParts DEF UpMessages
<1>1. CASE OnAuthTypeReceived
  <2>1. /\ Answer("OnAuthTypeReceived") /\ "OnAuthTypeReceived" \in Internal
        /\ UNCHANGED <<frame, event>>
    BY <1>1 DEF OnAuthTypeReceived, Internal
  <2>2. /\ event = "none" /\ frame.kind = "none" /\ UNCHANGED streamNo
    BY <2>1, AnsweredLogin
  <2>3. /\ linked /\ UNCHANGED linked
        /\ connState \in {"csCreateUser", "csAuthReq"}
        /\ \A m \in Elems(down') : IsAnswer(m) => m.type # "emptyError"
    BY <2>1, AnsweredUnderWay
  <2> DEFINE cbs == Erase(callbacks, Head(down).id)
  <2>4. SendLogin(connState, "atPlaintextAuth", TRUE, nextID, cbs, <<>>)
    BY <1>1 DEF OnAuthTypeReceived
  <2> HIDE DEF cbs
  <2>5. nextID \in Nat /\ <<>> \in Seq(UpMessages) /\ Elems(<<>>) = {}
    BY <1>0, ElemsFew DEF QueuesOK
  <2>6. Begun(cbs, connState) \/ ReadNull
    BY <1>0, <2>4, <2>5, SendLoginBegins
  <2>7. Running' => UnderWay'
    BY <2>2, <2>3, <2>6, BegunIsUnderWay DEF ReadNull, Running
  <2> QED
    BY <2>1, <2>2, <2>3, <2>7 DEF UnderWayInv, Elems, IsAnswer
<1>2. CASE IQHandler_Auth
  <2>1. Answer("IQHandler_Auth") /\ "IQHandler_Auth" \in Internal
    BY <1>2 DEF IQHandler_Auth, Internal
  <2>2. /\ linked /\ UNCHANGED linked
        /\ Head(down).type \in {"result", "refuse"}
        /\ \A m \in Elems(down') : IsAnswer(m) => m.type # "emptyError"
    BY <2>1, AnsweredUnderWay
  <2>3. \/ event' = "evtConnected"
        \/ event' = "evtAuthError" /\ connState' = "csAuthReq"
    BY <1>2, <2>2 DEF IQHandler_Auth, EmitConnected
  <2> QED
    BY <2>2, <2>3 DEF UnderWayInv, Elems, IsAnswer
<1>3. CASE IQHandler_CreateUser
  <2>1. Answer("IQHandler_CreateUser") /\ "IQHandler_CreateUser" \in Internal
    BY <1>3 DEF IQHandler_CreateUser, Internal
  <2>2. /\ linked /\ UNCHANGED linked
        /\ Head(down).type \in {"result", "refuse"}
        /\ \A m \in Elems(down') : IsAnswer(m) => m.type # "emptyError"
    BY <2>1, AnsweredUnderWay
  <2>3. event = "none" /\ frame.kind = "none" /\ UNCHANGED streamNo
    BY <2>1, AnsweredLogin
  <2> DEFINE cbs == Erase(callbacks, Head(down).id)
  <2>4. \/ /\ Authenticate("csAuthReq", authType, cbs)
           /\ UNCHANGED <<frame, event>>
        \/ event' = "evtAuthError" /\ connState' = "csAuthReq"
    BY <1>3, <2>2 DEF IQHandler_CreateUser
  <2> HIDE DEF cbs
  <2>5. CASE /\ Authenticate("csAuthReq", authType, cbs)
             /\ UNCHANGED <<frame, event>>
    <3>1. Begun(cbs, "csAuthReq") \/ ReadNull
      BY <1>0, <2>5, AuthenticateBegins
    <3>2. Running' => UnderWay'
      BY <2>2, <2>3, <3>1, BegunIsUnderWay DEF ReadNull, Running
    <3> QED
      BY <2>2, <2>3, <2>5, <3>2 DEF UnderWayInv, Elems, IsAnswer
  <2>6. CASE event' = "evtAuthError" /\ connState' = "csAuthReq"
    BY <2>2, <2>6 DEF UnderWayInv, Elems, IsAnswer
  <2> QED
    BY <2>4, <2>5, <2>6
<1> QED
  BY <1>1, <1>2, <1>3

LEMMA OtherPushesUnderWay ==
    ASSUME IInv, StreamInv, OpenInv, LoginInv, UnderWayInv,
           \/ PushAborts \/ PushThrows \/ DocumentStart \/ DocumentEnd
           \/ ApplicationCallback \/ UnaskedIQ
    PROVE  UnderWayInv'
<1>0. QueuesOK
  BY IInvParts
<1>1. CASE PushAborts
  <2>1. /\ fault' = "assertion"
        /\ UNCHANGED <<connState, callbacks, frame, linked, down, streamNo, event>>
    BY <1>1 DEF PushAborts
  <2>2. Logins' = Logins
    BY <2>1 DEF Logins
  <2> QED
    BY <2>1, <2>2 DEF UnderWayInv, Running, Elems, IsAnswer
<1>2. ASSUME down # <<>>, down' = Tail(down)
      PROVE  \A m \in Elems(down') : IsAnswer(m) => m.type # "emptyError"
  BY <1>0, <1>2, AnswersAreLeft
<1>3. CASE PushThrows \/ DocumentEnd
  <2>1. /\ down # <<>> /\ down' = Tail(down)
        /\ stream' \in {"failed", "ended"}
        /\ event' \in {"evtXMLParserError", "evtDisconnected"}
        /\ connState' \in {connState, "csNotConnected"}
        /\ UNCHANGED linked
    BY <1>3 DEF PushThrows, DocumentEnd, Pushed, Arrived
  <2> QED
    BY <1>2, <2>1 DEF UnderWayInv, Live, Elems, IsAnswer
<1>4. CASE DocumentStart
  <2>1. /\ connState \in {"csCreateUser", "csAuthReq"}
        /\ event = "none" /\ frame.kind = "none"
        /\ down # <<>> /\ down' = Tail(down)
        /\ UNCHANGED <<frame, streamNo, linked>>
        /\ \/ /\ Authenticate(connState, authType, callbacks)
              /\ UNCHANGED event
           \/ event' = "evtConnected"
    BY <1>0, <1>4, HeaderIsFirst
  <2>2. linked
    BY <2>1 DEF UnderWayInv
  <2>3. CASE Authenticate(connState, authType, callbacks) /\ UNCHANGED event
    <3>1. Begun(callbacks, connState) \/ ReadNull
      BY <1>0, <2>3, AuthenticateBegins
    <3>2. Running' => UnderWay'
      BY <2>1, <2>2, <3>1, BegunIsUnderWay DEF ReadNull, Running
    <3> QED
      BY <1>2, <2>1, <2>2, <2>3, <3>2 DEF UnderWayInv, Elems, IsAnswer
  <2>4. CASE event' = "evtConnected"
    BY <1>2, <2>1, <2>2, <2>4 DEF UnderWayInv, Elems, IsAnswer
  <2> QED
    BY <2>1, <2>3, <2>4
<1>5. CASE ApplicationCallback \/ UnaskedIQ
  <2>1. Pushed("iq")
    BY <1>5 DEF ApplicationCallback, UnaskedIQ, Answer
  <2>2. frame.kind = "none" /\ down # <<>> /\ down' = Tail(down)
    BY <2>1, PushedIsWanted
  <2>3. /\ UNCHANGED <<connState, callbacks, stream, up, linked, fault, streamNo,
                       event>>
        /\ frame'.id = Head(down).id \/ frame'.kind = "none"
    BY <1>5, <2>2
       DEF ApplicationCallback, UnaskedIQ, Answer, Calls, loginVars, xmlVars
  <2>4. ASSUME NEW c \in Logins PROVE c.id # Head(down).id
    <3>1. CASE ApplicationCallback
      <4>1. Answer("application")
        BY <3>1 DEF ApplicationCallback
      <4>2. c \in callbacks /\ c.handler # "application"
        BY DEF Logins, Internal
      <4> QED
        BY <4>1, <4>2, AnsweredKind
    <3>2. CASE UnaskedIQ
      BY <3>2 DEF UnaskedIQ, Logins
    <3> QED
      BY <1>5, <3>1, <3>2
  <2>5. Logins' = Logins
    BY <2>3 DEF Logins
  <2>6. Running /\ Live /\ event = "none" => UnderWay'
    BY <1>0, <2>2, <2>3, <2>4, LoginIsLeft DEF UnderWayInv
  <2> QED
    BY <1>2, <2>2, <2>3, <2>4, <2>5, <2>6
       DEF UnderWayInv, Running, Live, Elems, IsAnswer
<1> QED
  BY <1>1, <1>3, <1>4, <1>5

\* What is sent besides leaves every login that is kept as it is.
LEMMA LoginIsKept ==
    ASSUME UnderWay, Elems(up) \subseteq Elems(up'), down' = down,
           connState' = connState, Logins \subseteq Logins'
    PROVE  UnderWay'
<1>1. PICK c \in Logins :
         /\ Asked(c.id)
         /\ c.handler = "OnAuthTypeReceived" =>
               connState \in {"csCreateUser", "csAuthReq"}
  BY DEF UnderWay
<1>2. Asked(c.id)'
  BY <1>1 DEF Asked, Elems, IsRequest, IsAnswer
<1> QED
  BY <1>1, <1>2 DEF UnderWay

LEMMA ReturnUnderWay ==
    ASSUME StreamInv, LoginInv, UnderWayInv, Return
    PROVE  UnderWayInv'
<1>1. /\ frame'.kind = "none"
      /\ UNCHANGED <<stream, linked, down, fault, streamNo, event>>
  BY DEF Return, ReturnDocumentEnd, ReturnParserError, ReturnAuth, ReturnErase,
         Returns, Idle, xmlVars
<1>2. CASE ReturnDocumentEnd
  <2>1. connState' = "csNotConnected" /\ UNCHANGED connState
    BY <1>2 DEF ReturnDocumentEnd, Returns, StreamInv
  <2> QED
    BY <1>1, <2>1 DEF UnderWayInv, Running, Live, Elems, IsAnswer
<1>3. CASE ReturnParserError
  <2>1. connState' = "csNotConnected" /\ stream = "failed"
    BY <1>3 DEF ReturnParserError, Returns, StreamInv, FrameMeansFailed
  <2>2. event # "evtAuthError"
    BY <2>1 DEF LoginInv
  <2> QED
    BY <1>1, <2>1, <2>2 DEF UnderWayInv, Live, Elems, IsAnswer
<1>4. CASE ReturnAuth
  <2>1. frame.kind = "Auth" /\ UNCHANGED connState
    BY <1>4 DEF ReturnAuth, Returns
  <2>2. event = "evtConnected"
    BY <2>1 DEF LoginInv
  <2> QED
    BY <1>1, <2>1, <2>2 DEF UnderWayInv, Elems, IsAnswer
<1>5. CASE ReturnErase
  <2>1. /\ frame.kind = "erase"
        /\ callbacks' = Erase(callbacks, frame.id)
        /\ UNCHANGED <<connState, up>>
    BY <1>5 DEF ReturnErase, Returns
  <2>2. ASSUME event = "none" PROVE Logins \subseteq Logins'
    <3>1. \A c \in Logins : c.id # frame.id
      BY <2>1, <2>2 DEF UnderWayInv
    <3> QED
      BY <1>1, <2>1, <3>1 DEF Logins, Erase
  <2>3. Running /\ Live /\ event = "none" => UnderWay'
    BY <1>1, <2>1, <2>2, LoginIsKept DEF UnderWayInv
  <2> QED
    BY <1>1, <2>1, <2>3 DEF UnderWayInv, Running, Live, Elems, IsAnswer
<1> QED
  BY <1>2, <1>3, <1>4, <1>5 DEF Return

LEMMA ApplicationUnderWay ==
    ASSUME Habits \cap {"again", "linger", "reentrant"} = {},
           IInv, StreamInv, OpenInv, LoginInv, UnderWayInv, Application
    PROVE  UnderWayInv'
<1>0. QueuesOK
  BY IInvParts
<1>1. Top
  BY DEF Application, Connect, Disconnect, QueryNamespace, AppRuns, Top
<1>2. frame.kind = "none" /\ Running
  BY <1>1 DEF Top
<1>3. CASE Connect
  <2>1. PICK atype \in AuthTypes, newuser \in BOOLEAN, auth \in BOOLEAN :
           OpenStream(newuser) \/ AuthenticateAgain(atype, newuser, auth)
    BY <1>3 DEF Connect
  <2>2. UNCHANGED <<frame, header>>
    BY <1>3 DEF Connect
  <2>3. CASE OpenStream(newuser)
    <3>1. /\ stream' = "fresh" /\ event' = "none" /\ linked' = TRUE /\ down' = <<>>
      BY <2>3 DEF OpenStream
    <3>2. Elems(<<>>) = {}
      BY ElemsFew
    <3>3. Elems(down') = {}
      BY <3>1, <3>2
    <3> QED
      BY <1>2, <2>2, <3>1, <3>3 DEF UnderWayInv, Live, Elems
  <2>4. CASE AuthenticateAgain(atype, newuser, auth)
    <3>1. /\ event = "evtAuthError"
          /\ UNCHANGED <<linked, down, streamNo>>
      BY <1>2, <2>4, AgainIsAfterError
    <3>2. connState = "csAuthReq" /\ linked
      BY <1>2, <3>1 DEF UnderWayInv
    <3> DEFINE state == IF newuser THEN "csCreateUser" ELSE connState
    <3>3. state \in {"csCreateUser", "csAuthReq"}
      BY <3>2
    <3>4. \/ Authenticate(state, atype, callbacks) /\ event' = "none"
          \/ event' = "evtConnected"
      BY <2>4 DEF AuthenticateAgain, EmitConnected
    <3> HIDE DEF state
    <3>5. event' = "none" => Begun(callbacks, state) \/ ReadNull
      BY <1>0, <3>4, AuthenticateBegins
    <3>6. event' = "none" /\ Running' => UnderWay'
      BY <3>1, <3>2, <3>3, <3>5, BegunIsUnderWay DEF ReadNull, Running
    <3> QED
      BY <1>2, <2>2, <3>1, <3>2, <3>4, <3>6 DEF UnderWayInv, Elems, IsAnswer
  <2> QED
    BY <2>1, <2>3, <2>4
<1>4. CASE Disconnect
  <2>1. /\ connState' = "csNotConnected" /\ event' = "none" /\ down' = <<>>
        /\ UNCHANGED frame
    BY <1>4 DEF Disconnect
  <2>2. Elems(<<>>) = {}
    BY ElemsFew
  <2>3. Elems(down') = {}
    BY <2>1, <2>2
  <2> QED
    BY <1>2, <2>1, <2>3 DEF UnderWayInv, Live, Elems
<1>5. CASE QueryNamespace
  <2>1. /\ callbacks' = callbacks \union Registered("query", nextID)
        /\ Transmit(<<Request("query", nextID)>>)
        /\ UNCHANGED <<connState, stream, frame, linked, down, fault, streamNo, event>>
    BY <1>5 DEF QueryNamespace, xmlVars
  <2>2. Logins \subseteq Logins'
    BY <2>1 DEF Logins
  <2>3. "query" \in Requests /\ nextID \in Nat
    BY <1>0 DEF Requests, HandlerOf, QueuesOK
  <2>4. Elems(up) \subseteq Elems(up')
    BY <1>0, <2>1, <2>3, RequestSent
  <2>5. Running /\ Live /\ event = "none" => UnderWay'
    BY <2>1, <2>2, <2>4, LoginIsKept DEF UnderWayInv
  <2> QED
    BY <1>2, <2>1, <2>5 DEF UnderWayInv, Running, Live, Elems, IsAnswer
<1> QED
  BY <1>3, <1>4, <1>5 DEF Application

LEMMA ServerUnderWay ==
    ASSUME "emptyError" \notin Faults, IInv, UnderWayInv,
           ServerReads \/ ServerHangsUp \/ ServerSendsGarbage
    PROVE  UnderWayInv'
<1>0. QueuesOK
  BY IInvParts
<1>1. /\ Said
      /\ UNCHANGED <<connState, callbacks, stream, frame, linked, fault,
                     streamNo, event>>
  BY <1>0, ServerSays
<1>2. PICK m \in DownMessages :
         /\ Say(m)
         /\ IsAnswer(m) => m.type # "emptyError"
         /\ Replied(m) \/ up' = up
  BY <1>1 DEF Said
<1>3. Elems(down') = Elems(down) \union {m}
  BY <1>0, <1>2, ElemsAppend DEF QueuesOK, Say
<1>4. Logins' = Logins
  BY <1>1 DEF Logins
<1>5. ASSUME NEW id, Asked(id) PROVE Asked(id)'
  <2>1. ASSUME NEW r \in Elems(up), IsRequest(r), r.id = id
        PROVE  \/ \E k \in Elems(up') : IsRequest(k) /\ k.id = id
               \/ \E k \in Elems(down') : IsAnswer(k) /\ k.id = id
    <3>1. CASE up' = up
      BY <2>1, <3>1
    <3>2. CASE Replied(m)
      <4>1. Elems(up) = {Head(up)} \union Elems(Tail(up))
        BY <1>0, <3>2, ElemsTailAll DEF Replied, QueuesOK
      <4>2. r = Head(up) \/ r \in Elems(up')
        BY <3>2, <4>1 DEF Replied
      <4>3. CASE r = Head(up)
        BY <1>3, <2>1, <3>2, <4>3 DEF Replied
      <4> QED
        BY <2>1, <4>2, <4>3
    <3> QED
      BY <1>2, <3>1, <3>2
  <2>2. \/ \E k \in Elems(up') : IsRequest(k) /\ k.id = id
        \/ \E k \in Elems(down') : IsAnswer(k) /\ k.id = id
    BY <1>3, <1>5, <2>1 DEF Asked
  <2> QED
    BY <2>2 DEF Asked, Elems, IsRequest, IsAnswer
<1>6. UnderWay => UnderWay'
  BY <1>1, <1>4, <1>5 DEF UnderWay
<1>7. \A k \in Elems(down') : IsAnswer(k) => k.type # "emptyError"
  BY <1>2, <1>3 DEF UnderWayInv
<1> QED
  BY <1>1, <1>4, <1>6, <1>7 DEF UnderWayInv, Running, Live, Elems, IsAnswer

LEMMA UnderWayStep ==
    ASSUME Habits \cap {"again", "linger", "reentrant"} = {},
           "emptyError" \notin Faults,
           IInv, StreamInv, OpenInv, LoginInv, UnderWayInv, [Next]_vars
    PROVE  UnderWayInv'
<1>1. CASE Application
  BY <1>1, ApplicationUnderWay
<1>2. CASE Push
  BY <1>2, AnswersUnderWay, OtherPushesUnderWay DEF Push
<1>3. CASE Return
  BY <1>3, ReturnUnderWay
<1>4. CASE ServerReads \/ ServerHangsUp \/ ServerSendsGarbage
  BY <1>4, ServerUnderWay
<1>5. CASE UNCHANGED vars
  <2>1. UNCHANGED <<connState, callbacks, stream, frame, linked, up, down,
                    fault, streamNo, event>>
    BY <1>5 DEF vars
  <2>2. Logins \subseteq Logins' /\ Logins' = Logins
    BY <2>1 DEF Logins
  <2>3. UnderWay => UnderWay'
    BY <2>1, <2>2, LoginIsKept
  <2> QED
    BY <2>1, <2>2, <2>3 DEF UnderWayInv, Running, Live, Elems, IsAnswer
<1> QED
  BY <1>1, <1>2, <1>3, <1>4, <1>5 DEF Next

LEMMA InitUnderWay == Init => UnderWayInv
<1> SUFFICES ASSUME Init PROVE UnderWayInv
  OBVIOUS
<1>1. Elems(<<>>) = {}
  BY ElemsFew
<1>2. Elems(down) = {}
  BY <1>1 DEF Init
<1> QED
  BY <1>2 DEF Init, Idle, UnderWayInv, Live

\* When besides the server gives a reason with every error: a connection
\* attempt that no signal has answered waits for an answer that is on its way,
\* or for one to a request that is.
THEOREM LoginIsUnderWayAlways ==
    ASSUME Habits \cap {"again", "linger", "reentrant"} = {},
           "emptyError" \notin Faults
    PROVE  Spec => []LoginIsUnderWay
<1> DEFINE Inv == IInv /\ StreamInv /\ OpenInv /\ LoginInv /\ UnderWayInv
<1>1. Init => Inv
  BY InitSafe, InitStreams, InitOnce, InitUnderWay
<1>2. Inv /\ [Next]_vars => Inv'
  BY NextSafe, StreamStep, LoginStep, UnderWayStep
<1>3. Inv => LoginIsUnderWay
  <2> SUFFICES ASSUME Inv, Top, stream = "open", connState # "csNotConnected",
                      event = "none"
               PROVE  \E c \in callbacks : c.handler \in Internal /\ InFlight(c.id)
    BY DEF LoginIsUnderWay
  <2>1. PICK c \in Logins : Asked(c.id)
    BY DEF UnderWayInv, UnderWay, Top, Live
  <2>2. c \in callbacks /\ c.handler \in Internal
    BY DEF Logins
  <2>3. InFlight(c.id)
    BY <2>1 DEF Asked, InFlight, Elems, IsRequest, IsAnswer
  <2> QED
    BY <2>2, <2>3
<1> QED
  BY <1>1, <1>2, <1>3, PTL DEF Spec
=============================================================================
