------------------------------- MODULE Session -------------------------------
(***************************************************************************)
(* jabberoo::Session: the connection state machine, jabber:iq:auth and      *)
(* jabber:iq:register, the callbacks registered under iq ids, the lifetime  *)
(* of the stream header, and the signals through which the application is   *)
(* called and may call back.  The environment is an application, a          *)
(* transport that keeps order, and a server.                                *)
(*                                                                          *)
(* The Session is its own ElementStreamEventListener.  It sees the stream   *)
(* as StanzaStream has it: `stream' is that module's phase, and one message *)
(* of `down' is one push() of one complete notification.                    *)
(***************************************************************************)
EXTENDS Naturals, Sequences, FiniteSets

CONSTANTS
    AuthTypes,  \* the Session::AuthType values the application passes
    Habits,     \* what the application does: see AllHabits
    Faults,     \* what the server does wrong: see AllFaults
    MaxID,      \* bound: connect() is not called once _ID reached it
    MaxStreams  \* bound: streams opened

(***************************************************************************)
(* "again":     connect() while a connection attempt is being made          *)
(* "newuser":   connect() with newuser set                                  *)
(* "noauth":    connect() with should_auth unset                            *)
(* "linger":    after disconnect() it goes on pushing what still arrives    *)
(* "reentrant": connect() and disconnect() from handlers of the signals     *)
(* "query":     queryNamespace()                                            *)
(***************************************************************************)
AllHabits == {"again", "newuser", "noauth", "linger", "reentrant", "query"}

(***************************************************************************)
(* "refuse":     an iq of type error with an <error> element                *)
(* "emptyError": an iq of type error without one                            *)
(* "hangup":     </stream:stream> when nobody asked for it                  *)
(* "garbage":    bytes that are not XML                                     *)
(***************************************************************************)
AllFaults == {"refuse", "emptyError", "hangup", "garbage"}

\* atDigestAuth differs from plaintext in what it sends, not in what it does.
AllAuthTypes == {"atAutoAuth", "atPlaintextAuth", "at0kAuth"}

ASSUME SessionAssumption ==
    /\ AuthTypes \subseteq AllAuthTypes
    /\ Habits \subseteq AllHabits
    /\ Faults \subseteq AllFaults
    /\ MaxID \in Nat
    /\ MaxStreams \in Nat

VARIABLES
    connState,      \* _ConnState
    authType,       \* _AuthType
    authenticate,   \* _Authenticate
    streamStart,    \* _StreamStart
    nextID,         \* _ID
    callbacks,      \* _Callbacks: records of id, handler and, history, stream
    header,         \* what _StreamElement points to: see Headers
    stream,         \* the ElementStream: phase of StanzaStream
    docEnded,       \* _document_ended of the ElementStream
    frame,          \* the handler of the application now running: see Frames
    linked,         \* the application has a transport to the server
    up,             \* sent by the Session, not yet read by the server
    down,           \* sent by the server, not yet pushed to the Session
    server,         \* the server's end: "silent", "open" or "closed"
    fault,          \* undefined behaviour or a failed assertion, or "none"
    streamNo,       \* history: streams opened so far
    accepted,       \* history: the server accepted a login on this stream
    event           \* history: the last of the signals of Events emitted since
                    \* connect() or disconnect() was called, or "none"

authVars   == <<authType, authenticate>>
loginVars  == <<connState, nextID, callbacks, up, fault>>
xmlVars    == <<stream, docEnded>>
vars       == <<connState, authType, authenticate, streamStart, nextID,
               callbacks, header, stream, docEnded, frame, linked, up, down,
               server, fault, streamNo, accepted, event>>

ConnStates == {"csNotConnected", "csCreateUser", "csAuthReq",
               "csAwaitingAuth", "csConnected"}
Handlers   == {"OnAuthTypeReceived", "IQHandler_Auth", "IQHandler_CreateUser",
               "application"}

\* Requests by the handler that waits for the answer; "blank" is the login of
\* sendLogin() in a state that gives it no namespace, "roster" the fetch().
HandlerOf == [authGet  |-> "OnAuthTypeReceived", authSet |-> "IQHandler_Auth",
              register |-> "IQHandler_CreateUser", query |-> "application"]
Requests  == DOMAIN HandlerOf \union {"blank", "roster"}

\* "none": the pointer was never assigned.
Headers == {"none", "live", "freed"}

Events  == {"evtConnected", "evtDisconnected", "evtAuthError",
            "evtXMLParserError"}

\* The code to run after the handlers of a signal (or a callback) return.
Frames  == {"none", "Auth", "erase", "documentEnd", "parserError"}

\* Messages up: the stream tags and requests.  Down: the stream tags, bytes
\* that are not XML, and answers; `re' is the request answered.
UpMessages   == [kind : {"open", "close"}]
                \union [kind : Requests, id : Nat]
DownMessages == [kind : {"open", "close", "garbage"}]
                \union [kind : {"iq"}, id : Nat, re : Requests,
                        type : {"result", "refuse", "emptyError"}]

TypeOK ==
    /\ connState \in ConnStates
    /\ authType \in AllAuthTypes
    /\ authenticate \in BOOLEAN
    /\ streamStart \in BOOLEAN
    /\ nextID \in Nat
    /\ callbacks \in SUBSET [id : Nat, handler : Handlers, stream : Nat]
    /\ \A c \in callbacks : c.id < nextID /\ c.stream <= streamNo
    /\ header \in Headers
    /\ stream \in {"fresh", "open", "ended", "failed"}
    /\ docEnded \in BOOLEAN
    /\ frame \in [kind : Frames, id : Nat]
    /\ linked \in BOOLEAN
    /\ up \in Seq(UpMessages)
    /\ down \in Seq(DownMessages)
    /\ server \in {"silent", "open", "closed"}
    /\ fault \in {"none", "nullQuery", "badHeader", "assertion"}
    /\ streamNo \in Nat
    /\ accepted \in BOOLEAN
    /\ event \in Events \union {"none"}

-----------------------------------------------------------------------------
Idle    == [kind |-> "none", id |-> 0]
Running == fault = "none"
Top     == Running /\ frame.kind = "none"

\* A public operation is called from outside, or from a handler of a signal.
AppRuns == Running /\ (frame.kind = "none" \/ "reentrant" \in Habits)

Init ==
    /\ connState = "csNotConnected"
    /\ authType = "atAutoAuth"
    /\ authenticate = FALSE
    /\ streamStart = FALSE
    /\ nextID = 0
    /\ callbacks = {}
    /\ header = "none"
    /\ stream = "fresh"
    /\ docEnded = FALSE
    /\ frame = Idle
    /\ linked = FALSE
    /\ up = <<>>
    /\ down = <<>>
    /\ server = "silent"
    /\ fault = "none"
    /\ streamNo = 0
    /\ accepted = FALSE
    /\ event = "none"

-----------------------------------------------------------------------------
(* What the operations are made of. *)

\* evtTransmitXML: to the transport, if the application has one.
Transmit(messages) == up' = IF linked THEN up \o messages ELSE up

Request(kind, id) == [kind |-> kind, id |-> id]

Registered(kind, id) ==
    {[id |-> id, handler |-> HandlerOf[kind], stream |-> streamNo]}

\* The loop of handleIQ() erases the callbacks it has called.
Erase(cbs, id) == {c \in cbs : c.id # id}

\* A signal that hands out *_StreamElement reads it.
EmitConnected ==
    /\ event' = "evtConnected"
    /\ fault' = IF header = "live" THEN "none" ELSE "badHeader"

\* Mutant: the registration of a new user falls to the default case.
LoginKind_NoRegister(state) ==
    IF state = "csAuthReq" THEN "authSet" ELSE "blank"

LoginKind(state) ==
    CASE state = "csCreateUser" -> "register"
      [] state = "csAuthReq"    -> "authSet"
      [] OTHER                  -> "blank"

\* sendLogin(), called in `state' after the requests in `sent', the callbacks
\* then being cbs.  Without a <query> of the server the zero-knowledge login
\* reads through a null pointer.
SendLogin(state, atype, query, id, cbs, sent) ==
    LET kind == LoginKind(state) IN
    IF kind = "authSet" /\ atype = "at0kAuth" /\ ~query
    THEN /\ fault' = "nullQuery"
         /\ UNCHANGED <<connState, nextID, callbacks, up>>
    ELSE /\ connState' = "csAwaitingAuth"
         /\ nextID' = id + 1
         /\ callbacks' = cbs \union
                (IF kind = "blank" THEN {} ELSE Registered(kind, id))
         /\ Transmit(Append(sent, Request(kind, id)))
         /\ UNCHANGED fault

\* authenticate(), called in `state', the callbacks then being cbs.
Authenticate(state, atype, cbs) ==
    IF atype = "atAutoAuth"
    THEN /\ connState' = state
         /\ nextID' = nextID + 1
         /\ callbacks' = cbs \union Registered("authGet", nextID)
         /\ Transmit(<<Request("authGet", nextID)>>)
         /\ UNCHANGED fault
    ELSE SendLogin(state, atype, FALSE, nextID + 1, cbs,
                   <<Request("authGet", nextID)>>)

-----------------------------------------------------------------------------
(* The operations the application calls. *)

\* Mutant: the ids start over with the stream.
OpenStream_ResetsIDs(newuser) ==
    /\ connState = "csNotConnected"
    /\ streamNo < MaxStreams
    /\ connState' = IF newuser THEN "csCreateUser" ELSE "csAuthReq"
    /\ stream' = "fresh"
    /\ docEnded' = FALSE
    /\ linked' = TRUE
    /\ up' = <<[kind |-> "open"]>>
    /\ down' = <<>>
    /\ server' = "silent"
    /\ streamNo' = streamNo + 1
    /\ accepted' = FALSE
    /\ event' = "none"
    /\ nextID' = 0
    /\ UNCHANGED <<callbacks, fault>>

\* connect() when not connected: reset() and the stream header, which the
\* application sends over a new transport.
OpenStream(newuser) ==
    /\ connState = "csNotConnected"
    /\ streamNo < MaxStreams
    /\ connState' = IF newuser THEN "csCreateUser" ELSE "csAuthReq"
    /\ stream' = "fresh"
    /\ docEnded' = FALSE
    /\ linked' = TRUE
    /\ up' = <<[kind |-> "open"]>>
    /\ down' = <<>>
    /\ server' = "silent"
    /\ streamNo' = streamNo + 1
    /\ accepted' = FALSE
    /\ event' = "none"
    /\ UNCHANGED <<nextID, callbacks, fault>>

\* connect() when neither connected nor not connected.
AuthenticateAgain(atype, newuser, auth) ==
    /\ connState \in {"csCreateUser", "csAuthReq", "csAwaitingAuth"}
    /\ "again" \in Habits \/ event = "evtAuthError"
    /\ LET state == IF newuser THEN "csCreateUser" ELSE connState IN
       IF auth
       THEN /\ Authenticate(state, atype, callbacks)
            /\ event' = "none"
       ELSE /\ connState' = state
            /\ EmitConnected
            /\ UNCHANGED <<nextID, callbacks, up>>
    /\ UNCHANGED <<xmlVars, linked, down, server, streamNo, accepted>>

\* connect().  When connected it does nothing.
Connect ==
    /\ AppRuns
    /\ nextID < MaxID
    /\ \E atype \in AuthTypes, newuser, auth \in BOOLEAN :
          /\ newuser => "newuser" \in Habits
          /\ ~auth => "noauth" \in Habits
          /\ authType' = atype
          /\ authenticate' = auth
          /\ \/ OpenStream(newuser)
             \/ AuthenticateAgain(atype, newuser, auth)
    /\ UNCHANGED <<streamStart, header, frame>>

\* disconnect(), after which the application gives the transport up or not.
Disconnect ==
    /\ AppRuns
    /\ connState' = "csNotConnected"
    /\ streamStart' = FALSE
    /\ event' = "none"
    /\ \/ /\ "linger" \in Habits
          /\ IF connState # "csNotConnected" /\ streamStart
             THEN Transmit(<<[kind |-> "close"]>>)
             ELSE UNCHANGED up
          /\ UNCHANGED <<linked, down, server>>
       \/ /\ linked' = FALSE
          /\ up' = <<>>
          /\ down' = <<>>
          /\ server' = "closed"
    /\ UNCHANGED <<authVars, nextID, callbacks, header, xmlVars, frame, fault,
                   streamNo, accepted>>

\* queryNamespace(), with a callback of the application.
QueryNamespace ==
    /\ AppRuns
    /\ "query" \in Habits
    /\ connState = "csConnected"
    /\ nextID < MaxID
    /\ nextID' = nextID + 1
    /\ callbacks' = callbacks \union Registered("query", nextID)
    /\ Transmit(<<Request("query", nextID)>>)
    /\ UNCHANGED <<connState, authVars, streamStart, header, xmlVars, frame,
                   linked, down, server, fault, streamNo, accepted, event>>

-----------------------------------------------------------------------------
(* push(): what has arrived is given to the ElementStream, which calls the  *)
(* Session, which emits signals.  An action ends where the handlers of a    *)
(* signal run with code of the Session left to run after them; `frame' then *)
(* says which, and a Return action runs it.  Handlers of a signal that is   *)
(* the last thing a function does run in the steps that follow it.          *)

Arrived == Top /\ down # <<>>
Pushed(kind) ==
    /\ Arrived
    /\ ~docEnded
    /\ stream # "failed"
    /\ Head(down).kind = kind
    /\ down' = Tail(down)

\* ElementStream::push() on a document that has ended: the assertion.
PushAborts ==
    /\ Arrived
    /\ docEnded
    /\ fault' = "assertion"
    /\ UNCHANGED <<connState, authVars, streamStart, nextID, callbacks, header,
                   xmlVars, frame, linked, up, down, server, streamNo, accepted, event>>

\* Mutant of PushThrows: the parser is ready for more after an error.
PushThrows_Recovers ==
    /\ Arrived
    /\ ~docEnded
    /\ Head(down).kind = "garbage"
    /\ down' = Tail(down)
    /\ event' = "evtXMLParserError"
    /\ frame' = [kind |-> "parserError", id |-> 0]
    /\ UNCHANGED <<connState, authVars, streamStart, nextID, callbacks, header,
                   xmlVars, linked, up, server, fault, streamNo, accepted>>

\* ParserError: expat rejects the data, and all that follows.  push() catches
\* the exception and emits evtXMLParserError before it does anything else.
PushThrows ==
    /\ Arrived
    /\ ~docEnded
    /\ stream = "failed" \/ Head(down).kind = "garbage"
    /\ down' = Tail(down)
    /\ stream' = "failed"
    /\ event' = "evtXMLParserError"
    /\ frame' = [kind |-> "parserError", id |-> 0]
    /\ UNCHANGED <<connState, authVars, streamStart, nextID, callbacks, header,
                   docEnded, linked, up, server, fault, streamNo, accepted>>

\* onDocumentStart().
DocumentStart ==
    /\ Pushed("open")
    /\ stream' = "open"
    /\ header' = "live"
    /\ streamStart' = TRUE
    /\ IF authenticate
       THEN /\ Authenticate(connState, authType, callbacks)
            /\ UNCHANGED event
       ELSE /\ event' = "evtConnected"
            /\ UNCHANGED loginVars
    /\ UNCHANGED <<authVars, docEnded, frame, linked, server, streamNo, accepted>>

\* onDocumentEnd(), up to the handlers of evtDisconnected.  The Roster and the
\* PresenceDB are emptied first.
DocumentEnd ==
    /\ Pushed("close")
    /\ stream' = "ended"
    /\ connState' = "csNotConnected"
    /\ streamStart' = FALSE
    /\ Transmit(<<[kind |-> "close"]>>)
    /\ event' = "evtDisconnected"
    /\ frame' = [kind |-> "documentEnd", id |-> 0]
    /\ UNCHANGED <<authVars, nextID, callbacks, header, docEnded, linked,
                   server, fault, streamNo, accepted>>

\* onElement() of an iq that some callback waits for: handleIQ().
Answer(handler) ==
    /\ Pushed("iq")
    /\ \E c \in callbacks : c.id = Head(down).id /\ c.handler = handler
    /\ UNCHANGED <<authVars, streamStart, header, xmlVars, linked, server,
                   streamNo, accepted>>

Calls(kind) == frame' = [kind |-> kind, id |-> Head(down).id]

\* OnAuthTypeReceived(): the best of the offered types, plaintext if none.
\* The zero-knowledge type is taken only from a <query>.
OnAuthTypeReceived ==
    /\ Answer("OnAuthTypeReceived")
    /\ SendLogin(connState, "atPlaintextAuth", TRUE, nextID,
                 Erase(callbacks, Head(down).id), <<>>)
    /\ UNCHANGED <<frame, event>>

\* A mutant of IQHandler_Auth: any answer will do.
IQHandler_Auth_IgnoresType ==
    /\ Answer("IQHandler_Auth")
    /\ connState' = "csConnected"
    /\ EmitConnected
    /\ Calls("Auth")
    /\ UNCHANGED <<nextID, callbacks, up>>

\* IQHandler_Auth(), up to the handlers of evtConnected or evtAuthError.
IQHandler_Auth ==
    /\ Answer("IQHandler_Auth")
    /\ CASE Head(down).type = "result" ->
              /\ connState' = "csConnected"
              /\ EmitConnected
              /\ Calls("Auth")
         [] Head(down).type = "refuse" ->
              /\ connState' = "csAuthReq"
              /\ event' = "evtAuthError"
              /\ Calls("erase")
              /\ UNCHANGED fault
         [] OTHER ->
              /\ event' = "evtAuthError"
              /\ Calls("erase")
              /\ UNCHANGED <<connState, fault>>
    /\ UNCHANGED <<nextID, callbacks, up>>

\* Mutant of IQHandler_CreateUser: the new user is not logged in.
IQHandler_CreateUser_NoLogin ==
    /\ Answer("IQHandler_CreateUser")
    /\ connState' = "csAuthReq"
    /\ callbacks' = Erase(callbacks, Head(down).id)
    /\ UNCHANGED <<nextID, up, fault, frame, event>>

\* IQHandler_CreateUser(): the new user is there, log in; or evtAuthError.
IQHandler_CreateUser ==
    /\ Answer("IQHandler_CreateUser")
    /\ CASE Head(down).type = "result" ->
              /\ Authenticate("csAuthReq", authType,
                              Erase(callbacks, Head(down).id))
              /\ UNCHANGED <<frame, event>>
         [] Head(down).type = "refuse" ->
              /\ connState' = "csAuthReq"
              /\ event' = "evtAuthError"
              /\ Calls("erase")
              /\ UNCHANGED <<nextID, callbacks, up, fault>>
         [] OTHER ->
              /\ connState' = "csAuthReq"
              /\ callbacks' = Erase(callbacks, Head(down).id)
              /\ UNCHANGED <<nextID, up, fault, frame, event>>

\* A callback of the application.
ApplicationCallback ==
    /\ Answer("application")
    /\ Calls("erase")
    /\ UNCHANGED <<loginVars, event>>

\* An iq nobody waits for: the roster, or the answer to a blank login.
UnaskedIQ ==
    /\ Pushed("iq")
    /\ \A c \in callbacks : c.id # Head(down).id
    /\ UNCHANGED <<connState, authVars, streamStart, nextID, callbacks, header,
                   xmlVars, frame, linked, up, server, fault, streamNo, accepted, event>>

-----------------------------------------------------------------------------
(* What runs after the handlers of a signal have returned. *)

Returns(kind) ==
    /\ Running
    /\ frame.kind = kind
    /\ frame' = Idle
    /\ UNCHANGED <<authVars, linked, down, server, fault, streamNo, accepted, event>>

\* ElementStream::onEndElement(), after onDocumentEnd().
ReturnDocumentEnd ==
    /\ Returns("documentEnd")
    /\ docEnded' = TRUE
    /\ UNCHANGED <<connState, streamStart, nextID, callbacks, header, stream,
                   up>>

\* Mutant of ReturnParserError: _StreamStart survives.
ReturnParserError_KeepsStart ==
    /\ Returns("parserError")
    /\ connState' = "csNotConnected"
    /\ UNCHANGED <<streamStart, nextID, callbacks, header, xmlVars, up>>

\* push(), after evtXMLParserError; its call of disconnect() then sends nothing.
ReturnParserError ==
    /\ Returns("parserError")
    /\ connState' = "csNotConnected"
    /\ streamStart' = FALSE
    /\ UNCHANGED <<nextID, callbacks, header, xmlVars, up>>

\* IQHandler_Auth(), after evtConnected, then the loop of handleIQ().
ReturnAuth ==
    /\ Returns("Auth")
    /\ IF authenticate
       THEN /\ nextID' = nextID + 1
            /\ Transmit(<<Request("roster", nextID)>>)
       ELSE UNCHANGED <<nextID, up>>
    /\ header' = "freed"
    /\ callbacks' = Erase(callbacks, frame.id)
    /\ UNCHANGED <<connState, streamStart, xmlVars>>

\* The loop of handleIQ(), after a callback that emitted a signal last.
ReturnErase ==
    /\ Returns("erase")
    /\ callbacks' = Erase(callbacks, frame.id)
    /\ UNCHANGED <<connState, streamStart, nextID, header, xmlVars, up>>

-----------------------------------------------------------------------------
(* The server. *)

ServerOnly == UNCHANGED <<connState, authVars, streamStart, nextID, callbacks,
                          header, xmlVars, frame, linked, fault, streamNo,
                          event>>

Say(message) == down' = Append(down, message)

Answers(kind) == IF kind = "blank" THEN {"refuse"}
                 ELSE {"result"} \union (Faults \intersect {"refuse", "emptyError"})

\* It answers what it reads, in order.
ServerReads ==
    /\ linked
    /\ server # "closed"
    /\ up # <<>>
    /\ up' = Tail(up)
    /\ LET m == Head(up) IN
       CASE m.kind = "open" ->
              /\ server' = "open"
              /\ Say([kind |-> "open"])
              /\ UNCHANGED accepted
         [] m.kind = "close" ->
              /\ server' = "closed"
              /\ Say([kind |-> "close"])
              /\ UNCHANGED accepted
         [] OTHER ->
              \E type \in Answers(m.kind) :
                /\ Say([kind |-> "iq", id |-> m.id, re |-> m.kind, type |-> type])
                /\ accepted' = (accepted \/ (m.kind = "authSet" /\ type = "result"))
                /\ UNCHANGED server
    /\ ServerOnly

ServerHangsUp ==
    /\ "hangup" \in Faults
    /\ server = "open"
    /\ server' = "closed"
    /\ Say([kind |-> "close"])
    /\ UNCHANGED <<up, accepted>>
    /\ ServerOnly

\* Bound: one piece of garbage at a time, none after a parse error.
ServerSendsGarbage ==
    /\ "garbage" \in Faults
    /\ server = "open"
    /\ stream # "failed"
    /\ \A i \in 1..Len(down) : down[i].kind # "garbage"
    /\ Say([kind |-> "garbage"])
    /\ UNCHANGED <<up, server, accepted>>
    /\ ServerOnly

-----------------------------------------------------------------------------
Application == Connect \/ Disconnect \/ QueryNamespace

Push ==
    \/ PushAborts
    \/ PushThrows
    \/ DocumentStart
    \/ DocumentEnd
    \/ OnAuthTypeReceived
    \/ IQHandler_Auth
    \/ IQHandler_CreateUser
    \/ ApplicationCallback
    \/ UnaskedIQ

Return == ReturnDocumentEnd \/ ReturnParserError \/ ReturnAuth \/ ReturnErase

Next ==
    \/ Application
    \/ Push
    \/ Return
    \/ ServerReads
    \/ ServerHangsUp
    \/ ServerSendsGarbage

Spec == Init /\ [][Next]_vars

\* The application pushes what arrives and its handlers return; the server
\* reads what it is sent.  Nobody is made to call connect() or to fail.
FairSpec ==
    /\ Spec
    /\ WF_vars(Push)
    /\ WF_vars(Return)
    /\ WF_vars(ServerReads)

-----------------------------------------------------------------------------
Internal == {"OnAuthTypeReceived", "IQHandler_Auth", "IQHandler_CreateUser"}

\* A request is on its way to the server, or its answer on the way back.
InFlight(id) ==
    \/ \E i \in 1..Len(up) : up[i].kind \in Requests /\ up[i].id = id
    \/ \E i \in 1..Len(down) : down[i].kind = "iq" /\ down[i].id = id

\* Callbacks are kept for good, over any number of streams, and found again by
\* the id alone: an answer fires only a callback that was registered on its own
\* stream, for the request it answers.  Nothing but getNextID() sees to this.
AnswersFindTheirRequest ==
    \A i \in 1..Len(down), c \in callbacks :
        down[i].kind = "iq" /\ down[i].id = c.id =>
            /\ c.stream = streamNo
            /\ down[i].re \in DOMAIN HandlerOf
            /\ HandlerOf[down[i].re] = c.handler

\* csConnected is reached only when the server accepted a login on the stream,
\* whatever was retried, refused, cut off or left over from before.
ConnectedIsAccepted == connState = "csConnected" => accepted

\* As long as a connection attempt has not been answered by a signal, a request
\* is in flight whose answer one of the login callbacks waits for.
LoginIsUnderWay ==
    Top /\ stream = "open" /\ connState # "csNotConnected" /\ event = "none" =>
        \E c \in callbacks : c.handler \in Internal /\ InFlight(c.id)

\* _StreamStart, which disconnect() goes by, is set only while the stream is
\* open, and always then unless the session was given up.
StreamStartTracksStream ==
    Top => /\ streamStart => stream = "open"
           /\ stream = "open" /\ connState # "csNotConnected" => streamStart

\* The header handed to evtConnected is one that was received and not freed.
HeaderIsLive == fault # "badHeader"

\* What is kept of the stream is true of it: disconnect() may go by _StreamStart, and
\* a handler of evtConnected may read the header.
StreamIsTracked == StreamStartTracksStream /\ HeaderIsLive

\* Once disconnected, a session stays so until connect() opens a new stream.
DisconnectHolds ==
    [][connState = "csNotConnected" /\ connState' # "csNotConnected" =>
           streamNo' = streamNo + 1]_vars

\* Every connect() is answered: by evtConnected, evtAuthError, evtDisconnected
\* or evtXMLParserError, unless disconnect() is called first.
AttemptIsAnswered ==
    (connState \in {"csCreateUser", "csAuthReq", "csAwaitingAuth"} /\ event = "none")
        ~> (event # "none" \/ connState = "csNotConnected")
=============================================================================
