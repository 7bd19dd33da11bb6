---------------------------- MODULE ElementStream ----------------------------
(***************************************************************************)
(* judo::ElementStream: the SAX events of an expat parser turned into       *)
(* packet-level elements for an ElementStreamEventListener.                 *)
(*                                                                          *)
(* One step is one call into the class: a push() that begins or returns, a  *)
(* SAX callback of expat, the return of a listener callback, a reset().     *)
(* Elements are numbered in the order of their start tags.                  *)
(***************************************************************************)
EXTENDS Naturals, Sequences, SequencesExt

CONSTANTS
    MaxElements,    \* bound: start tags in a behaviour
    MaxDepth,       \* bound: elements open at a time, the root included
    MidStanza,      \* may reset() be called with a packet-level element open?
    InCallback      \* may the listener call reset() from its callbacks?

ASSUME ElementStreamAssumption ==
    /\ MaxElements \in Nat
    /\ MaxDepth \in Nat
    /\ MidStanza \in BOOLEAN
    /\ InCallback \in BOOLEAN

VARIABLES
    started,    \* _document_started
    ended,      \* _document_ended
    stack,      \* _element_stack, the innermost element last
    built,      \* [element |-> element it was added to], 0 for none
    parser,     \* expat: "prolog", "content", "epilog" or "failed"
    open,       \* expat: the open tags of the current document
    call,       \* the call in progress: see Calls
    counter,    \* the number of elements begun so far
    nested,     \* history: [element |-> its parent in the document], 0 for none
    complete,   \* history: packet-level elements whose end tag was parsed
    delivered,  \* history: packet-level elements given to onElement
    text        \* history: <<element given the text, element around the text>>

classVars == <<started, ended, stack, built>>
expatVars == <<parser, open>>
history   == <<counter, nested, complete, delivered, text>>
vars      == <<started, ended, stack, built, parser, open, call,
               counter, nested, complete, delivered, text>>

(***************************************************************************)
(* "idle": no call in progress.  "push": inside XML_Parse, between two SAX  *)
(* events.  "on...": inside that listener callback, called from XML_Parse.  *)
(* "aborted": the assertion of push() failed and the process is gone.       *)
(***************************************************************************)
Callbacks == {"onDocumentStart", "onElement", "onDocumentEnd", "onCDATA"}
Calls     == {"idle", "push", "aborted"} \union Callbacks
Elements  == 1..MaxElements

TypeOK ==
    /\ started \in BOOLEAN
    /\ ended \in BOOLEAN
    /\ stack \in Seq(Nat)
    /\ built \in Seq(Nat)
    /\ parser \in {"prolog", "content", "epilog", "failed"}
    /\ open \in Seq(Nat)
    /\ call \in Calls
    /\ counter \in Nat
    /\ nested \in Seq(Nat)
    /\ complete \in Seq(Nat)
    /\ delivered \in Seq(Nat)
    /\ text \in SUBSET (Nat \X Nat)
    /\ Len(built) = counter /\ Len(nested) = counter

-----------------------------------------------------------------------------
\* The innermost element on the stack, and the one the document has there.
Innermost_Front == IF stack = <<>> THEN 0 ELSE Head(stack)
Innermost       == IF stack = <<>> THEN 0 ELSE Last(stack)
Enclosing       == IF open = <<>> THEN 0 ELSE Last(open)

\* The size of the stack at which an end tag ends a packet-level element.
PacketSize_OffByOne == 2
PacketSize          == 1

\* new Element, linked to its parent by addElement() if it has one.
AddElement(parent) == built' = Append(built, parent)

\* The constructor: reset() on an empty stack.
Init ==
    /\ started = FALSE
    /\ ended = FALSE
    /\ stack = <<>>
    /\ built = <<>>
    /\ parser = "prolog"
    /\ open = <<>>
    /\ call = "idle"
    /\ counter = 0
    /\ nested = <<>>
    /\ complete = <<>>
    /\ delivered = <<>>
    /\ text = {}

\* push(): the assertion, then XML_Parse starts on the data.
Push ==
    /\ call = "idle"
    /\ call' = IF ended THEN "aborted" ELSE "push"
    /\ UNCHANGED <<classVars, expatVars, history>>

\* XML_Parse returns: the data is used up, here inside an element or not.
PushReturns ==
    /\ call = "push"
    /\ parser # "failed"
    /\ call' = "idle"
    /\ UNCHANGED <<classVars, expatVars, history>>

\* XML_Parse fails, for the first time or again: push() throws ParserError.
PushThrows ==
    /\ call = "push"
    /\ parser' = "failed"
    /\ call' = "idle"
    /\ UNCHANGED <<classVars, open, history>>

\* A start tag: expat lets only one root element into a document.
\* onStartElement makes an Element, inside the innermost open one if any.
StartTag ==
    /\ call = "push"
    /\ parser \in {"prolog", "content"}
    /\ counter < MaxElements
    /\ Len(open) < MaxDepth
    /\ counter' = counter + 1
    /\ parser' = "content"
    /\ open' = Append(open, counter + 1)
    /\ nested' = Append(nested, Enclosing)
    /\ IF started
       THEN /\ stack' = Append(stack, counter + 1)
            /\ AddElement(Innermost)
            /\ UNCHANGED <<started, call>>
       ELSE /\ started' = TRUE
            /\ AddElement(0)
            /\ call' = "onDocumentStart"
            /\ UNCHANGED stack
    /\ UNCHANGED <<ended, complete, delivered, text>>

\* An end tag: onEndElement goes by the number of elements on the stack.
EndTag ==
    /\ call = "push"
    /\ parser = "content"
    /\ open' = Front(open)
    /\ parser' = IF Len(open) = 1 THEN "epilog" ELSE "content"
    /\ complete' = IF Len(open) = 2 THEN Append(complete, open[2]) ELSE complete
    /\ CASE Len(stack) = PacketSize ->
              /\ call' = "onElement"
              /\ delivered' = Append(delivered, stack[1])
              /\ UNCHANGED stack
         [] Len(stack) = 0 ->
              /\ call' = "onDocumentEnd"
              /\ UNCHANGED <<stack, delivered>>
         [] OTHER ->
              /\ stack' = Front(stack)
              /\ UNCHANGED <<call, delivered>>
    /\ UNCHANGED <<started, ended, built, counter, nested, text>>

\* Character data between tags: onCDATA.
CharacterData ==
    /\ call = "push"
    /\ parser = "content"
    /\ text' = text \union {<<Innermost, Enclosing>>}
    /\ call' = IF stack = <<>> THEN "onCDATA" ELSE "push"
    /\ UNCHANGED <<classVars, expatVars, counter, nested, complete, delivered>>

\* The element handed out is not popped.
CallbackReturns_Keeps ==
    /\ call \in Callbacks
    /\ call' = IF parser = "prolog" THEN "idle" ELSE "push"
    /\ ended' = (ended \/ call = "onDocumentEnd")
    /\ UNCHANGED <<started, stack, built, expatVars, history>>

\* A listener callback returns into onStartElement, onEndElement or onCDATA,
\* which finish and return into XML_Parse.
CallbackReturns ==
    /\ call \in Callbacks
    /\ call' = IF parser = "prolog" THEN "idle" ELSE "push"
    /\ stack' = IF call = "onElement" THEN Front(stack) ELSE stack
    /\ ended' = (ended \/ call = "onDocumentEnd")
    /\ UNCHANGED <<started, built, expatVars, history>>

\* A flag is not reset.
Reset_KeepsStarted ==
    /\ call = "idle" /\ Len(open) < 2
    /\ ended' = FALSE
    /\ parser' = "prolog"
    /\ open' = <<>>
    /\ UNCHANGED <<started, stack, built, call, history>>

Reset_KeepsEnded ==
    /\ call = "idle" /\ Len(open) < 2
    /\ started' = FALSE
    /\ parser' = "prolog"
    /\ open' = <<>>
    /\ UNCHANGED <<ended, stack, built, call, history>>

\* reset(), from outside of push() or, InCallback, from a listener callback
\* (Session::connect() called by a handler of the application).  The callback
\* then returns into the XML_Parse of a freed parser, which is undefined; the
\* model takes the mildest outcome: it returns without another SAX event.
Reset ==
    /\ call = "idle" \/ (InCallback /\ call \in Callbacks)
    /\ MidStanza \/ Len(open) < 2
    /\ started' = FALSE
    /\ ended' = FALSE
    /\ parser' = "prolog"
    /\ open' = <<>>
    /\ UNCHANGED <<stack, built, call, history>>

Next ==
    \/ Push
    \/ PushReturns
    \/ PushThrows
    \/ StartTag
    \/ EndTag
    \/ CharacterData
    \/ CallbackReturns
    \/ Reset

Spec == Init /\ [][Next]_vars

-----------------------------------------------------------------------------
\* Between two callbacks the element stack is the list of open tags
\* below the root: onStartElement and onEndElement, which see only the stack
\* and one flag, never lose track of where they are in the document.
StackTracksDocument ==
    call # "onElement" => stack = IF open = <<>> THEN <<>> ELSE Tail(open)

\* Every packet-level element the server completes is handed to onElement, in
\* the order of completion and once: nothing is swallowed by another element
\* and nothing else is handed out.
DeliveredIsComplete == delivered = complete

\* The tree a delivered element carries is the one in the document: every
\* element was added to the element around it, and the text likewise.  The
\* root and packet-level elements stand alone.
TreeIsDocument ==
    /\ \A e \in 1..counter :
          built[e] = IF nested[e] # 0 /\ nested[nested[e]] # 0
                     THEN nested[e] ELSE 0
    /\ \A t \in text :
          t[1] = IF t[2] # 0 /\ nested[t[2]] # 0 THEN t[2] ELSE 0

\* The assertion of push() stops only a caller that pushes after the end of
\* the document: a parser that reset() has just made accepts data.
AbortsOnlyAfterEnd == call = "aborted" => parser \in {"epilog", "failed"}

\* The contract of the listener: ElementStream implements StanzaStream.
Stream == INSTANCE StanzaStream WITH
    phase  <- IF parser = "failed" THEN "failed"
              ELSE IF ~started THEN "fresh"
              ELSE IF parser = "epilog" THEN "ended" ELSE "open",
    newest <- IF delivered = <<>> THEN 0 ELSE delivered[Len(delivered)]

ImplementsStanzaStream == Stream!Spec
=============================================================================
