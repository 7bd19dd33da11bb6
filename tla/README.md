# A verification development for lib-jabberoo

lib-jabberoo is a C++ library for Jabber (XMPP) clients. A client makes a
`Session`, feeds it the bytes that arrive from the server with `push()`, writes
what the session emits by `evtTransmitXML` to its socket, and is called back
through signals. Everything happens on the client's thread, inside its calls:
what makes the code hard is not threads but **re-entrance** (a handler of a
signal may call the library while the library has code left to run), **state
that outlives a connection** (callbacks, element stacks, group indices, the
header), **answers that come late, twice or not at all**, **several copies of
one fact** that must change together, and, at the bottom, **texts that arrive in
pieces** cut anywhere.

This directory holds TLA+ modules of the library, configurations that
check them with TLC, and proofs checked by TLAPS. `PROJECT.json` names, for each
definition, the lines of the source it is translated from; for each run what it
checks; for each property a mutation of the code that breaks it; and the
hazards of the code with the properties that guard them.

## The system

| Component | State | Operations | Talks to |
|---|---|---|---|
| expat (in libjudo) | the block of bytes not yet parsed, the processor, the open tags, the declarations of the prolog | `XML_Parse()` | the SAX callbacks of `ElementStream` |
| `ElementStream` (libjudo) | `_element_stack`, `_document_started`, `_document_ended`, the parser | `push()`, `reset()`, `parseAtOnce()`, the SAX callbacks | its listener: `onDocumentStart`, `onElement`, `onDocumentEnd`, `onCDATA` |
| `Session` | `_ConnState`, `_AuthType`, `_Authenticate`, `_StreamStart`, `_StreamElement`, `_ID`, `_Callbacks`, lists of XPath queries | `connect()`, `disconnect()`, `push()`, `operator<<`, `registerIQ()`, `registerXPath()`, `queryNamespace()`; handlers of the stream and of iqs | is an `ElementStream` and its own listener; owns the `Roster` and the `PresenceDB`; the application by signals |
| `PresenceDB` | `_DB`: per user@host a list of presences, highest priority first | `insert()`, `remove()`, `clear()`, `find()`, `findExact()`, `contains()`, `available()`, `send_unavailable()` | `Session` |
| `Roster` | `_items`, `_groups` | `update()` by a roster `<query>` and by a presence, `reset()`, `clear()`; requests | `Session`, `PresenceDB` |
| `DiscoDB` | `_items`, `_callbacks`, `_persistNodes` | `cache()`, `clear()`, three iq callbacks | `Session::registerIQ` |
| `ComponentSession` | `_connState`, `_XPaths`, `_XPCallbacks` | `connect()`, `disconnect()`, `push()`, `registerXPath()`, `unregisterXPath()` | an `ElementStream`, and its listener |
| `Agent`, `AgentList` | a list, or tree, of agents | `fetch()` and its answer | `Session::registerIQ` |
| `Element`, XPath (libjudo) | a tree; a list of operations | building, reading, writing; a query and its evaluation | everybody |
| `JID`, `Packet`, `Message`, `Presence`, `Filter`, `vCard`, `FileStream` | values, most of them around an `Element` | sequential functions | everybody |

What makes each of them correct:

* **expat**: it reports the document that the text is, and refuses a text that is
  none, however the text was cut.
* **ElementStream**: the listener sees the document and only the document; each
  packet-level element (a *stanza*, child of the root) is handed out once,
  complete, in order; a `reset()` between stanzas starts afresh.
* **Session**: it is connected only when the server has accepted a login on the
  stream it is on; an answer fires the callback of its own request and no other;
  every `connect()` is answered by a signal; once disconnected it stays so until
  the next `connect()`; its
  loops over callbacks survive what callbacks do, and each callback that waits for
  an element is told of it once.
* **ComponentSession**: a stream may end in three ways and none of them trips an
  assertion; the queries it goes through are those registered, before anything else;
  every `connect()` is answered.
* **PresenceDB**: it knows the latest presence of each resource, no more than
  once, and gives one of the highest priority as the default.
* **Roster**: the group index agrees with the items; the online flags agree with
  what is known of presence; the application has been told what is known.
* **DiscoDB**: every `cache()` runs its callback once; an item that says it is being
  queried is; the pointers from items to their children lead to items.
* **The values**: what one side builds and writes is what the other reads; a query
  selects what XPath says; JabberIDs are taken apart into their parts, and compared so
  that a `PresenceDB` finds the presence of a resource, which it does by `compare()`, and
  that a program may key a map by them, as no container of the library does.

## The modules

| Module | Models | Code it stands for |
|---|---|---|
| `StanzaStream` | the contract between an `ElementStream` and its listener | the listener interface of `judo.hpp` |
| `ElementStream` | the class, expat as its environment | `ElementStream.cpp`, `judo.hpp` |
| `Session` | connection, login, registration, lifetime of the header; an application, a transport and a server as its environment | `jabberoo-session.cc`, `session.hh` |
| `Dispatch` | the loops of a session over its callbacks and XPath queries, with iterators | `jabberoo-session.cc` |
| `ComponentSession` | the class, on the contract of `StanzaStream` | `jabberoo-component-session.cpp` |
| `LatestPresence` | a `PresenceDB` without its lists | what `presenceDB.hh` says of it, but for `remove()`, which is as in `jabberoo-presencedb.cc` |
| `PresenceDB` | the lists | `jabberoo-presencedb.cc` |
| `Roster` | items, group index, online flags; an instance of `PresenceDB`; the two handlers of `Session` that keep them together | `jabberoo-roster.cc`, `jabberoo-session.cc` |
| `DiscoDB` | the cache of service discovery, its queries and the callbacks that wait | `jabberoo-disco.cpp`, `discoDB.hh` |
| `Elements` | trees, how they are built and written | `Element.cpp`, `CDATA.cpp`, `XMLAccumulator.hpp`, `utility.cpp` |
| `XPath` | the parser of queries and their evaluation | `XPath.cpp`, `XPathOps.h` |
| `XPathMeaning` | reference: what a query selects by XPath 1.0 | |
| `JID`, `Packets`, `Filters`, `VCard` | the values of the library | `JID.cc`, `jabberoo-packet.cc`, `-message.cc`, `-presence.cc`, `filter.cc`, `vCard.cc` and their headers |
| `JIDOrder` | JabberIDs as they are written, three at a time; what their order and their parts must be | `JID.hh` |
| `XmlTok` | the scanners | `xmltok_impl.c`, `xmltok.c` |
| `XmlRole` | the handlers of the prolog | `xmlrole.c` |
| `ContentModel` | the handlers under any tokens, with the groups of a content model by their parentheses beside them | `xmlrole.c`, `xmlparse.c` (`groupConnector`) |
| `ParserBuffer` | the buffer of the parser: where bytes wait that the processor has left | `xmlparse.c` (`XML_Parse()`, `XML_GetBuffer()`) |
| `BufferedParser` | a parser as far as its buffer goes: any pushes, and a processor that takes any part of what it is given | `xmlparse.c`, `ElementStream.cpp` (`reset()`) |
| `XmlParse` | the parser | `xmlparse.c` |
| `PrologGrammar`, `XmlDocument` | references: the grammar of a prolog; documents, how they are written and what they mean | |
| `ElementBuilder` | the elements that come of the calls of the parser; `parseAtOnce()`, `FileStream` | `ElementStream.cpp`, `FileStream.cpp` |
| `Lists` | `Kept`: a list without some of its elements, as a recursive function | `std::remove()`, `list::erase()` as the session and the component use them |
| `ElementStream_proofs`, `Session_proofs`, `Dispatch_proofs`, `ComponentSession_proofs`, `PresenceDB_proofs`, `Roster_proofs`, `DiscoDB_proofs` | inductive invariants, their theorems, two refinements | |
| `Lists_proofs` | what `Kept` keeps; induction along a list | |
| `MC*` | bounds for TLC; `MCValues` and `MCExpat` also hold the inputs and the properties of the pure operators | |

`ElementStream` is shown to implement `StanzaStream`, and `Session` and
`ComponentSession` are written on top of that contract: their variable `stream` is
the phase of `StanzaStream`. `PresenceDB` is shown to implement `LatestPresence`;
`Roster` contains an instance of `PresenceDB`. `ElementBuilder` composes `Elements`
with `XmlParse`, so that a stanza goes through all of libjudo: it is built, written,
cut, scanned, parsed and built again. `XmlParse` and `BufferedParser` use one
`ParserBuffer`, `XmlParse` and `ContentModel` one `XmlRole`: what is proved of the small
ones, for every input, is about the operators that the parser runs.

### How a module corresponds to the code

**ElementStream.** One step is one call into the class: a `push()` begins or
returns, expat calls back, a callback of the listener returns, `reset()`. A
listener callback is a state (`call`), because the code after it reads fields that
the callback may have changed. Elements are numbers. `open` and `parser` are
expat's own; `nested`, `complete`, `delivered` and `text` are history variables
that say what the document was, for the properties. Two constants choose what
the caller does: `MidStanza` (a `reset()` with a stanza half received) and
`InCallback` (a `reset()` from a listener callback). What the elements contain, and
`parseAtOnce()`, are in `ElementBuilder`.

**Session.** An operation that emits a signal in its middle is split there:
`frame` says which code is left to run when the handlers return (`"Auth"`:
`IQHandler_Auth` after `evtConnected`; `"erase"`: the loop of `handleIQ()`;
`"documentEnd"`: `onEndElement` sets `_document_ended`; `"parserError"`: `push()`
disconnects), and a `Return...` action runs it. Between the two the application
may call `connect()`, `disconnect()` and `queryNamespace()` if its habits include
`"reentrant"`. `Habits` and `Faults` select what the application does and what the
server does wrong, so that one module serves several questions. Requests carry the
handler that waits for them; payloads, digests and wording are left out. `fault`
records a read through a null or dangling pointer and a failed assertion; nothing
follows it. `streamNo`, `accepted` and `event` are history variables. The loops over
callbacks and queries are in `Dispatch`, presence is in `Roster`.

**Dispatch.** A registration is a node, numbered in the order of registration; a
container is the sequence of its nodes, and an iterator the number of the node it
points to. `frames` is the stack of the loops that run, one within a callback of the
other: `handleIQ()` over `_Callbacks`, `dispatch()` over the incoming queries,
`operator<<` over the outgoing ones, and the handlers of signals between them. Callbacks
and handlers send, and call `dispatch()`, which is public (`session.hh:274`); it is also
what `onElement()` does with each stanza, so that one action, `DispatchElement`, is both.
`handleIQ()` keeps the end that `equal_range()` gave it, and erases each node after
its callback; a loop whose iterator or end is on an erased node ends in the fault
`"dangling"`. `due`, `called` and `since` are history variables of a loop. Habits are
what a callback may do that the code does not survive: take away itself (`"self"`) or the
node at the end of the loop (`"next"`), by unregistering it or by dispatching an iq that
answers it (`MayGo`); or register again under the id that is being answered (`"repeat"`).

**ComponentSession.** A `push()` begins, brings any number of notifications, and
returns or throws. `unregisterXPath()` calls `std::remove()` and erases nothing, so
that a list is as long as it ever was: its removed end holds what `remove()` leaves
there. As nothing is erased, an iterator is its distance from the end. Habits:
`"linger"` pushes what arrives after `disconnect()`, `"callback"` calls back from
handlers, `"again"` connects twice, `"unregister"` unregisters. Faults: what is not
XML, within the stream or behind its end.

**PresenceDB.** A JabberID is a record of a bare JabberID and a resource. The list
operations are those of `insert()`: look for an old presence of the same JabberID,
replace it in place if its priority is the same, else erase it and insert before the
first that is not higher; erase the entry of a user whose list becomes empty.

**Roster.** A group is a number, its rank in the order of `std::string`, because
`mergeItemGroups()` walks two sets in that order; the virtual groups of the code
lie between the groups users name. `HandlePresence` is the whole of
`Session::handlePresence()` for the types that reach the database: insertion, the
update of the item, `evtPresence`. `DocumentEnd` is the whole of what
`onDocumentEnd()` does to both. `told` is a history variable: the type the
application was last told of each JabberID.

**DiscoDB.** A lookup is one call of `cache()`, numbered. It has one query on its
way at a time: for the items, then the info, or the info alone; an error to either
is followed by `jabber:iq:browse`. What is asked about is a record of a JabberID and a
node; `_items` is a function of such keys (the code has a multimap of JabberIDs and
looks through it for the node, so that it holds at most one item of each).
`_callbacks` is the set of waiting lookups; `_persistNodes`, kept under iq ids in the
code, is kept under a lookup and the kind of its query, which is the same thing. An
answer may repeat the node or leave it out, as the comment in `discoDB.hh` says
happens. `runCallbacks()` is split where it calls the application: handlers of
`signal_new_item`, then one callback after the other; `running` says which are left.
`cache()`, `clear()` and `erase()` are possible at any time, in handlers too; the next
answer is handled when `runCallbacks()` is done. Features, identities and names are
left out. `asked`, `told` and `stranded` are history variables, the last for lookups
whose query failed in a way the code does not tell its callback.

**The values.** These are pure operators. An element is a record of a name, a
function of attributes, and a sequence of kids, character data being a kid of its
own name, as in the code; a call that changes an element returns the changed one, and
a pointer into a tree is an index or a path. Texts are strings of the few characters
that escaping and cutting tell apart. A query of `XPath` is a sequence of lexemes,
each character of `_tokens` one of its own; `Execute` runs the operations in the order
of the code. `MCValues` chooses an input in one step, of one of seven sorts, parses
in a second what is sent of it, with `ElementBuilder` and `XmlParse`, and each property
says what comes of it. A JabberID is a sequence of the codes of its characters, and its
comparisons are those of `std::string` and `_stricmp()`, character by character; only of
this sort are there several inputs at a time, three, as an order is about three.

**expat.** A byte is a one-letter string, the two bytes of a letter that is not ASCII
are `"lead"` and `"trail"`, and one byte is not allowed in XML. A scanner takes a text
and a position and returns a token and where it ends, or that the text ends too
early. The handlers of the prolog are a table of rows (handler, token, next handler,
role) with the counters of `PROLOG_STATE` and with `groupConnector`, in which
`doProlog()` keeps the separator of each open group of a content model. The parser is a
record: its buffer, the processor, the open tags, the declarations, the error, and the
events it has reported. libjudo always calls it with `isFinal = 0`, so that a token that
may go on waits for the next piece.

`XML_Parse()` parses a piece where it is if nothing is left of those before, keeps what
the processor leaves of it in a block of twice its size, and otherwise copies it behind
what is left; `GetBuffer` moves what is left to the front or to a larger block. All of
this is without `XML_CONTEXT_BYTES`: `winconfig.h`, which would define it, is included
only under `COMPILED_FROM_DSP`, and no project or makefile defines that. In
`BufferedParser` a byte is its place in the stream, so that the history says what the
processor should be given.

`ContentModel` keeps, beside the state of the handlers, the groups that are open by their
parentheses and what has separated the members of each.

`MCExpat` plays three games: it pushes texts, cut at random; it gives tokens to the
handlers, with the grammar and the groups beside them; and it pushes bytes, of which the
processor takes any part.

## The runs

Passing runs:

* **`element_stream`** — data that breaks anywhere, parse errors at any point,
  elements nested to depth 4, six of them, over any number of streams with
  `reset()` between stanzas. The stack tracks the document, stanzas are handed out
  once and in order, the trees they carry are those of the document, the assertion
  of `push()` only stops a caller who pushes after the end, and the class implements
  `StanzaStream`.
* **`session_free`** — an application that calls anything at any time, also from
  handlers and also after `disconnect()`, and a server with every fault, on two
  streams. Even so, answers find their own request, and `csConnected` means that
  the server accepted.
* **`session_orderly`** — an application that waits for the answer to one
  `connect()` before the next, and does not call back from handlers; a server that
  refuses, hangs up and sends garbage. No attempt is lost (`LoginIsUnderWay`),
  `_StreamStart` tells the truth and the header handed out by `evtConnected` is
  live (`StreamIsTracked`), a disconnected session stays so, and every `connect()` is
  answered (`AttemptIsAnswered`, liveness).
* **`dispatch`** — iqs and packets come in and go out while callbacks register,
  unregister, send and dispatch, three loops deep. A loop tells each callback once, all
  that it had to and no other's (`EachIsToldOnce`); once an iq has come to the signals no
  callback of its id is left, whatever was dispatched meanwhile (`AnswersAreTakenUp`).
  A loop on a node that was erased would be a deadlock, which is checked.
* **`component`** — a component that ends its streams in an orderly way, a server
  that ends them or sends garbage, two streams, four queries that come and go. No
  assertion fails, the list of queries begins with those that are registered
  (`RegisteredComeFirst`), every `connect()` is answered (liveness).
* **`presence_lists`** — two users, one of them with two resources and a presence
  without one, three priorities, four types; any order of presences, removals and
  clears. The lists are used, hold each JabberID once and are sorted
  (`ListsAreSound`), and implement the map of latest presences.
* **`roster_items`** — a user in two places and a transport, pushes of up to two
  items that add, change and remove; presence of those on the roster. The group
  index is exact and the online flags are the truth, within one stream.
* **`roster_streams`** — presence of anybody in any order with ends of streams.
  The application has been told just what is in the database.
* **`disco_lookups`** — two lookups of a server, a node of it and a service, in any
  mixture of answers, errors, `clear()`, `erase()` and calls from handlers. No callback
  is lost or run twice, what it waits for is under way, an item is not left saying
  that it is being queried, children lead to items, and every lookup is answered
  (liveness), except where the code strands it.
* **`values`** — `QueriesSelect`: queries of one or two steps with predicates of
  up to three operands, on trees of three levels, select what XPath 1.0 says.
  `StanzasSurvive`: an element built by up to two calls with hostile texts, written and
  read again, is what it was, through a stream in pieces, through `parseAtOnce()` and
  through a file. `JIDsAreSound`: three JabberIDs at a time, of valid and invalid parts
  in both cases, are in a strict order that agrees with `compare()`, and what has valid
  parts is taken apart into them. `WhatIsSaidIsHeard`:
  messages, their answers and replies, presences and filters over the wire.
  `FieldsAreKept`: cards that are read and assigned to.
* **`expat`** — some three hundred documents and eighteen texts that are none, in
  pieces of one byte, of three and whole (the longer ones of four, seven and whole),
  in any mixture of sizes; and every prolog as the handlers see it, parentheses to
  depth 3; and pushes of one to five bytes, of which the processor takes any part. It does
  not matter where a text was cut, a document is reported as what it means and what is
  none is refused; the handlers accept the grammar in the roles it gives, know the
  depth and the separators of a content model (`GroupsAreTracked`), and let a group go on
  that may (`GroupsGoOn`); and the processor reads each byte once, in its order
  (`StreamIsReadOn`).

A run that shows a disagreement between the code and what it says of itself:

* **`component_goodbye`** — `onDocumentEnd()` of a `ComponentSession` calls
  `disconnect()`, which asserts that the session is connected
  (`jabberoo-component-session.cpp:67`). After the component's own `disconnect()` it is
  not: the server's answer to the end tag, if it is pushed, stops the process.

### Disagreements without a run of their own

A constant of a module shows the first five: set as said, TLC finds the property
violated. These are the cases that the runs and theorems leave out, so that a property
which holds in a run says nothing about them.

* `reset()` leaves the stack as it is, so that after a stream that broke off inside a
  stanza the next document grows inside the old element and its stanzas never arrive;
  where that document ends, the old element is handed out instead
  (`ElementStream`, `MidStanza = TRUE`: `DeliveredIsComplete`). `ElementStream.cpp:60`
  says "Reset the parser for a new XML document/stream".
* `_document_ended` is set after the listener has returned. A `connect()` from a
  handler of `evtDisconnected` has by then reset the stream; the flag is set on the new
  one, and its first `push()` fails the assertion (`InCallback = TRUE`:
  `AbortsOnlyAfterEnd`; the mildest outcome of freeing the running parser).
* An answer to a login that arrives after `disconnect()` connects the session again
  (`Session`, habit `"linger"`: `DisconnectHolds`).
* An error without an `<error>` element leaves `csAwaitingAuth`; the `connect()` that
  follows sends a login without a namespace, which nobody waits for (fault
  `"emptyError"`: `AttemptIsAnswered`).
* A presence of type `subscribed` is inserted as though it were a status, in front of
  an available one, and the item goes offline (`Roster`, that type among `Types`:
  `OnlineIsTruth`).

Of `Session`:

* `push()` emits `evtXMLParserError` first and disconnects after; `session.hh:279` says it
  disconnects first. A `connect()` that a handler made is undone by what `push()` has left
  to run: the header of the new stream has been sent, and the state is `csNotConnected`
  (`ReturnParserError`, habit `"reentrant"` and fault `"garbage"`). No property of a run
  covers it, as none could hold.
* `session.hh:312` says `evtDisconnected` is emitted whenever the session
  disconnects; after a parse error `push()` only emits `evtXMLParserError`.
* `connect()` with `at0kAuth` given explicitly makes `sendLogin()` read the challenge
  through a null `<query>` (`fault = "nullQuery"`; `SendLogin`).
* `connect()` without authentication, called again while an attempt is under way,
  emits `evtConnected` with a header that was not received, or was freed
  (`fault = "badHeader"`; `AuthenticateAgain`).
* A callback that unregisters itself, or dispatches an iq of the id that is being
  answered to it, leaves a loop on an erased node (`Dispatch`, habit `"self"`); so does
  taking away, in either way, the node of the id that comes next, which `handleIQ()`
  has kept as the end of its loop (`"next"`). TLC reports both as a deadlock, as nothing
  follows `fault = "dangling"`. A comment (`jabberoo-session.cc:587`) asks for "a way to
  prevent the iterator from being broken" by what is registered; that is covered, and
  holds.
* A callback that registers again under the id that is being answered is called by the
  same loop, once more for each time it does (habit `"repeat"`: `AnswersAreTakenUp`).

Of `ComponentSession`:

* What is not XML behind the end tag, in the same `push()`, disconnects a session that
  the end tag has disconnected, and so does a `push()` after an error: the assertion
  again (fault `"junk"`).
* `unregisterXPath()` removes without erasing (`jabberoo-component-session.cpp:98`), and
  `onElement()` goes on to what `std::remove()` leaves at the end of the list. Register 1
  and 2: the list is 2, 1. Unregister 2: it is 1, 1, and 1 is told of each element
  twice. Unregister 1 instead: it is 2, 1, and the query that was deleted is used
  (`fault = "deleted"`). From a callback it shifts the list under the loop, so that a
  query is skipped (habit `"callback"`). There is no property "each query is told
  once", as it does not hold; `RegisteredComeFirst` says what does: what was left behind
  comes after all that is registered. The destructor deletes each query of a callback
  twice.
* Any `<handshake>` that comes while the session is not connected connects it.
* `connect()` sends `<stream::stream`, which is not the name of `</stream:stream>` and not
  a name with a prefix (`jabberoo-component-session.cpp:60`). The model takes the
  header for what it is meant to be, in `component_goodbye` too: with a server that
  refuses it there is no stream to end.

Of `Roster` and `PresenceDB`:

* `presenceDB.hh:84-87` says of `PresenceDB::remove()` "Currently this does *not* handle
  multiple entries with different resources. This function will remove all Presence
  Packets which match the user@host." It removes the presence of the exact JabberID and
  leaves those of the other resources (`presencedb.cc:141`). `LatestPresence` has what the
  code does, so that `ImplementsLatestPresence` holds; with a `Forget` that forgets the
  user it would not. Nothing in the library calls `remove()`.
* `presence.hh:148` says "If two resources have the same priority, the most recently logged
  in resource is the default." It is the one that was put into the list last: also one
  that has been logged in for long and has changed to that priority. `LatestPresence`
  asks for the highest priority only.
* `Roster::reset()` empties the items but not the groups (`roster.cc:66`), so that
  `IndexIsExact` does not hold over several streams; `roster_items` has one.
* An item that is pushed after the presence of its user stays offline until the
  next presence (`roster.cc:337`, `roster.hh:135`); `roster_items` therefore lets
  presence come only from users on the roster, and items go only without presence.
* The index is kept under the JabberID as the server wrote it and the items under
  `filterJID()` of it (`roster.cc:421`); the model gives both the same.
* `send_unavailable()` emits for the default presence of each user only
  (`presencedb.cc:234`): with two resources one stays available for the
  application. `roster_streams` therefore has everybody in one place.

Of `DiscoDB`:

* `discoDB.hh:158` says that children of an item will not be in the cache until there
  is an answer to a direct query; `discoItemsCB()` and `browseCB()` put them there,
  and `browseCB()` sets them to `stReady`.
* `discoDB.hh:78` says that `stQuerying` is not used: `cache()` sets it, and throws away
  `stReady` of an item that has it. `stError` ("Last result was an error") is never set.
* A query of a node that fails is browsed without the node, so that `runCallbacks()`
  runs the callbacks of the JabberID alone; that of the node is never run. A query
  that fails as a browse too is never answered; if the error contains an element, an
  item with an empty JabberID is cached (`stranded`; `DiscoError`, `BrowseError`).
* `clear()` or `erase()` in a callback frees the item that the callbacks after it are
  given; `erase()` of a child leaves the pointer to it. The model does not follow
  freed memory: its `Erase` takes only items that are nobody's child.

Of elements and streams:

* `onCDATA()` unescapes a text in which expat has already resolved the references
  (`ElementStream.cpp:127`): `&lt;` in a CDATA section is read as `<`. `&amp;lt;` is
  spared, and so are the stanzas of `StanzasSurvive`, only because expat reports what
  a reference stands for in a call of its own.
* A carriage return in a text, and a line feed or tab in an attribute, are written
  as they are and are lost on the wire, as XML normalises them (`OneLine`).
* `parseAtOnce()` does not join the sections of data below the root. `FileStream` drops
  data there, and fails the assertion of `push()` if the last chunk begins behind
  the end of the document and there is no name for a root (`ElementStream.cpp:52`).

Of XPath, so that `Queries` leaves these out:

* `A and B or C` is parsed as `A and (B or C)`; `not(A and B)` is `Invalid`, and
  `not(A or B)` has no operand; `[a/b]` and `[a[...]]` leave `a` as an operation of
  the whole query; a position counts over all the nodes found and not among siblings; `/*`
  at the beginning matches nothing; `x//x` includes `x` itself; `:` is dropped from names; a
  literal without an end never ends; an attribute that is empty counts as absent.
* `AllOp::_is_root` is read before it is set (the model takes 0), and the condition of
  `NodeOp` (`XPathOps.h:121`) binds `||` and `&&` against its layout.

Of the other values:

* `presence.hh:151` says of `getPriority()` "@return Priority as an int, 0 or greater. 0 if
  nonexistent." It is -1 for an unavailable presence, whatever was said, and a negative
  priority is returned as it was sent (`jabberoo-presence.cc:111`). `WhatIsSaidIsHeard`
  says nothing of the priority in these two cases.
* `judo::unescape()` reads behind `srcLen` if an `&` stands near the end of what it is given
  (`judo.cpp:56`); `Unescape` stays within it.
* `getUser()` and `getHost()` are wrong for a JabberID without a user and with an `@` in
  its resource: the host of `host/a@b` is `b`, while `JID.hh:62` says "Get the server from
  a JabberID." `JIDsAreSound` says nothing of the user and host of such a one.
* `JID.hh:96` says of `JID::Compare` "@return Whether the JabberIDs are equivalent."; it
  returns whether the left one is less (`jabberoo-JID.cc:169`).
* `Packet::eraseX()` erases through the wrong element. `setBody()` and its kin do
  nothing on `<body/>`. A delay without a stamp makes each receipt add another.
* `setStatus()`, `setShow()` and `setPriority()`, called twice, add a second kid, of which
  the first is heard. An available presence keeps the type attribute it had. A show
  `offline` of an available presence, and `online` of an unavailable one, do not survive.
* `Filter::toXML()` writes the name of a rule unescaped; `Entry::update()` unescapes
  the value of a field also when it was only looked at. The copy constructor of
  `Agent` leaves its flags unset.
* `&#13;` in the text of an entity is reported as a line feed by expat.

## Bounds

* `MaxElements = 6`, `MaxDepth = 4`: a root, two stanzas, a child and a grandchild,
  and a second document with a root and a stanza. The stack's behaviour depends on
  whether it holds none, one or more elements; four levels have all of these and
  one more. The proofs lift the bound.
* `Session`: `MaxStreams = 2`: what is left over of a stream can meet the next; a
  third adds no new kind of leftover. `MaxID = 5` (two logins of two requests and a
  retry); `session_free`, which lets everything happen, has 2, at which `connect()`
  stops, while answers still issue ids above it. The proofs lift both.
* `Dispatch`: two ids, so that one is where the loop of the other ends; a query that
  selects everything and one that does not; three registrations, so that one can go
  and one come while one runs; three loops, one in the middle.
* `ComponentSession`: four queries, so that `std::remove()` can take one from the
  front, the middle or the end and leave more than one behind; two streams.
* Three resources of one user give a list with a front, a middle and an end; three
  priorities one between two others; the second user is there to stay as it was.
* Two groups users name, one before and one after a virtual group, and lists of two
  items, so that one item can be added and removed, or changed twice, in one push.
* Three keys of `DiscoDB`: a JabberID with and without a node, which answers can
  confuse, and another. Two lookups, of the same key or of different ones, are enough
  for callbacks that are registered while others run and for one lookup answering
  another. The proofs lift the bound.
* `MCValues`: one and seven characters at a time cut every token everywhere, and
  some tokens nowhere. The texts are those that escaping, `]]>` and line ends tell apart.
* `MCExpat`: `InitBufferSize = 4` (1024 in the code), so that the block is moved and
  grown within a short text; the pieces cut every token at every place, and leave
  some whole. From 24 bytes on (`LongText`) a text is cut in fewer ways. `MaxLevel = 3`
  and `InitGroupSize = 2` (32 in the code): `groupConnector` grows within a content model,
  and groups follow one another at a level below the first. `MaxBytes = 11` and pushes of
  one, two, three and five bytes: the block is moved, grown, left as it is and not used at
  all. The proofs lift all four.
* Three JabberIDs at a time: a strict order says nothing of four.

`CHECK_DEADLOCK FALSE` is set for `ElementStream`, `Session` and `ComponentSession`,
because those systems do stop, at a failed assertion, at a read through a null
pointer, and when the bounds are used up; and for `values` and `expat`, which stop when
an input has been treated. `PresenceDB`, `Roster`, `DiscoDB` and `Dispatch` never stop
and are checked for it.

Each of `ElementStream`, `Session`, `PresenceDB`, `Roster`, `DiscoDB`, `Dispatch` and
`ComponentSession` has a `TypeOK` that no run checks: it documents the variables, and
each of them is part of an invariant that is proved.

## Fairness

`FairSpec` of `Session` has weak fairness of three things. `Push`: a client calls
`push()` when its socket has data. `Return`: handlers of
signals return; the code after them runs on the same thread. `ServerReads`: the
server reads what it is sent and answers it, possibly by refusing. Nothing makes
the application call `connect()` or `disconnect()`, or makes anything go wrong. No
fairness is put on hanging up or on garbage. Without fairness of the server no
attempt need ever be answered: the library has no timeout of its own.

`FairSpec` of `ComponentSession` has weak fairness of `Push` and of the return of
callbacks, for the same reasons, and strong fairness of two things the server does:
it sends its header, and it answers a handshake, if only by ending the stream.
Strong, because a notification is possible only while a `push()` is under way, which
comes and goes.

`FairSpec` of `DiscoDB` has weak fairness of the answers (an entity that is asked must
answer an iq, if only with an error) and of `TakeCallbacks` and `RunCallback`, which
run on when a handler returns. `cache()`, `clear()` and `erase()` need never happen.

## Proofs

TLAPS checks theorems for all values of the constants, the bounds among them. Some
need that an application or a server leaves things undone: then `Habits`, `Faults` and
the like are a hypothesis of the theorem, and TLC finds the property violated without
it (see the disagreements). The inductive invariants were checked by TLC as invariants
of the runs before they were proved.

**`ElementStream_proofs`.** `StackTracksDocument`, `DeliveredIsComplete`,
`TreeIsDocument` and the refinement of `StanzaStream` for `MidStanza = FALSE`, without
which `DeliveredIsComplete` fails; `AbortsOnlyAfterEnd` for `InCallback = FALSE` too.
`StartedInv` ties the flag the code has to what the parser knows. `StackInv` says that
the stack is the open tags below the root, *and* that while `onElement` runs it still
holds the one element being handed out; `StackTracksDocument` alone says nothing of
that state, and could not be kept by the `pop` that follows. `PathInv` says that each
open element is nested in the one before it, so that the parent the code finds on the
stack is the one the document gives (`ParentIsRight`). For the refinement, whose
contract says that stanzas come in order, `NewestInv` says that what is open was begun
after all that was handed out. The attempt showed that the refinement mapping was
wrong as written: two of the guards of a CASE overlapped, and TLC took the first
of them, which TLA+ does not promise. It is now an IF.

The same module proves two things about expat, which an `ElementStream` contains.

`StreamIsReadOn`, and that what was pushed and not taken is in the buffer
(`NothingIsLostAlways`), for any pieces, any size of the first block, and a processor
that takes any part of what it is given (`ParserInv`). A lemma for each operation
(`GetBufferIs`, `CopiedIs`, `KeptBackIs`, `ParsedIs`) says where the bytes go: they stay
where they are, move to the front, or move to a larger block. That the larger block is large enough rests on the size being doubled until it is, a
recursive function (`RecursionIsDefined`).

`GroupsAreTracked` and `GroupsGoOn`, for content models nested to any depth. `Tracked`
ties `level`, `groupConnector` and the groups that are open by their parentheses: within
a content model the level is their number and below `groupSize`, and the connector of each
level allows just what has separated the members of its group. It cannot be proved by going
through the table of rows token by token; the rows are of two kinds instead (`RowsAre`),
those that have nothing to do with content models (`Elsewhere`) and those of a content
model (`InModel`), of which there is a lemma for each thing they do to the groups. The
connector of a level is left as it is when its group is closed. That the next group
at that level is not taken for one that has a separator rests on
`doProlog()` clearing it when a group is opened; a group that another one was closed in, on
its not being touched by what is deeper.

**`Session_proofs`.** `TypeOK`, `AnswersFindTheirRequest`, `ConnectedIsAccepted` for
every set of habits and faults. The invariant is about ids. An answer is matched to a
callback by number alone and callbacks are never purged, so the argument must be that
numbers are not reused: every request on its way up and every answer on its way down
has an id below `nextID` (`RequestsAreOld`, `AnswersAreOld`), and if it has the id of a
callback then that callback is of this stream and waits for this kind of request
(`RequestsMatch`, `AnswersMatch`). Steps of the session are treated alike by the
relation `Issues`: what a step adds has new ids, and goes together. The server
turns a request into an answer, which carries `RequestsMatch` over to
`AnswersMatch`. `ResultsAreAccepted` adds that a positive answer to a login under
way down was accepted; with `AnswersMatch` it follows that `IQHandler_Auth`, which
looks at neither, is given such an answer only.

On top of it there are three layers, each with what it needs of the application:

* `StreamInv`, for `DisconnectHolds` (no `"reentrant"`: a `connect()` in a handler of
  `evtXMLParserError` would be undone by `push()`; nor `"linger"`: what arrives after
  `disconnect()` would connect again). A frame that is left to run is
  of a stream that has failed or ended, and a session that was given up is sent nothing.
* `OpenInv` and `LoginInv`, for `StreamIsTracked` (nor `"again"`: a second login in flight
  when the first frees the header). The header of the server comes first and once; one
  login at a time; it is over when the application is told of its outcome or the
  header is freed.
* `UnderWayInv`, for `LoginIsUnderWay` (and no `"emptyError"`, after which nobody waits):
  the callback of the one login has a request or an answer of its own id on its way.

**`Dispatch_proofs`.** `TypeOK`, `EachIsToldOnce`, `AnswersAreTakenUp`
for callbacks without habits (`Habits = {}`; `"self"` and `"next"` leave a loop on an erased
node, `"repeat"` may keep one running for ever), any number of registrations, and loops
nested to any depth.
`ContainerInv` is true whatever callbacks do: a multimap is in the order of ids, a
list has the latest query in front, and a node is in a container once. `LoopInv`
says of each frame of the stack what its loop knows. A loop over queries is at
a node older than itself; what it has called is newer than that node and what it still
owes is not, so that going down the list, in which nodes are in descending order, never
meets a node twice, and what is registered in front of the list meanwhile is never met. The
loop of `handleIQ()` stands between its iterator and its end, and every node with the id
that is answered is between these two; so once it has ended there is none, and there is
none as long as the element is on its way, as nothing registers one. Both have to be kept
by what *other* loops do to the containers, which is why the invariant is about all
frames at once. A loop of `handleIQ()` within another one erases the nodes of its own id;
`LeavesIterators` says of each two of them that neither iterator nor end of the outer one
is among these.

**`ComponentSession_proofs`.** `RegisteredComeFirst`, whatever callbacks do. The place
where the registered queries end is not kept in the code, and the invariant says only
that there is one (`BeginsWith`). `std::remove()` takes away a query also from what was
left behind, so that the elements after it move by different distances; the lemma
`RemovedLeavesOthers` follows each to its new place, and finds the new end at the first
that was not registered. `AssertionsHold` if the component neither goes on with a stream
that has ended nor connects twice, and nothing follows the end of a stream: a stream that
ended is disconnected, and one that is pushed and did not end is not.

**`PresenceDB_proofs`.** `ListsAreSound` and the refinement of `LatestPresence`, without a
hypothesis. Lemmas say what `RemoveAt`, `InsertAt` and the search for a place in the list
do, by position. The refinement maps the lists to the set of their members: replacing in
place, or erasing and inserting elsewhere, is in either case to forget the old presence and
to learn the new one, and the first of a sorted list is a default of highest priority.

**`Roster_proofs`.** `ToldIsKnown`, on an instance of `PresenceDB_proofs`. While the stream
never ends (`"end" \notin Habits`) it needs nothing else; if it may end, each user must
be in one place and say no more than that he is there or not (`OnePlaceEach`), because
`onDocumentEnd()` tells of default presences that are available, and of no others.

`IndexIsExact`, if the server writes each JabberID that the roster tells apart in one
way (`WrittenInOneWay`: the index holds JabberIDs as they are written, the items their
`filterJID()`) and while the stream does not end (`reset()` leaves the index behind).
An item is put into the index by `mergeItemGroups()`, which walks through the old
groups and the new ones together. `PassedIsSound` says what one step of the walk keeps,
and does not ask in what order the two sets come: a new group is passed over only
together with the same old one, and one that the walk missed, from which it removed the
JabberID, is inserted at the end. So the walk is right (`MergeProperties`) if
the JabberID is in the index of all the old groups, which `IndexIsExact` says.

`OnlineIsTruth`, if presence comes from those who are on the roster and an item is
removed after its presence (`Habits = {}`), presence says that somebody is there or not
(`AvailableOrNot`), and a service is there once (`AgentsInOnePlace`: a service is known by its
full JabberID but looked up by its host). The invariant adds to `ToldInv` that whoever is
available has an item (`LitBy(told)` is a part of the keys): so a push neither
adds an item that would have to be online at once, as a new item never is, nor takes one
away that is.

Both go through a push item by item. A push and a walk are recursive functions;
`RecursionIsDefined` says that they exist, and `PushedKeeps` that what each item keeps
the push keeps.

**`DiscoDB_proofs`.** `TypeOK`, `NothingIsLost`, `LookupIsUnderWay`, `QueryingIsTrue`,
`ChildrenAreThere`, for any keys, listings and number of lookups.
`LookupIsUnderWay` lets a callback wait for a query of another lookup of its key,
which may fail; the invariant says instead that it waits for its own
(`OwnQueryIsUnderWay`). For that, the answer must be put to the key that was asked
about, which holds if the node of every query on its way is remembered
(`NodesAreRemembered`). `QueriedForLookup` likewise names the lookup for whose sake an
item says that it is being queried. The cache is treated apart from the lookups: each step
puts an item, or an item with its children, and two lemmas say that this keeps the pointers.

The same module proves `JIDsAreSound`, for JabberIDs of any characters and any
length, as an `Item` is found under its JabberID. That the comparison of two strings is
a total order is the argument of the first place at which they differ
(`StringCompare`); that of JabberIDs compares the lowered user and host, and only if these are
the same the resource, so it is the lexicographic product of two such orders. Where the
parts are found is an argument about the first `@` and the first `/`, which a valid user
and a valid host do not contain. `PresenceDB` has a JabberID as a record, and takes two
for the same if they are equal: that is `compare()` = 0 for JabberIDs that are written in
one way, as `JIDsAreOrdered` says.

**`Lists_proofs`.** What it is to be left in a list from which elements are taken
(`KeptProperties`), used by three of the modules above. The prover cannot do induction over
an operator; `KeptIsDefined` shows that the recursive function exists by the least
length at which it would not. `UpTo` is induction over a set, for as long as a list
is, and `RecursionIsDefined` follows from it: a function that is given step by step exists,
and stays in a given set at each step.

The model takes ids to be distinct natural numbers. `getNextID()` writes them into a
buffer of eight bytes, which repeats from `j1000000` on; the proofs are about
sessions with fewer ids than that.

Only model-checked: liveness (`AttemptIsAnswered`, `LookupIsAnswered`,
`ConnectIsAnswered`), which TLAPS cannot treat; and what rests on recursive operators,
which it cannot treat either. Those are `QueriesSelect`, `StanzasSurvive`,
`WhatIsSaidIsHeard` and `FieldsAreKept`, as elements and queries are trees;
`PiecesDoNotMatter` and `DocumentIsReported`, as scanning and parsing are an
induction along the text; and `PrologIsTheGrammar`, as the grammar is recursive, of which
`GroupsAreTracked` and `GroupsGoOn` prove the part in which the nesting has no bound.

## Not modelled

* `Agent` and `AgentList`: `fetch()` asks once and `update()` fills in what the answer
  says. `PacketQueue`: no implementation. `browse` and `jabberoo.cc`: not built, or
  commented out. `sha`, `jutil`, the digests of the logins and the formats of dates: data,
  without a property that depends on them.
* Of `Session`: what its answers to version, last, time and disco say. Of `Roster`: the
  operations that only send. Of `DiscoDB`: features, identities and names.
* Of `Element`: copying, the removal of kids and attributes, `getChildCDataAsInt()`. Of
  `Packet`: `eraseX()`, which is undefined. Of `JID`: the XPath function `jid-equals`.
* Of expat: a byte order mark and encodings other than UTF-8 (a stream of XMPP is UTF-8;
  other encodings are other tables under the same scanners), hash tables and pools (data
  structures under names and texts, which the model has as values), positions, the
  handlers that libjudo does not set, and what the build leaves out: external subsets and
  conditional sections (`XML_DTD`), namespaces (`XML_NS`).

## Plan

Done: all components but those above, and theorems for every property but those named
under "Only model-checked". Next, in this order:

1. `Roster` composed with `Session`: `disconnect()` leaves roster and presences
   behind; a refused change of the roster is applied; the second end tag that
   `onDocumentEnd()` sends after a `disconnect()`.
2. The ids of `getNextID()` with their width.
