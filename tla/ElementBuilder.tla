--------------------------- MODULE ElementBuilder ---------------------------
(***************************************************************************)
(* What judo::ElementStream makes of a text: the handlers that build the    *)
(* elements from the calls of expat, and two of its users, parseAtOnce()    *)
(* for a text in memory and FileStream for one in a file.                   *)
(*                                                                          *)
(* A stream is a record: the parser; the root, None before it is seen; the  *)
(* elements that are open below it; whether the document has ended; and the *)
(* nodes the listener was handed.                                           *)
(***************************************************************************)
EXTENDS Elements

Expat == INSTANCE XmlParse WITH InitBufferSize <- 1024, Unwritten <- "?"

None == [name |-> "none"]

Fresh == [parser |-> Expat!NewParser, root |-> None, stack |-> <<>>, ended |-> FALSE,
          handed |-> <<>>, asserted |-> FALSE]

-----------------------------------------------------------------------------
(* The handlers. *)

OnStartElement(st, name, attribs) ==
    IF st.root = None THEN [st EXCEPT !.root = Element(name, attribs)]
    ELSE [st EXCEPT !.stack = Append(@, Element(name, attribs))]

\* An element joins the one around it, or is handed over, or it was the root.
OnEndElement(st) ==
    LET n == Len(st.stack)
    IN CASE n = 0 -> [st EXCEPT !.ended = TRUE]
         [] n = 1 -> [st EXCEPT !.stack = <<>>, !.handed = Append(@, st.stack[1])]
         [] n > 1 -> [st EXCEPT !.stack = [Front(@) EXCEPT ![n - 1] = AppendChild(@, st.stack[n])]]

\* The text is unescaped once more, although expat has resolved the references in it.
OnCDATA(st, data) ==
    IF st.stack # <<>> THEN [st EXCEPT !.stack[Len(st.stack)] = AddCDATA(@, data, TRUE)]
    ELSE [st EXCEPT !.handed = Append(@, Text(Unescape(data)))]

Handle(st, event) ==
    CASE event[1] = "start" -> OnStartElement(st, Glued(event[2]),
                                   [i \in DOMAIN event[3] |-> <<Glued(event[3][i][1]), Glued(event[3][i][2])>>])
      [] event[1] = "data"  -> OnCDATA(st, Glued(event[2]))
      [] event[1] = "end"   -> OnEndElement(st)

Failed(st) == st.parser.error # "NONE"

\* push(): after the end of the document it asserts, after an error it is not called.
Push(st, data) ==
    LET told(p) == FoldLeft(Handle, [st EXCEPT !.parser = p], p.events)
    IN IF st.ended \/ st.asserted THEN [st EXCEPT !.asserted = TRUE]
       ELSE IF Failed(st) THEN st
       ELSE told(Expat!Parse([st.parser EXCEPT !.events = <<>>], Chars(data)))

PushAll(st, pieces) == FoldLeft(Push, st, pieces)

-----------------------------------------------------------------------------
(* The users. *)

\* What is handed over is put below the root; _root is NULL, or was deleted, if it is None.
WithKids(root, kids) == IF root = None THEN None ELSE [root EXCEPT !.kids = kids]

\* parseAtOnce(): what comes of the stream that all data was pushed to.  The sections of
\* data below the root are not joined.
AtOnce(st) ==
    CASE Failed(st) -> [thrown |-> "ParserError", root |-> None]
      [] ~Failed(st) /\ ~st.ended -> [thrown |-> "IncompleteParse", root |-> None]
      [] OTHER -> [thrown |-> "", root |-> WithKids(st.root, st.handed)]

\* The file as read() gives it, in chunks of so many bytes.
Chunks(data, chunk) ==
    [k \in 1..((Len(data) + chunk - 1) \div chunk) |->
        SubSeq(data, (k - 1) * chunk + 1, (LET end == k * chunk
                                           IN IF end < Len(data) THEN end ELSE Len(data)))]

\* FileStream::ParseFile(): what is pushed.
FilePieces(root_name, data, chunk) ==
    IF root_name = "" THEN Chunks(data, chunk)
    ELSE <<"<" \o root_name \o ">">> \o Chunks(data, chunk) \o <<"</" \o root_name \o ">">>

\* What ParseFile() and getRoot() return then: data below the root is dropped.
FileRead(st) ==
    [asserted |-> st.asserted, ok |-> ~Failed(st),
     root |-> IF Failed(st) THEN None ELSE WithKids(st.root, SelectSeq(st.handed, IsElement))]
=============================================================================
