------------------------ MODULE ElementStream_proofs ------------------------
(***************************************************************************)
(* For every bound and whether or not the listener resets the stream from   *)
(* its callbacks: as long as reset() is not called in the middle of a       *)
(* packet-level element, ElementStream keeps its place in the document and  *)
(* hands out each packet-level element once, in order.  For pieces of any   *)
(* size, the buffer of the parser under it loses nothing of the stream; and *)
(* its prolog keeps track of groups of a content model of any depth.        *)
(***************************************************************************)
EXTENDS ElementStream, BufferedParser, ContentModel, Lists_proofs

\* The open tags below the root.
Below(s) == IF s = <<>> THEN <<>> ELSE Tail(s)

\* The flag and the parser agree on whether the root was opened.
StartedInv ==
    /\ parser = "prolog" => ~started /\ open = <<>>
    /\ ~started => open = <<>> /\ parser \in {"prolog", "failed"}
    /\ parser = "content" => open # <<>>
    /\ parser = "epilog" => open = <<>>

\* The stack is the list of open tags; during onElement() it still holds the
\* element that is handed out.
StackInv ==
    /\ call # "onElement" => stack = Below(open)
    /\ call = "onElement" => Len(stack) = 1 /\ Len(open) <= 1

IInv == TypeOK /\ StartedInv /\ StackInv /\ DeliveredIsComplete

-----------------------------------------------------------------------------
\* Front, on which onEndElement pops, keeps all but the last element.
LEMMA FrontOfSeq ==
    ASSUME NEW S, NEW s \in Seq(S), s # <<>>
    PROVE  /\ Front(s) \in Seq(S)
           /\ Len(Front(s)) = Len(s) - 1
           /\ \A i \in 1..(Len(s) - 1) : Front(s)[i] = s[i]
<1>1. Len(s) \in Nat /\ Len(s) >= 1
  BY EmptySeq
<1>2. PICK n \in Nat : n = Len(s) - 1
  BY <1>1
<1>3. \A i \in 1..n : s[i] \in S
  BY <1>1, <1>2, ElementOfSeq
<1>4. /\ SubSeq(s, 1, n) \in Seq(S)
      /\ Len(SubSeq(s, 1, n)) = IF 1 <= n THEN n - 1 + 1 ELSE 0
      /\ \A i \in 1..(n - 1 + 1) : SubSeq(s, 1, n)[i] = s[1 + i - 1]
  BY <1>3, SubSeqProperties
<1>5. Front(s) = SubSeq(s, 1, n)
  BY <1>2 DEF Front
<1>6. Len(Front(s)) = n
  BY <1>4, <1>5
<1>7. ASSUME NEW i \in 1..n PROVE Front(s)[i] = s[i]
  <2>1. i \in 1..(n - 1 + 1) /\ 1 + i - 1 = i
    OBVIOUS
  <2> QED
    BY <1>4, <1>5, <2>1
<1> QED
  BY <1>2, <1>4, <1>5, <1>6, <1>7

\* Opening a tag within an open document pushes it below the root as well.
LEMMA BelowAppend ==
    ASSUME NEW s \in Seq(Nat), s # <<>>, NEW e \in Nat
    PROVE  Below(Append(s, e)) = Append(Below(s), e)
<1>1. Append(s, e) # <<>>
  BY AppendProperties
<1>2. Tail(Append(s, e)) = Append(Tail(s), e)
  BY HeadTailAppend
<1> QED
  BY <1>1, <1>2 DEF Below

\* Closing the innermost of two tags or more pops it below the root as well.
LEMMA BelowFront ==
    ASSUME NEW s \in Seq(Nat), Len(s) >= 2
    PROVE  Below(Front(s)) = Front(Below(s))
<1> DEFINE f == Front(s)
           t == Tail(s)
<1>1. Len(s) \in Nat /\ s # <<>>
  BY EmptySeq, LenProperties
<1>2. /\ t \in Seq(Nat)
      /\ Len(t) = Len(s) - 1
      /\ \A i \in 1..Len(t) : t[i] = s[i + 1]
  BY <1>1, HeadTailProperties
<1>3. /\ f \in Seq(Nat)
      /\ Len(f) = Len(s) - 1
      /\ \A i \in 1..(Len(s) - 1) : f[i] = s[i]
  BY <1>1, FrontOfSeq
<1> HIDE DEF f, t
<1>4. f # <<>> /\ t # <<>>
  BY <1>1, <1>2, <1>3, EmptySeq
<1>5. /\ Front(t) \in Seq(Nat)
      /\ Len(Front(t)) = Len(t) - 1
      /\ \A i \in 1..(Len(t) - 1) : Front(t)[i] = t[i]
  BY <1>2, <1>4, FrontOfSeq
<1>6. /\ Tail(f) \in Seq(Nat)
      /\ Len(Tail(f)) = Len(f) - 1
      /\ \A i \in 1..Len(Tail(f)) : Tail(f)[i] = f[i + 1]
  BY <1>3, <1>4, HeadTailProperties
<1>7. ASSUME NEW i \in 1..Len(Tail(f))
      PROVE  Tail(f)[i] = Front(t)[i]
  <2>1. /\ i \in 1..(Len(t) - 1) /\ i \in 1..Len(t)
        /\ i + 1 \in 1..(Len(s) - 1)
    <3>1. Len(t) \in Nat /\ Len(f) \in Nat /\ Len(Tail(f)) \in Nat
      BY <1>2, <1>3, <1>6, LenProperties
    <3>2. Len(s) = Len(t) + 1
      BY <1>1, <1>2, <3>1
    <3>3. Len(s) = Len(f) + 1
      BY <1>1, <1>3, <3>1
    <3>4. Len(f) = Len(Tail(f)) + 1
      BY <1>6, <3>1
    <3> QED
      BY <1>1, <3>1, <3>2, <3>3, <3>4
  <2>2. Tail(f)[i] = f[i + 1] /\ f[i + 1] = s[i + 1]
    BY <1>3, <1>6, <2>1
  <2>3. Front(t)[i] = t[i] /\ t[i] = s[i + 1]
    BY <1>2, <1>5, <2>1
  <2> QED
    BY <2>2, <2>3
<1>8. Tail(f) = Front(t)
  BY <1>2, <1>3, <1>5, <1>6, <1>7, SeqEqual
<1> QED
  BY <1>1, <1>4, <1>8 DEF Below, f, t

\* The depth of the document is that of the stack and the root.
LEMMA BelowLen ==
    ASSUME NEW s \in Seq(Nat)
    PROVE  /\ Below(s) \in Seq(Nat)
           /\ s # <<>> => Len(Below(s)) = Len(s) - 1
           /\ Len(s) < 2 => Below(s) = <<>>
           /\ Len(s) >= 2 => Below(s)[1] = s[2]
<1>1. CASE s = <<>>
  BY <1>1, EmptySeq DEF Below
<1>2. CASE s # <<>>
  <2>1. Len(s) \in Nat /\ Len(s) >= 1
    BY <1>2, EmptySeq
  <2>2. /\ Tail(s) \in Seq(Nat)
        /\ Len(Tail(s)) = Len(s) - 1
        /\ \A i \in 1..Len(Tail(s)) : Tail(s)[i] = s[i + 1]
    BY <1>2, HeadTailProperties
  <2>3. Len(s) < 2 => Tail(s) = <<>>
    BY <2>1, <2>2, EmptySeq
  <2>4. Len(s) >= 2 => Tail(s)[1] = s[2]
    BY <2>1, <2>2
  <2> QED
    BY <1>2, <2>2, <2>3, <2>4 DEF Below
<1> QED
  BY <1>1, <1>2

-----------------------------------------------------------------------------
\* A new ElementStream satisfies the invariant.
LEMMA InitIInv == Init => IInv
<1> SUFFICES ASSUME Init PROVE IInv
  OBVIOUS
<1> USE DEF Init
<1>1. TypeOK
  <2>1. <<>> \in Seq(Nat) /\ Len(<<>>) = 0 /\ {} \in SUBSET (Nat \X Nat) /\ 0 \in Nat
    OBVIOUS
  <2> QED
    BY <2>1 DEF TypeOK, Calls, Callbacks
<1>2. StartedInv /\ DeliveredIsComplete
  BY DEF StartedInv, DeliveredIsComplete
<1>3. StackInv
  BY DEF StackInv, Below
<1> QED
  BY <1>1, <1>2, <1>3 DEF IInv

\* Elements are numbers, 0 stands for none.
LEMMA InnermostInNat ==
    ASSUME stack \in Seq(Nat), open \in Seq(Nat)
    PROVE  Innermost \in Nat /\ Enclosing \in Nat
<1>1. ASSUME NEW s \in Seq(Nat), s # <<>> PROVE Last(s) \in Nat
  BY <1>1, LenProperties, EmptySeq, ElementOfSeq DEF Last
<1> QED
  BY <1>1 DEF Innermost, Enclosing

\* A start tag.
LEMMA StartTagIInv ==
    ASSUME IInv, StartTag
    PROVE  IInv'
<1> DEFINE e == counter + 1
<1>1. /\ TypeOK /\ StartedInv /\ StackInv /\ DeliveredIsComplete
      /\ stack \in Seq(Nat) /\ open \in Seq(Nat) /\ counter \in Nat /\ e \in Nat
  BY DEF IInv, TypeOK
<1>2. /\ call = "push" /\ parser \in {"prolog", "content"} /\ parser' = "content"
      /\ counter' = e /\ open' = Append(open, e)
      /\ nested' = Append(nested, Enclosing)
      /\ UNCHANGED <<ended, complete, delivered, text>>
  BY DEF StartTag
<1>3. Innermost \in Nat /\ Enclosing \in Nat
  BY <1>1, InnermostInNat
<1>4. /\ open' \in Seq(Nat) /\ open' # <<>> /\ Len(open') = Len(open) + 1
      /\ nested' \in Seq(Nat) /\ Len(nested') = counter'
  <2>1. nested \in Seq(Nat) /\ Len(nested) = counter
    BY <1>1 DEF TypeOK
  <2>2. /\ nested' \in Seq(Nat) /\ Len(nested') = counter'
    BY <1>2, <1>3, <2>1, AppendProperties
  <2> QED
    BY <1>1, <1>2, <2>2, AppendProperties
<1>5. CASE started
  <2>1. /\ stack' = Append(stack, e) /\ built' = Append(built, Innermost)
        /\ UNCHANGED <<started, call>>
    BY <1>5 DEF StartTag, AddElement
  <2>2. open # <<>> /\ stack = Below(open)
    BY <1>1, <1>2, <1>5 DEF StartedInv, StackInv
  <2>3. stack' = Below(open')
    BY <1>1, <1>2, <2>1, <2>2, BelowAppend
  <2>4. stack' \in Seq(Nat) /\ built' \in Seq(Nat) /\ Len(built') = counter'
    BY <1>1, <1>2, <1>3, <2>1, AppendProperties DEF TypeOK
  <2>5. TypeOK'
    BY <1>1, <1>2, <1>4, <2>1, <2>4 DEF TypeOK
  <2> QED
    BY <1>1, <1>2, <1>4, <1>5, <2>1, <2>3, <2>5
    DEF IInv, StartedInv, StackInv, DeliveredIsComplete
<1>6. CASE ~started
  <2>1. /\ started' = TRUE /\ built' = Append(built, 0)
        /\ call' = "onDocumentStart" /\ UNCHANGED stack
    BY <1>6 DEF StartTag, AddElement
  <2>2. open = <<>> /\ stack = <<>>
    BY <1>1, <1>2, <1>6 DEF StartedInv, StackInv, Below
  <2>3. stack' = Below(open')
    <3>1. Len(open') < 2
      BY <1>4, <2>2, EmptySeq
    <3> QED
      BY <1>4, <2>1, <2>2, <3>1, BelowLen
  <2>4. built' \in Seq(Nat) /\ Len(built') = counter'
    BY <1>1, <1>2, <2>1, AppendProperties DEF TypeOK
  <2>5. TypeOK'
    BY <1>1, <1>2, <1>4, <2>1, <2>4 DEF TypeOK, Calls, Callbacks
  <2> QED
    BY <1>1, <1>2, <1>4, <2>1, <2>3, <2>5
    DEF IInv, StartedInv, StackInv, DeliveredIsComplete
<1> QED
  BY <1>5, <1>6

\* An end tag: the three cases of onEndElement are the end of a packet-level
\* element, of the root, and of an element further in.
LEMMA EndTagIInv ==
    ASSUME IInv, EndTag
    PROVE  IInv'
<1>1. TypeOK /\ StartedInv /\ StackInv /\ DeliveredIsComplete
  BY DEF IInv
<1>2. /\ call = "push" /\ parser = "content" /\ open' = Front(open)
      /\ parser' = IF Len(open) = 1 THEN "epilog" ELSE "content"
      /\ complete' = IF Len(open) = 2 THEN Append(complete, open[2]) ELSE complete
      /\ UNCHANGED <<started, ended, built, counter, nested, text>>
  BY DEF EndTag
<1>3. /\ open \in Seq(Nat) /\ open # <<>> /\ Len(open) \in Nat /\ Len(open) >= 1
      /\ stack \in Seq(Nat) /\ Len(stack) \in Nat
      /\ delivered \in Seq(Nat) /\ complete \in Seq(Nat)
  BY <1>1, <1>2, LenProperties, EmptySeq DEF TypeOK, StartedInv
<1>4. /\ stack = Below(open)
      /\ Len(stack) = Len(open) - 1
      /\ Len(open) >= 2 => stack[1] = open[2]
  BY <1>1, <1>2, <1>3, BelowLen DEF StackInv
<1>5. open' \in Seq(Nat) /\ Len(open') = Len(open) - 1
  BY <1>2, <1>3, FrontOfSeq
<1> DEFINE depth == Len(open)
<1>d. /\ depth \in Nat /\ Len(stack) \in Nat /\ Len(open') \in Nat
      /\ depth = Len(stack) + 1 /\ Len(open') = Len(stack)
  BY <1>3, <1>4, <1>5, LenProperties
<1> HIDE DEF depth
<1>6. (open' = <<>>) <=> (depth = 1)
  <2>1. (open' = <<>>) <=> (Len(open') = 0)
    BY <1>5, EmptySeq
  <2> QED
    BY <1>d, <2>1
<1>7. started
  BY <1>1, <1>2 DEF StartedInv
<1>8. StartedInv'
  BY <1>1, <1>2, <1>6, <1>7 DEF StartedInv, depth
<1>9. CASE Len(stack) = 1
  <2>1. depth = 2 /\ Len(open') = 1
    BY <1>d, <1>9
  <2>2. /\ call' = "onElement" /\ stack' = stack
        /\ delivered' = Append(delivered, stack[1])
    BY <1>9 DEF EndTag, PacketSize
  <2>3. complete' = Append(complete, open[2]) /\ stack[1] = open[2]
    BY <1>2, <1>4, <2>1 DEF depth
  <2>4. open[2] \in Nat
    <3>1. 2 \in 1..Len(open)
      BY <2>1 DEF depth
    <3> QED
      BY <1>3, <3>1, ElementOfSeq
  <2>5. delivered' \in Seq(Nat) /\ complete' \in Seq(Nat)
    BY <1>3, <2>2, <2>3, <2>4, AppendProperties
  <2>6. TypeOK'
    BY <1>1, <1>2, <1>5, <2>2, <2>5 DEF TypeOK, Calls, Callbacks
  <2> QED
    BY <1>1, <1>8, <1>9, <2>1, <2>2, <2>3, <2>6
    DEF IInv, StackInv, DeliveredIsComplete
<1>10. CASE Len(stack) = 0
  <2>1. depth = 1 /\ open' = <<>> /\ stack = <<>>
    BY <1>d, <1>3, <1>6, <1>10, EmptySeq
  <2>2. call' = "onDocumentEnd" /\ UNCHANGED <<stack, delivered>>
    BY <1>10 DEF EndTag, PacketSize
  <2>3. complete' = complete
    BY <1>2, <2>1 DEF depth
  <2>4. TypeOK'
    BY <1>1, <1>2, <1>5, <2>2, <2>3 DEF TypeOK, Calls, Callbacks
  <2> QED
    BY <1>1, <1>8, <2>1, <2>2, <2>3, <2>4
    DEF IInv, StackInv, Below, DeliveredIsComplete
<1>11. CASE Len(stack) \notin {0, 1}
  <2>1. depth > 2 /\ stack # <<>>
    BY <1>d, <1>11, EmptySeq
  <2>2. stack' = Front(stack) /\ UNCHANGED <<call, delivered>>
    BY <1>11 DEF EndTag, PacketSize
  <2>3. complete' = complete
    <3>1. depth # 2
      BY <1>d, <2>1
    <3> QED
      BY <1>2, <3>1 DEF depth
  <2>4. stack' \in Seq(Nat)
    BY <1>3, <2>1, <2>2, FrontOfSeq
  <2>5. stack' = Below(open')
    BY <1>2, <1>3, <1>4, <2>1, <2>2, BelowFront DEF depth
  <2>6. TypeOK'
    BY <1>1, <1>2, <1>5, <2>2, <2>3, <2>4 DEF TypeOK, Calls, Callbacks
  <2> QED
    BY <1>1, <1>2, <1>8, <2>2, <2>3, <2>5, <2>6
    DEF IInv, StackInv, DeliveredIsComplete
<1> QED
  BY <1>9, <1>10, <1>11

\* Character data.
LEMMA CharacterDataIInv ==
    ASSUME IInv, CharacterData
    PROVE  IInv'
<1> USE DEF IInv, CharacterData
<1>1. Innermost \in Nat /\ Enclosing \in Nat
  BY InnermostInNat DEF TypeOK
<1>2. TypeOK'
  BY <1>1 DEF TypeOK, Calls, Callbacks, classVars, expatVars
<1> QED
  BY <1>2 DEF StartedInv, StackInv, DeliveredIsComplete, classVars, expatVars

\* The return of a callback; that of onElement() pops the element handed out.
LEMMA CallbackReturnsIInv ==
    ASSUME IInv, CallbackReturns
    PROVE  IInv'
<1> USE DEF IInv, CallbackReturns, expatVars, history
<1>1. CASE call = "onElement"
  <2>1. Len(stack) = 1 /\ stack # <<>> /\ Len(open) < 2
    <3>1. Len(stack) = 1 /\ Len(open) <= 1 /\ stack \in Seq(Nat) /\ open \in Seq(Nat)
      BY <1>1 DEF StackInv, TypeOK
    <3> QED
      BY <3>1, EmptySeq, LenProperties
  <2>2. stack' \in Seq(Nat) /\ Len(stack') = 0
    <3>1. stack \in Seq(Nat) /\ stack' = Front(stack)
      BY <1>1 DEF TypeOK
    <3> QED
      BY <2>1, <3>1, FrontOfSeq
  <2>3. stack' = <<>> /\ Below(open') = <<>>
    BY <2>1, <2>2, BelowLen, EmptySeq DEF TypeOK
  <2>4. TypeOK'
    BY <1>1, <2>2 DEF TypeOK, Calls
  <2> QED
    BY <1>1, <2>3, <2>4 DEF StartedInv, StackInv, DeliveredIsComplete
<1>2. CASE call # "onElement"
  <2>1. TypeOK'
    BY <1>2 DEF TypeOK, Calls
  <2> QED
    BY <1>2, <2>1 DEF StartedInv, StackInv, DeliveredIsComplete
<1> QED
  BY <1>1, <1>2

\* reset(), with no packet-level element open.
LEMMA ResetIInv ==
    ASSUME MidStanza = FALSE, IInv, Reset
    PROVE  IInv'
<1> USE DEF IInv, Reset, history
<1>1. Len(open) < 2 /\ Below(open) = <<>>
  BY BelowLen DEF TypeOK
<1>2. Below(<<>>) = <<>> /\ Len(<<>>) = 0
  BY DEF Below
<1>3. TypeOK'
  <2>1. <<>> \in Seq(Nat)
    OBVIOUS
  <2> QED
    BY <2>1 DEF TypeOK
<1> QED
  BY <1>1, <1>2, <1>3 DEF StartedInv, StackInv, DeliveredIsComplete

\* Every step keeps the invariant.
LEMMA NextIInv ==
    ASSUME MidStanza = FALSE, IInv, [Next]_vars
    PROVE  IInv'
<1>1. CASE Push
  BY <1>1 DEF Push, IInv, TypeOK, StartedInv, StackInv, DeliveredIsComplete,
              Calls, classVars, expatVars, history
<1>2. CASE PushReturns
  BY <1>2 DEF PushReturns, IInv, TypeOK, StartedInv, StackInv,
              DeliveredIsComplete, Calls, classVars, expatVars, history
<1>3. CASE PushThrows
  BY <1>3 DEF PushThrows, IInv, TypeOK, StartedInv, StackInv,
              DeliveredIsComplete, Calls, classVars, history
<1>4. CASE StartTag
  BY <1>4, StartTagIInv
<1>5. CASE EndTag
  BY <1>5, EndTagIInv
<1>6. CASE CharacterData
  BY <1>6, CharacterDataIInv
<1>7. CASE CallbackReturns
  BY <1>7, CallbackReturnsIInv
<1>8. CASE Reset
  BY <1>8, ResetIInv
<1>9. CASE UNCHANGED vars
  BY <1>9 DEF vars, IInv, TypeOK, StartedInv, StackInv, DeliveredIsComplete
<1> QED
  BY <1>1, <1>2, <1>3, <1>4, <1>5, <1>6, <1>7, <1>8, <1>9 DEF Next

-----------------------------------------------------------------------------
\* The invariant holds throughout.
THEOREM Invariance ==
    ASSUME MidStanza = FALSE
    PROVE  Spec => []IInv
<1>1. Init => IInv
  BY InitIInv
<1>2. IInv /\ [Next]_vars => IInv'
  BY NextIInv
<1> QED
  BY <1>1, <1>2, PTL DEF Spec

\* onStartElement and onEndElement, which see a stack and a flag and nothing of
\* the document, know at any depth where in the document they are.
THEOREM StackTracksDocumentAlways ==
    ASSUME MidStanza = FALSE
    PROVE  Spec => []StackTracksDocument
<1>1. IInv => StackTracksDocument
  BY DEF IInv, StackInv, StackTracksDocument, Below
<1> QED
  BY <1>1, Invariance, PTL

\* Each packet-level element of every stream is handed out once, when it is
\* complete and in order.
THEOREM DeliveredIsCompleteAlways ==
    ASSUME MidStanza = FALSE
    PROVE  Spec => []DeliveredIsComplete
<1>1. IInv => DeliveredIsComplete
  BY DEF IInv
<1> QED
  BY <1>1, Invariance, PTL

-----------------------------------------------------------------------------
\* Below the root the element around a text or an element is the last on the stack,
\* and none at the root.
LEMMA InnermostIsEnclosing ==
    ASSUME TypeOK, stack = Below(open)
    PROVE  /\ Enclosing = IF open = <<>> THEN 0 ELSE open[Len(open)]
           /\ Innermost = IF Len(open) < 2 THEN 0 ELSE open[Len(open)]
           /\ Len(open) \in Nat /\ (open = <<>> <=> Len(open) = 0)
<1>1. open \in Seq(Nat) /\ Len(open) \in Nat /\ (open = <<>> <=> Len(open) = 0)
  BY LenProperties, EmptySeq DEF TypeOK
<1>2. CASE Len(open) < 2
  BY <1>1, <1>2, BelowLen DEF Enclosing, Innermost, Last
<1>3. CASE Len(open) >= 2
  <2>1. /\ stack = Tail(open) /\ Len(stack) = Len(open) - 1
        /\ stack[Len(open) - 1] = open[Len(open)]
    <3>1. /\ Tail(open) \in Seq(Nat) /\ Len(Tail(open)) = Len(open) - 1
          /\ \A i \in 1..Len(Tail(open)) : Tail(open)[i] = open[i + 1]
      BY <1>1, <1>3, HeadTailProperties
    <3>2. Len(open) - 1 \in 1..Len(Tail(open)) /\ (Len(open) - 1) + 1 = Len(open)
      BY <1>1, <1>3, <3>1
    <3>3. Tail(open)[Len(open) - 1] = open[(Len(open) - 1) + 1]
      BY <3>1, <3>2
    <3> QED  BY <1>1, <1>3, <3>1, <3>2, <3>3 DEF Below
  <2>2. stack # <<>>
    <3>1. Len(stack) # 0 /\ Len(<<>>) = 0
      BY <1>1, <1>3, <2>1
    <3> QED  BY <3>1
  <2> QED  BY <1>1, <1>3, <2>1, <2>2 DEF Enclosing, Innermost, Last
<1> QED  BY <1>1, <1>2, <1>3

\* The open tags are a path of the document, and what was recorded of the document
\* is about elements that were begun.
PathInv ==
    /\ \A i \in 1..Len(open) : /\ open[i] \in 1..counter
                               /\ nested[open[i]] = IF i = 1 THEN 0 ELSE open[i - 1]
    /\ \A e \in 1..counter : nested[e] \in 0..counter
    /\ \A t \in text : t[2] \in 0..counter

TreeInv == PathInv /\ TreeIsDocument

\* The parent that onStartElement and onCDATA find on the stack is the right one.
LEMMA ParentIsRight ==
    ASSUME IInv, PathInv, call = "push"
    PROVE  /\ Enclosing \in 0..counter
           /\ Innermost = IF Enclosing # 0 /\ nested[Enclosing] # 0 THEN Enclosing ELSE 0
<1>1. /\ Enclosing = IF open = <<>> THEN 0 ELSE open[Len(open)]
      /\ Innermost = IF Len(open) < 2 THEN 0 ELSE open[Len(open)]
      /\ Len(open) \in Nat /\ (open = <<>> <=> Len(open) = 0)
  BY InnermostIsEnclosing DEF IInv, StackInv
<1>2. counter \in Nat
  BY DEF IInv, TypeOK
<1>3. CASE Len(open) = 0
  BY <1>1, <1>2, <1>3
<1>4. CASE Len(open) = 1
  BY <1>1, <1>2, <1>4 DEF PathInv
<1>5. CASE Len(open) > 1
  <2>1. /\ Len(open) \in 1..Len(open) /\ Len(open) - 1 \in 1..Len(open)
        /\ Len(open) # 1
    BY <1>1, <1>5
  <2>2. /\ open[Len(open)] \in 1..counter /\ open[Len(open) - 1] \in 1..counter
        /\ nested[open[Len(open)]] = open[Len(open) - 1]
    BY <2>1 DEF PathInv
  <2> QED  BY <1>1, <1>2, <1>5, <2>2
<1> QED  BY <1>1, <1>3, <1>4, <1>5

\* A start tag puts the new element into its parent.
LEMMA StartTagTree ==
    ASSUME IInv, TreeInv, StartTag
    PROVE  TreeInv'
<1> DEFINE e == counter + 1
<1>1. /\ call = "push" /\ counter' = e /\ open' = Append(open, e)
      /\ nested' = Append(nested, Enclosing) /\ text' = text
      /\ built' = Append(built, IF started THEN Innermost ELSE 0)
  BY DEF StartTag, AddElement
<1>2. /\ counter \in Nat /\ open \in Seq(Nat) /\ nested \in Seq(Nat) /\ built \in Seq(Nat)
      /\ Len(nested) = counter /\ Len(built) = counter
  BY DEF IInv, TypeOK
<1>3. /\ Enclosing \in 0..counter /\ Enclosing \in Nat /\ Innermost \in Nat
      /\ Innermost = IF Enclosing # 0 /\ nested[Enclosing] # 0 THEN Enclosing ELSE 0
  BY <1>1, <1>2, ParentIsRight, InnermostInNat DEF TreeInv
<1>4. ~started => open = <<>> /\ Enclosing = 0 /\ Innermost = 0
  BY <1>3 DEF IInv, StartedInv, Enclosing
<1>5. built' = Append(built, Innermost)
  BY <1>1, <1>4
<1>6. /\ \A i \in 1..counter : nested'[i] = nested[i] /\ built'[i] = built[i]
      /\ nested'[e] = Enclosing /\ built'[e] = Innermost
  BY <1>1, <1>2, <1>3, <1>5, AppendProperties
<1>7. \A n \in 1..counter' : nested'[n] \in 0..counter'
  BY <1>1, <1>2, <1>3, <1>6 DEF TreeInv, PathInv
<1>8. \A t \in text' : t[2] \in 0..counter'
  BY <1>1, <1>2 DEF TreeInv, PathInv
<1>9. ASSUME NEW i \in 1..Len(open')
      PROVE  /\ open'[i] \in 1..counter'
             /\ nested'[open'[i]] = IF i = 1 THEN 0 ELSE open'[i - 1]
  <2>1. /\ Len(open) \in Nat /\ Len(open') = Len(open) + 1 /\ open'[Len(open) + 1] = e
        /\ \A k \in 1..Len(open) : open'[k] = open[k]
    BY <1>1, <1>2, LenProperties, AppendProperties
  <2>2. CASE i = Len(open) + 1
    <3>1. CASE Len(open) = 0
      <4>1. open = <<>>
        BY <1>2, <3>1, EmptySeq
      <4> QED  BY <1>1, <1>2, <1>6, <2>1, <2>2, <3>1, <4>1 DEF Enclosing
    <3>2. CASE Len(open) # 0
      <4>1. open # <<>> /\ i # 1 /\ i - 1 = Len(open) /\ Len(open) \in 1..Len(open)
        BY <2>1, <2>2, <3>2
      <4>2. Enclosing = open[Len(open)]
        BY <4>1 DEF Enclosing, Last
      <4>3. open'[i] = e /\ open'[i - 1] = open[Len(open)]
        BY <2>1, <2>2, <4>1
      <4> QED  BY <1>1, <1>2, <1>6, <4>1, <4>2, <4>3
    <3> QED  BY <3>1, <3>2
  <2>3. CASE i # Len(open) + 1
    <3>1. i \in 1..Len(open) /\ open'[i] = open[i]
      BY <2>1, <2>3
    <3>2. i # 1 => i - 1 \in 1..Len(open) /\ open'[i - 1] = open[i - 1]
      BY <2>1, <3>1
    <3>3. open[i] \in 1..counter /\ nested[open[i]] = IF i = 1 THEN 0 ELSE open[i - 1]
      BY <3>1 DEF TreeInv, PathInv
    <3>4. nested'[open'[i]] = nested[open[i]] /\ open'[i] \in 1..counter'
      BY <1>1, <1>2, <1>6, <3>1, <3>3
    <3> QED  BY <3>2, <3>3, <3>4
  <2> QED  BY <2>2, <2>3
<1>10. \A n \in 1..counter' :
          built'[n] = IF nested'[n] # 0 /\ nested'[nested'[n]] # 0 THEN nested'[n] ELSE 0
  <2> SUFFICES ASSUME NEW n \in 1..counter'
               PROVE  built'[n] = IF nested'[n] # 0 /\ nested'[nested'[n]] # 0
                                  THEN nested'[n] ELSE 0
    OBVIOUS
  <2>1. CASE n = e
    BY <1>2, <1>3, <1>6, <2>1
  <2>2. CASE n # e
    <3>1. n \in 1..counter
      BY <1>1, <1>2, <2>2
    <3>2. /\ nested[n] \in 0..counter
          /\ built[n] = IF nested[n] # 0 /\ nested[nested[n]] # 0 THEN nested[n] ELSE 0
      BY <3>1 DEF TreeInv, PathInv, TreeIsDocument
    <3> QED  BY <1>2, <1>6, <3>1, <3>2
  <2> QED  BY <2>1, <2>2
<1>11. \A t \in text' : t[1] = IF t[2] # 0 /\ nested'[t[2]] # 0 THEN t[2] ELSE 0
  <2> SUFFICES ASSUME NEW t \in text
               PROVE  t[1] = IF t[2] # 0 /\ nested'[t[2]] # 0 THEN t[2] ELSE 0
    BY <1>1
  <2>1. /\ t[2] \in 0..counter
        /\ t[1] = IF t[2] # 0 /\ nested[t[2]] # 0 THEN t[2] ELSE 0
    BY DEF TreeInv, PathInv, TreeIsDocument
  <2> QED  BY <1>2, <1>6, <2>1
<1> QED  BY <1>7, <1>8, <1>9, <1>10, <1>11 DEF TreeInv, PathInv, TreeIsDocument

\* The other steps: character data is added to the innermost element, an end tag
\* takes the last element off the path, and reset() all of them.
LEMMA StepTree ==
    ASSUME IInv, TreeInv, [Next]_vars
    PROVE  TreeInv'
<1> USE DEF TreeInv, classVars, expatVars, history
<1>1. ASSUME UNCHANGED <<open, counter, nested, built, text>> PROVE TreeInv'
  BY <1>1 DEF PathInv, TreeIsDocument
<1>2. CASE EndTag
  <2>1. /\ open \in Seq(Nat) /\ open # <<>> /\ Len(open) \in Nat
        /\ open' = Front(open) /\ UNCHANGED <<counter, nested, built, text>>
    BY <1>2, LenProperties DEF EndTag, IInv, TypeOK, StartedInv
  <2>2. /\ Len(open') = Len(open) - 1
        /\ \A i \in 1..(Len(open) - 1) : open'[i] = open[i]
    BY <2>1, FrontOfSeq
  <2>3. ASSUME NEW i \in 1..Len(open')
        PROVE  /\ open'[i] \in 1..counter
               /\ nested[open'[i]] = IF i = 1 THEN 0 ELSE open'[i - 1]
    <3>1. i \in 1..Len(open) /\ open'[i] = open[i]
      BY <2>1, <2>2
    <3>2. i # 1 => open'[i - 1] = open[i - 1]
      <4>1. i # 1 => i - 1 \in 1..(Len(open) - 1)
        BY <2>1, <2>2
      <4> QED  BY <2>2, <4>1
    <3> QED  BY <3>1, <3>2 DEF PathInv
  <2> QED  BY <2>1, <2>3 DEF PathInv, TreeIsDocument
<1>3. CASE CharacterData
  <2>1. /\ call = "push" /\ text' = text \union {<<Innermost, Enclosing>>}
        /\ UNCHANGED <<open, counter, nested, built>>
    BY <1>3 DEF CharacterData
  <2>2. /\ Enclosing \in 0..counter
        /\ Innermost = IF Enclosing # 0 /\ nested[Enclosing] # 0 THEN Enclosing ELSE 0
    BY <2>1, ParentIsRight
  <2> QED  BY <2>1, <2>2 DEF PathInv, TreeIsDocument
<1>4. CASE Reset
  <2>1. open' = <<>> /\ Len(open') = 0 /\ UNCHANGED <<counter, nested, built, text>>
    BY <1>4 DEF Reset
  <2> QED  BY <2>1 DEF PathInv, TreeIsDocument
<1>5. CASE StartTag
  BY <1>5, StartTagTree
<1>6. CASE Push \/ PushReturns \/ PushThrows \/ CallbackReturns
  BY <1>1, <1>6 DEF Push, PushReturns, PushThrows, CallbackReturns
<1>7. CASE UNCHANGED vars
  BY <1>1, <1>7 DEF vars
<1> QED  BY <1>2, <1>3, <1>4, <1>5, <1>6, <1>7 DEF Next

\* The tree of elements that is handed out is the one in the document, for elements
\* and text at any depth: onStartElement and onCDATA put what comes into the element
\* around it, which is on top of the stack.
THEOREM TreeIsDocumentAlways ==
    ASSUME MidStanza = FALSE
    PROVE  Spec => []TreeIsDocument
<1>1. Init => TreeInv
  BY DEF Init, TreeInv, PathInv, TreeIsDocument
<1>2. IInv /\ TreeInv /\ [Next]_vars => TreeInv'
  BY StepTree
<1>3. TreeInv => TreeIsDocument
  BY DEF TreeInv
<1> QED  BY <1>1, <1>2, <1>3, Invariance, PTL DEF Spec

-----------------------------------------------------------------------------
\* The flag that push() asserts is set behind the last element of a document and
\* by nothing else.
EndedInv ==
    /\ ended => parser \in {"epilog", "failed"}
    /\ call = "onDocumentEnd" => parser = "epilog"
    /\ AbortsOnlyAfterEnd

\* push() only stops a caller who pushes behind the end: kept by every step.
LEMMA StepEnded ==
    ASSUME InCallback = FALSE, IInv, EndedInv, [Next]_vars
    PROVE  EndedInv'
<1> USE DEF EndedInv, AbortsOnlyAfterEnd, classVars, expatVars, history, Callbacks
<1>1. CASE EndTag
  <2>1. /\ call = "push" /\ parser = "content" /\ ended' = ended
        /\ parser' = IF Len(open) = 1 THEN "epilog" ELSE "content"
        /\ call' \in {"push", "onElement", "onDocumentEnd"}
        /\ call' = "onDocumentEnd" => Len(stack) = 0
    BY <1>1 DEF EndTag, PacketSize
  <2>2. ASSUME Len(stack) = 0 PROVE Len(open) = 1
    <3>1. open \in Seq(Nat) /\ open # <<>> /\ stack = Below(open) /\ stack \in Seq(Nat)
      BY <2>1 DEF IInv, TypeOK, StartedInv, StackInv
    <3>2. Len(Below(open)) = Len(open) - 1 /\ Len(open) \in Nat
      BY <3>1, BelowLen, LenProperties
    <3> QED  BY <2>2, <3>1, <3>2
  <2> QED  BY <2>1, <2>2
<1>2. CASE Push
  BY <1>2 DEF Push
<1>3. CASE PushReturns
  BY <1>3 DEF PushReturns
<1>4. CASE PushThrows
  BY <1>4 DEF PushThrows
<1>5. CASE StartTag
  BY <1>5 DEF StartTag
<1>6. CASE CharacterData
  BY <1>6 DEF CharacterData
<1>7. CASE CallbackReturns
  BY <1>7 DEF CallbackReturns
<1>8. CASE Reset
  BY <1>8 DEF Reset
<1>9. CASE UNCHANGED vars
  BY <1>9 DEF vars
<1> QED  BY <1>1, <1>2, <1>3, <1>4, <1>5, <1>6, <1>7, <1>8, <1>9 DEF Next

\* A new parser accepts data: unless reset() is called from onDocumentEnd(), behind
\* which the flag is set, the assertion of push() fails at the end of a document only.
THEOREM AbortsOnlyAfterEndAlways ==
    ASSUME MidStanza = FALSE, InCallback = FALSE
    PROVE  Spec => []AbortsOnlyAfterEnd
<1>1. Init => EndedInv
  BY DEF Init, EndedInv, AbortsOnlyAfterEnd
<1>2. IInv /\ EndedInv /\ [Next]_vars => EndedInv'
  BY StepEnded
<1>3. EndedInv => AbortsOnlyAfterEnd
  BY DEF EndedInv
<1> QED  BY <1>1, <1>2, <1>3, Invariance, PTL DEF Spec

-----------------------------------------------------------------------------
\* The newest element of the abstract specification.
Newest == IF delivered = <<>> THEN 0 ELSE delivered[Len(delivered)]

\* What is open below the root was begun after everything that was handed out.
NewestInv ==
    /\ Newest \in 0..counter
    /\ \A i \in 1..Len(open) : open[i] \in 1..counter
    /\ \A i \in 2..Len(open) : Newest < open[i]

\* The contract's order: kept by every step.
LEMMA StepNewest ==
    ASSUME MidStanza = FALSE, IInv, NewestInv, [Next]_vars
    PROVE  NewestInv'
<1> USE DEF NewestInv, classVars, expatVars, history
<1>1. /\ open \in Seq(Nat) /\ delivered \in Seq(Nat) /\ counter \in Nat
      /\ Len(open) \in Nat /\ Newest \in Nat
  BY LenProperties DEF IInv, TypeOK
<1>2. ASSUME UNCHANGED <<delivered, counter, open>> PROVE NewestInv'
  BY <1>2 DEF Newest
<1>3. CASE StartTag
  <2>1. /\ counter' = counter + 1 /\ open' = Append(open, counter + 1)
        /\ Newest' = Newest
    BY <1>3 DEF StartTag, Newest
  <2>2. /\ Len(open') = Len(open) + 1 /\ open'[Len(open) + 1] = counter + 1
        /\ \A i \in 1..Len(open) : open'[i] = open[i]
    BY <1>1, <2>1, AppendProperties
  <2>3. ASSUME NEW i \in 1..Len(open')
        PROVE  open'[i] \in 1..counter' /\ (i # 1 => Newest < open'[i])
    <3>1. CASE i = Len(open) + 1
      BY <1>1, <2>1, <2>2, <3>1
    <3>2. CASE i # Len(open) + 1
      <4>1. i \in 1..Len(open) /\ (i # 1 => i \in 2..Len(open))
        BY <1>1, <2>2, <3>2
      <4>2. open'[i] = open[i] /\ open[i] \in 1..counter /\ (i # 1 => Newest < open[i])
        BY <2>2, <4>1
      <4> QED  BY <1>1, <2>1, <4>2
    <3> QED  BY <3>1, <3>2
  <2>4. \A i \in 2..Len(open') : i \in 1..Len(open') /\ i # 1
    BY <1>1, <2>2
  <2> QED  BY <1>1, <2>1, <2>3, <2>4
<1>4. CASE EndTag
  <2>1. /\ open # <<>> /\ open' = Front(open) /\ counter' = counter
        /\ stack = Below(open) /\ stack \in Seq(Nat)
        /\ \/ delivered' = delivered
           \/ Len(stack) = 1 /\ delivered' = Append(delivered, stack[1])
    BY <1>4 DEF EndTag, PacketSize, IInv, TypeOK, StartedInv, StackInv
  <2>2. /\ Len(open') = Len(open) - 1
        /\ \A i \in 1..(Len(open) - 1) : open'[i] = open[i]
    BY <1>1, <2>1, FrontOfSeq
  <2>3. \A i \in 1..Len(open') : open'[i] \in 1..counter
    BY <1>1, <2>2
  <2>4. CASE delivered' = delivered
    <3>1. Newest' = Newest
      BY <2>4 DEF Newest
    <3>2. \A i \in 2..Len(open') : i \in 2..Len(open) /\ i \in 1..(Len(open) - 1)
      BY <1>1, <2>2
    <3> QED  BY <2>1, <2>2, <2>3, <3>1, <3>2
  <2>5. CASE Len(stack) = 1 /\ delivered' = Append(delivered, stack[1])
    <3> HIDE DEF NewestInv
    <3>0. Len(stack) = Len(open) - 1 /\ (Len(open) >= 2 => stack[1] = open[2])
      BY <1>1, <2>1, BelowLen
    <3>1. Len(open) = 2 /\ delivered' = Append(delivered, open[2])
      <4>1. Len(stack) = 1 /\ Len(open) \in Nat
        BY <1>1, <2>5
      <4>2. Len(open) = 2
        <5> DEFINE depth == Len(open)
        <5>1. depth \in Nat /\ 1 = depth - 1
          BY <3>0, <4>1
        <5> HIDE DEF depth
        <5>2. depth = 2
          BY <5>1
        <5> QED  BY <5>2 DEF depth
      <4>3. stack[1] = open[2]
        BY <3>0, <4>2
      <4> QED  BY <2>5, <4>2, <4>3
    <3>2. open[2] \in 1..counter /\ open[2] \in Nat
      BY <1>1, <3>1 DEF NewestInv
    <3>3. /\ Len(delivered') = Len(delivered) + 1
          /\ delivered'[Len(delivered) + 1] = open[2]
          /\ delivered' # <<>>
      <4>1. delivered \in Seq(Nat) /\ open[2] \in Nat
        BY <1>1, <3>2
      <4>2. /\ Len(Append(delivered, open[2])) = Len(delivered) + 1
            /\ Append(delivered, open[2])[Len(delivered) + 1] = open[2]
            /\ Append(delivered, open[2]) # <<>>
        BY <4>1, AppendProperties
      <4> QED  BY <3>1, <4>2, Zenon
    <3>4. Newest' = open[2]
      BY <3>1, <3>3 DEF Newest
    <3>5. \A i \in 2..Len(open') : FALSE
      BY <2>2, <3>1
    <3> QED  BY <1>1, <2>1, <2>3, <3>2, <3>4, <3>5 DEF NewestInv
  <2> QED  BY <2>1, <2>4, <2>5
<1>5. CASE Reset
  <2>1. open' = <<>> /\ Len(open') = 0 /\ UNCHANGED <<delivered, counter>>
    BY <1>5 DEF Reset
  <2> QED  BY <2>1 DEF Newest
<1>6. CASE Push \/ PushReturns \/ PushThrows \/ CharacterData \/ CallbackReturns
  BY <1>2, <1>6 DEF Push, PushReturns, PushThrows, CharacterData, CallbackReturns
<1>7. CASE UNCHANGED vars
  BY <1>2, <1>7 DEF vars
<1> QED  BY <1>3, <1>4, <1>5, <1>6, <1>7 DEF Next

\* A step of the class is a notification of the stream, or none.
LEMMA StepImplements ==
    ASSUME MidStanza = FALSE, IInv, NewestInv, [Next]_vars
    PROVE  [Stream!Next]_Stream!vars
<1> USE DEF classVars, expatVars, history
<1>1. ASSUME UNCHANGED <<parser, started, delivered>> PROVE UNCHANGED Stream!vars
  BY <1>1 DEF Stream!vars
<1>2. CASE PushThrows
  <2>1. parser' = "failed" /\ UNCHANGED delivered
    BY <1>2 DEF PushThrows
  <2>2. Stream!ParserError
    BY <2>1 DEF Stream!ParserError
  <2> QED  BY <2>2 DEF Stream!Next
<1>3. CASE Reset
  <2>1. parser' = "prolog" /\ started' = FALSE /\ UNCHANGED delivered
    BY <1>3 DEF Reset
  <2>2. Stream!Reset
    BY <2>1 DEF Stream!Reset
  <2> QED  BY <2>2 DEF Stream!Next
<1>4. CASE StartTag
  <2>1. parser' = "content" /\ UNCHANGED delivered /\ started'
        /\ parser \in {"prolog", "content"}
    BY <1>4 DEF StartTag
  <2>2. CASE started
    <3>1. parser = "content"
      BY <2>1, <2>2 DEF IInv, StartedInv
    <3> QED  BY <2>1, <2>2, <3>1 DEF Stream!vars
  <2>3. CASE ~started
    <3>1. Stream!DocumentStart
      BY <2>1, <2>3 DEF Stream!DocumentStart
    <3> QED  BY <3>1 DEF Stream!Next
  <2> QED  BY <2>2, <2>3
<1>5. CASE EndTag
  <2>1. /\ parser = "content" /\ call = "push" /\ UNCHANGED started
        /\ parser' = IF Len(open) = 1 THEN "epilog" ELSE "content"
    BY <1>5 DEF EndTag
  <2>2. /\ started /\ open # <<>> /\ stack = Below(open) /\ stack \in Seq(Nat)
        /\ open \in Seq(Nat) /\ delivered \in Seq(Nat) /\ Len(open) \in Nat
    BY <2>1, LenProperties DEF IInv, TypeOK, StartedInv, StackInv
  <2>3. Len(stack) = Len(open) - 1 /\ (Len(open) >= 2 => stack[1] = open[2])
    BY <2>2, BelowLen
  <2>4. CASE Len(open) = 1
    <3>1. Len(stack) = 0
      BY <2>3, <2>4
    <3>2. UNCHANGED delivered /\ parser' = "epilog"
      BY <1>5, <2>1, <2>4, <3>1 DEF EndTag, PacketSize
    <3>3. Stream!DocumentEnd
      BY <2>1, <2>2, <3>2 DEF Stream!DocumentEnd
    <3> QED  BY <3>3 DEF Stream!Next
  <2>5. CASE Len(open) = 2
    <3>1. Len(stack) = 1 /\ stack[1] = open[2]
      BY <2>3, <2>5
    <3>2. delivered' = Append(delivered, open[2]) /\ parser' = "content"
      BY <1>5, <2>1, <2>5, <3>1 DEF EndTag, PacketSize
    <3>3. open[2] \in Nat /\ Newest < open[2]
      BY <2>2, <2>5, ElementOfSeq DEF NewestInv
    <3>4. /\ Len(delivered') = Len(delivered) + 1
          /\ delivered'[Len(delivered) + 1] = open[2]
          /\ delivered' # <<>>
      BY <2>2, <3>2, <3>3, AppendProperties
    <3>5. Stream!Element
      BY <2>1, <2>2, <3>2, <3>3, <3>4 DEF Stream!Element, Newest
    <3> QED  BY <3>5 DEF Stream!Next
  <2>6. CASE Len(open) \notin {1, 2}
    <3>1. Len(stack) # 1 /\ Len(stack) # 0
      BY <2>2, <2>3, <2>6
    <3>2. UNCHANGED delivered /\ parser' = "content"
      BY <1>5, <2>1, <2>6, <3>1 DEF EndTag, PacketSize
    <3> QED  BY <1>1, <2>1, <3>2
  <2> QED  BY <2>4, <2>5, <2>6
<1>6. CASE Push \/ PushReturns \/ CharacterData \/ CallbackReturns
  BY <1>1, <1>6 DEF Push, PushReturns, CharacterData, CallbackReturns
<1>7. CASE UNCHANGED vars
  BY <1>1, <1>7 DEF vars
<1> QED  BY <1>2, <1>3, <1>4, <1>5, <1>6, <1>7 DEF Next

\* The listener can rely on the contract of StanzaStream: the root's start, complete
\* elements one after the other, each begun after all that came before, the root's end,
\* and nothing more until the next reset().
THEOREM StanzaStreamIsImplemented ==
    ASSUME MidStanza = FALSE
    PROVE  Spec => ImplementsStanzaStream
<1>1. Init => Stream!Init /\ NewestInv
  BY DEF Init, Stream!Init, NewestInv, Newest
<1>2. IInv /\ NewestInv /\ [Next]_vars => NewestInv'
  BY StepNewest
<1>3. IInv /\ NewestInv /\ [Next]_vars => [Stream!Next]_Stream!vars
  BY StepImplements
<1> QED
  BY <1>1, <1>2, <1>3, Invariance, PTL DEF Spec, Stream!Spec, ImplementsStanzaStream

-----------------------------------------------------------------------------
(* The buffer of the parser: see BufferedParser.                             *)

Cells == Nat \union {Unwritten}

\* A buffer whose pointers are within its block.
IsBuffer(b) ==
    /\ b.mem \in Seq(Cells)
    /\ b.ptr \in Nat /\ b.end \in Nat
    /\ b.ptr <= b.end /\ b.end <= Len(b.mem)

\* What is between bufferPtr and bufferEnd, byte by byte.
LEMMA UnparsedBytes ==
    ASSUME NEW b, IsBuffer(b)
    PROVE  /\ Unparsed(b) \in Seq(Cells)
           /\ Len(Unparsed(b)) = b.end - b.ptr
           /\ \A i \in 1..(b.end - b.ptr) : Unparsed(b)[i] = b.mem[b.ptr + i]
<1> DEFINE m == b.ptr + 1  n == b.end  s == b.mem
<1>1. m \in Int /\ n \in Int /\ n - m + 1 = b.end - b.ptr
  BY DEF IsBuffer
<1>2. \A i \in m..n : s[i] \in Cells
  BY ElementOfSeq DEF IsBuffer
<1>3. Unparsed(b) = SubSeq(s, m, n)
  BY DEF Unparsed
<1>4. /\ SubSeq(s, m, n) \in Seq(Cells)
      /\ Len(SubSeq(s, m, n)) = IF m <= n THEN n - m + 1 ELSE 0
      /\ \A i \in 1..(n - m + 1) : SubSeq(s, m, n)[i] = s[m + i - 1]
  <2> HIDE DEF s, m, n
  <2> QED  BY <1>1, <1>2, SubSeqProperties
<1>5. (IF m <= n THEN n - m + 1 ELSE 0) = b.end - b.ptr
  BY DEF IsBuffer
<1>6. ASSUME NEW i \in 1..(b.end - b.ptr)
      PROVE  i \in 1..(n - m + 1) /\ m + i - 1 = b.ptr + i
  BY DEF IsBuffer
<1> QED  BY <1>3, <1>4, <1>5, <1>6

\* A sequence that agrees with the block between the pointers is what is unparsed.
LEMMA UnparsedIs ==
    ASSUME NEW b, IsBuffer(b), NEW left \in Seq(Cells), Len(left) = b.end - b.ptr,
           \A i \in 1..Len(left) : left[i] = b.mem[b.ptr + i]
    PROVE  Unparsed(b) = left
<1> DEFINE u == Unparsed(b)
<1>1. /\ u \in Seq(Cells) /\ Len(u) = Len(left)
      /\ \A i \in 1..Len(left) : u[i] = left[i]
  BY UnparsedBytes
<1> HIDE DEF u
<1>2. u = left
  BY <1>1, SeqEqual
<1> QED  BY <1>2 DEF u

\* What overwriting writes, and what it leaves in front of that.
LEMMA OverwrittenIs ==
    ASSUME NEW mem \in Seq(Cells), NEW n \in Nat, NEW bytes \in Seq(Cells),
           n + Len(bytes) <= Len(mem)
    PROVE  /\ Overwritten(mem, n, bytes) \in Seq(Cells)
           /\ Len(Overwritten(mem, n, bytes)) = Len(mem)
           /\ \A k \in 1..n : Overwritten(mem, n, bytes)[k] = mem[k]
           /\ \A k \in 1..Len(bytes) : Overwritten(mem, n, bytes)[n + k] = bytes[k]
<1> DEFINE size == Len(mem)
           o == [k \in 1..size |-> IF k > n /\ k <= n + Len(bytes) THEN bytes[k - n]
                                   ELSE mem[k]]
<1>1. size \in Nat /\ Len(bytes) \in Nat
  BY LenProperties
<1>2. ASSUME NEW k \in 1..size PROVE o[k] \in Cells
  <2>1. CASE k > n /\ k <= n + Len(bytes)
    <3>1. k - n \in 1..Len(bytes)
      BY <1>1, <2>1
    <3>2. bytes[k - n] \in Cells
      BY <3>1, ElementOfSeq
    <3> QED  BY <2>1, <3>2
  <2>2. CASE ~(k > n /\ k <= n + Len(bytes))
    BY <2>2, ElementOfSeq
  <2> QED  BY <2>1, <2>2
<1>3. o \in Seq(Cells) /\ Len(o) = size
  <2>1. o \in [1..size -> Cells]
    BY <1>2
  <2> HIDE DEF o
  <2> QED  BY <1>1, <2>1, LenProperties, SeqDef
<1>4. ASSUME NEW k \in 1..n PROVE o[k] = mem[k]
  BY <1>1, <1>4
<1>5. ASSUME NEW k \in 1..Len(bytes) PROVE o[n + k] = bytes[k]
  <2>1. n + k \in 1..size /\ n + k > n /\ n + k <= n + Len(bytes) /\ (n + k) - n = k
    BY <1>1, <1>5
  <2> QED  BY <2>1
<1>6. Overwritten(mem, n, bytes) = o
  BY DEF Overwritten
<1> HIDE DEF o, size
<1> QED  BY <1>3, <1>4, <1>5, <1>6 DEF size

\* A block large enough for the bytes begins with them.
LEMMA BlockIs ==
    ASSUME NEW size \in Nat, NEW bytes \in Seq(Cells), Len(bytes) <= size
    PROVE  /\ Block(size, bytes) \in Seq(Cells)
           /\ Len(Block(size, bytes)) = size
           /\ \A k \in 1..Len(bytes) : Block(size, bytes)[k] = bytes[k]
<1> DEFINE o == [k \in 1..size |-> IF k <= Len(bytes) THEN bytes[k] ELSE Unwritten]
<1>1. Len(bytes) \in Nat
  BY LenProperties
<1>2. ASSUME NEW k \in 1..size PROVE o[k] \in Cells
  <2>1. CASE k <= Len(bytes)
    BY <1>1, <2>1, ElementOfSeq
  <2>2. CASE ~(k <= Len(bytes))
    BY <2>2 DEF Cells
  <2> QED  BY <2>1, <2>2
<1>3. o \in Seq(Cells) /\ Len(o) = size
  <2>1. o \in [1..size -> Cells]
    BY <1>2
  <2> HIDE DEF o
  <2> QED  BY <2>1, LenProperties, SeqDef
<1>4. ASSUME NEW k \in 1..Len(bytes) PROVE o[k] = bytes[k]
  BY <1>1
<1>5. Block(size, bytes) = o
  BY DEF Block
<1> HIDE DEF o
<1> QED  BY <1>3, <1>4, <1>5

\* Doubling the size of a block that has room at all makes it large enough, and not
\* later than after needed steps.
LEMMA DoubledIsEnough ==
    ASSUME NEW size \in Nat \ {0}, NEW needed \in Nat
    PROVE  Doubled(size, needed) \in Nat /\ Doubled(size, needed) >= needed
<1> DEFINE After(last) == IF last >= needed THEN last ELSE 2 * last
           F == [p \in Nat \X Nat |-> After(p[1])]
           G == [k \in 0..needed |-> {n \in Nat : n >= needed \/ n > k}]
           Step(f) == [k \in 0..needed |-> IF k = 0 THEN 2 * size ELSE After(f[k - 1])]
           f == CHOOSE g : g = Step(g)
<1>1. 0 \in 0..needed /\ needed \in 0..needed /\ 2 * size \in G[0]
  OBVIOUS
<1>2. ASSUME NEW k \in 1..needed, NEW last \in G[k - 1]
      PROVE  After(last) \in G[k] /\ F[<<last, k>>] = After(last)
  <2>1. k - 1 \in 0..needed /\ k \in 0..needed /\ k \in Nat
    OBVIOUS
  <2>2. last \in Nat /\ (last >= needed \/ last > k - 1)
    BY <1>2, <2>1
  <2>3. After(last) \in Nat /\ (After(last) >= needed \/ After(last) > k)
    BY <2>1, <2>2
  <2>4. F[<<last, k>>] = After(last)
    BY <2>1, <2>2
  <2> HIDE DEF After, F
  <2> QED  BY <2>1, <2>3, <2>4
<1>3. ASSUME NEW n \in G[needed] PROVE n \in Nat /\ n >= needed
  BY <1>1, <1>3
<1> HIDE DEF G, F
<1>4. \E g : g = Step(g)
  <2> HIDE DEF After
  <2>1. LeadsOn(F, 2 * size, G, needed)
    BY <1>1, <1>2 DEF LeadsOn
  <2>2. PICK g : Follows(g, F, 2 * size, G, needed)
    BY <2>1, RecursionIsDefined
  <2> DEFINE h == [k \in 0..needed |-> g[k]]
  <2>3. ASSUME NEW k \in 0..needed
        PROVE  h[k] = IF k = 0 THEN 2 * size ELSE After(h[k - 1])
    <3>1. CASE k # 0
      <4>1. k \in 1..needed /\ k - 1 \in 0..needed
        BY <3>1
      <4>2. h[k] = g[k] /\ h[k - 1] = g[k - 1]
        BY <4>1
      <4>3. g[k] = F[<<g[k - 1], k>>] /\ g[k - 1] \in G[k - 1]
        BY <2>2, <3>1, <4>1 DEF Follows
      <4> HIDE DEF h
      <4> QED  BY <1>2, <3>1, <4>1, <4>2, <4>3
    <3>2. CASE k = 0
      <4>1. h[k] = g[k] /\ g[k] = 2 * size
        BY <2>2, <3>2 DEF Follows
      <4> HIDE DEF h
      <4> QED  BY <3>2, <4>1
    <3> QED  BY <3>1, <3>2
  <2>4. h = Step(h)
    BY <2>3
  <2> HIDE DEF h, Step
  <2> QED  BY <2>4
<1>5. f = Step(f)
  <2> HIDE DEF Step
  <2> QED  BY <1>4
<1>6. f[0] = 2 * size /\ \A k \in 1..needed : f[k] = After(f[k - 1])
  <2> HIDE DEF f, After
  <2> QED  BY <1>1, <1>5
<1>7. Doubled(size, needed) = f[needed]
  BY DEF Doubled
<1> HIDE DEF f, After
<1> DEFINE Q == {k \in 0..needed : f[k] \in G[k]}
<1>8. 0 \in Q
  BY <1>1, <1>6
<1>9. ASSUME NEW k \in 1..needed, k - 1 \in Q PROVE k \in Q
  <2>1. k \in 0..needed /\ f[k - 1] \in G[k - 1]
    BY <1>9
  <2> QED  BY <1>2, <1>6, <2>1
<1>10. needed \in Q
  <2> HIDE DEF Q
  <2> QED  BY <1>1, <1>8, <1>9, UpTo
<1> QED  BY <1>3, <1>7, <1>10

\* XML_GetBuffer() makes room for the bytes and keeps what is unparsed.
LEMMA GetBufferIs ==
    ASSUME InitBufferSize \in Nat \ {0}, NEW b, IsBuffer(b), NEW len \in Nat
    PROVE  /\ IsBuffer(GetBuffer(b, len))
           /\ GetBuffer(b, len).end + len <= Len(GetBuffer(b, len).mem)
           /\ Unparsed(GetBuffer(b, len)) = Unparsed(b)
<1> DEFINE left == Unparsed(b)
           size == Len(b.mem)
           room == size - b.ptr
           start == IF room = 0 THEN InitBufferSize ELSE room
           after == GetBuffer(b, len)
<1>1. /\ left \in Seq(Cells) /\ Len(left) = b.end - b.ptr /\ Len(left) \in Nat
      /\ \A i \in 1..Len(left) : left[i] = b.mem[b.ptr + i]
  BY UnparsedBytes, LenProperties
<1>2. size \in Nat /\ b.ptr \in Nat /\ b.end \in Nat /\ b.ptr <= b.end /\ b.end <= size
  BY LenProperties DEF IsBuffer
<1>3. start \in Nat \ {0}
  BY <1>2
<1>4. CASE len <= size - b.end
  <2>1. after = b
    BY <1>4 DEF GetBuffer
  <2>2. b.end + len <= Len(b.mem)
    BY <1>2, <1>4
  <2> QED  BY <2>1, <2>2, Zenon
<1>5. CASE ~(len <= size - b.end)
  <2> DEFINE mem == IF len + Len(left) <= size THEN Overwritten(b.mem, 0, left)
                    ELSE Block(Doubled(start, len + Len(left)), left)
  <2>1. after = [ptr |-> 0, end |-> Len(left), mem |-> mem]
    BY <1>5 DEF GetBuffer
  <2> HIDE DEF left, start
  <2>2. /\ mem \in Seq(Cells) /\ len + Len(left) <= Len(mem)
        /\ \A i \in 1..Len(left) : mem[i] = left[i]
    <3>1. CASE len + Len(left) <= size
      <4>1. b.mem \in Seq(Cells) /\ 0 + Len(left) <= Len(b.mem)
        BY <1>1, <3>1 DEF IsBuffer
      <4>2. PICK n \in Nat : n = 0
        OBVIOUS
      <4>3. /\ Overwritten(b.mem, n, left) \in Seq(Cells)
            /\ Len(Overwritten(b.mem, n, left)) = Len(b.mem)
            /\ \A k \in 1..Len(left) : Overwritten(b.mem, n, left)[n + k] = left[k]
        BY <1>1, <4>1, <4>2, OverwrittenIs
      <4>4. \A k \in 1..Len(left) : n + k = k
        BY <1>1, <4>2
      <4> QED  BY <3>1, <4>1, <4>2, <4>3, <4>4
    <3>2. CASE ~(len + Len(left) <= size)
      <4>1. /\ Doubled(start, len + Len(left)) \in Nat
            /\ Doubled(start, len + Len(left)) >= len + Len(left)
        <5>1. len + Len(left) \in Nat
          BY <1>1
        <5> QED  BY <1>3, <5>1, DoubledIsEnough
      <4>2. Len(left) <= Doubled(start, len + Len(left))
        BY <1>1, <4>1
      <4> QED  BY <1>1, <3>2, <4>1, <4>2, BlockIs
    <3> QED  BY <3>1, <3>2
  <2> HIDE DEF mem
  <2>3. after.mem = mem /\ after.ptr = 0 /\ after.end = Len(left)
    BY <2>1
  <2> HIDE DEF after
  <2>4. IsBuffer(after)
    BY <1>1, <2>2, <2>3, LenProperties DEF IsBuffer
  <2>5. after.end + len <= Len(after.mem)
    BY <1>1, <2>2, <2>3
  <2>6. Unparsed(after) = left
    <3>1. Len(left) = after.end - after.ptr
      BY <1>1, <2>3
    <3>2. \A i \in 1..Len(left) : left[i] = after.mem[after.ptr + i]
      BY <1>1, <2>2, <2>3
    <3> QED  BY <1>1, <2>4, <3>1, <3>2, UnparsedIs
  <2> QED  BY <2>4, <2>5, <2>6 DEF left, after
<1> QED  BY <1>4, <1>5

\* What is copied is unparsed as well, behind what was.
LEMMA CopiedIs ==
    ASSUME InitBufferSize \in Nat \ {0}, NEW b, IsBuffer(b), NEW bytes \in Seq(Cells)
    PROVE  /\ IsBuffer(Copied(b, bytes))
           /\ Unparsed(Copied(b, bytes)) = Unparsed(b) \o bytes
<1> DEFINE room == GetBuffer(b, Len(bytes))
           mem == Overwritten(room.mem, room.end, bytes)
           all == Copied(b, bytes)
           left == Unparsed(b)
<1>0. Len(bytes) \in Nat
  BY LenProperties
<1>1. /\ IsBuffer(room) /\ room.end + Len(bytes) <= Len(room.mem)
      /\ Unparsed(room) = left
  BY <1>0, GetBufferIs
<1>2. all.ptr = room.ptr /\ all.end = room.end + Len(bytes) /\ all.mem = mem
  BY DEF Copied
<1> HIDE DEF room
<1>3. /\ mem \in Seq(Cells) /\ Len(mem) = Len(room.mem)
      /\ \A k \in 1..room.end : mem[k] = room.mem[k]
      /\ \A k \in 1..Len(bytes) : mem[room.end + k] = bytes[k]
  <2>1. room.mem \in Seq(Cells) /\ room.end \in Nat
    BY <1>1 DEF IsBuffer
  <2> QED  BY <1>1, <2>1, OverwrittenIs
<1>4. /\ left \in Seq(Cells) /\ Len(left) = room.end - room.ptr /\ Len(left) \in Nat
      /\ \A i \in 1..Len(left) : left[i] = room.mem[room.ptr + i]
  BY <1>1, UnparsedBytes, LenProperties
<1> HIDE DEF mem, all, left
<1>5. /\ room.ptr \in Nat /\ room.end \in Nat /\ room.ptr <= room.end
      /\ Len(mem) \in Nat
  BY <1>1, <1>3, LenProperties DEF IsBuffer
<1>6. IsBuffer(all)
  BY <1>0, <1>1, <1>2, <1>3, <1>5 DEF IsBuffer
<1>7. /\ left \o bytes \in Seq(Cells) /\ Len(left \o bytes) = Len(left) + Len(bytes)
      /\ \A i \in 1..Len(left) + Len(bytes) :
            (left \o bytes)[i] = IF i <= Len(left) THEN left[i] ELSE bytes[i - Len(left)]
  BY <1>4, ConcatProperties
<1>8. Len(left \o bytes) = all.end - all.ptr
  BY <1>0, <1>2, <1>4, <1>5, <1>7
<1>9. ASSUME NEW i \in 1..Len(left \o bytes)
      PROVE  (left \o bytes)[i] = all.mem[all.ptr + i]
  <2>1. CASE i <= Len(left)
    <3>1. i \in 1..Len(left) /\ room.ptr + i \in 1..room.end
      BY <1>0, <1>4, <1>5, <1>7, <2>1
    <3> QED  BY <1>2, <1>3, <1>4, <1>7, <2>1, <3>1
  <2>2. CASE ~(i <= Len(left))
    <3>1. /\ i - Len(left) \in 1..Len(bytes)
          /\ room.end + (i - Len(left)) = room.ptr + i
      BY <1>0, <1>4, <1>5, <1>7, <2>2, SMTT(30)
    <3>2. mem[room.end + (i - Len(left))] = bytes[i - Len(left)]
      BY <1>3, <3>1
    <3> QED  BY <1>2, <1>7, <2>2, <3>1, <3>2
  <2> QED  BY <2>1, <2>2
<1>10. Unparsed(all) = left \o bytes
  BY <1>6, <1>7, <1>8, <1>9, UnparsedIs
<1> QED  BY <1>6, <1>10 DEF all, left

\* What the processor is given: what is unparsed and the bytes behind it.
LEMMA GivenIs ==
    ASSUME InitBufferSize \in Nat \ {0}, NEW b, IsBuffer(b), NEW bytes \in Seq(Cells)
    PROVE  Given(b, bytes) = Unparsed(b) \o bytes
<1>1. CASE b.ptr = b.end
  <2> DEFINE left == Unparsed(b)
  <2>1. left \in Seq(Cells) /\ Len(left) = 0
    BY <1>1, UnparsedBytes DEF IsBuffer
  <2>2. left = <<>>
    <3> HIDE DEF left
    <3> QED  BY <2>1, EmptySeq
  <2>3. <<>> \o bytes = bytes
    BY ConcatEmptySeq
  <2> QED  BY <1>1, <2>2, <2>3 DEF Given
<1>2. CASE b.ptr # b.end
  BY <1>2, CopiedIs DEF Given
<1> QED  BY <1>1, <1>2

\* The end of a sequence.
LEMMA RestIs ==
    ASSUME NEW s \in Seq(Cells), NEW n \in 0..Len(s)
    PROVE  /\ SubSeq(s, n + 1, Len(s)) \in Seq(Cells)
           /\ Len(SubSeq(s, n + 1, Len(s))) = Len(s) - n
           /\ \A i \in 1..(Len(s) - n) : SubSeq(s, n + 1, Len(s))[i] = s[n + i]
<1>1. Len(s) \in Nat
  BY LenProperties
<1>2. PICK m \in Int : m = n + 1
  OBVIOUS
<1>3. \A i \in m..Len(s) : s[i] \in Cells
  <2>1. \A i \in m..Len(s) : i \in 1..Len(s)
    BY <1>1, <1>2
  <2> QED  BY <2>1, ElementOfSeq
<1>4. /\ SubSeq(s, m, Len(s)) \in Seq(Cells)
      /\ Len(SubSeq(s, m, Len(s))) = IF m <= Len(s) THEN Len(s) - m + 1 ELSE 0
      /\ \A i \in 1..(Len(s) - m + 1) : SubSeq(s, m, Len(s))[i] = s[m + i - 1]
  BY <1>1, <1>3, SubSeqProperties
<1>5. (IF m <= Len(s) THEN Len(s) - m + 1 ELSE 0) = Len(s) - n
  BY <1>1, <1>2
<1>6. ASSUME NEW i \in 1..(Len(s) - n) PROVE i \in 1..(Len(s) - m + 1) /\ m + i - 1 = n + i
  BY <1>1, <1>2
<1> QED  BY <1>2, <1>4, <1>5, <1>6

\* What the processor has left of bytes that it was given where they are is what
\* is unparsed.
LEMMA KeptBackIs ==
    ASSUME NEW b, IsBuffer(b), b.ptr = b.end, NEW bytes \in Seq(Cells),
           NEW n \in 0..Len(bytes)
    PROVE  /\ IsBuffer(KeptBack(b, bytes, n))
           /\ Unparsed(KeptBack(b, bytes, n)) = SubSeq(bytes, n + 1, Len(bytes))
<1> DEFINE left == SubSeq(bytes, n + 1, Len(bytes))
           after == KeptBack(b, bytes, n)
           mem == IF Len(left) > Len(b.mem) THEN Block(2 * Len(bytes), left)
                  ELSE Overwritten(b.mem, 0, left)
<1>1. left \in Seq(Cells) /\ Len(left) = Len(bytes) - n /\ Len(left) \in Nat
  BY RestIs, LenProperties
<1>2. Len(bytes) \in Nat /\ Len(b.mem) \in Nat /\ b.mem \in Seq(Cells)
  BY LenProperties DEF IsBuffer
<1>3. CASE left = <<>>
  <2>1. after = b
    BY <1>3 DEF KeptBack
  <2> HIDE DEF left, after
  <2>0. Len(left) = 0
    BY <1>3, EmptySeq
  <2>2. \A i \in 1..Len(left) : left[i] = b.mem[b.ptr + i]
    BY <2>0
  <2>3. Len(left) = b.end - b.ptr
    BY <2>0 DEF IsBuffer
  <2>4. Unparsed(b) = left
    BY <1>1, <2>2, <2>3, UnparsedIs
  <2> QED  BY <2>1, <2>4 DEF left, after
<1>4. CASE left # <<>>
  <2>1. after = [ptr |-> 0, end |-> Len(left), mem |-> mem]
    BY <1>4 DEF KeptBack
  <2> HIDE DEF left
  <2>2. /\ mem \in Seq(Cells) /\ Len(left) <= Len(mem)
        /\ \A i \in 1..Len(left) : mem[i] = left[i]
    <3>1. CASE Len(left) > Len(b.mem)
      <4>1. 2 * Len(bytes) \in Nat /\ Len(left) <= 2 * Len(bytes)
        BY <1>1, <1>2
      <4> QED  BY <1>1, <3>1, <4>1, BlockIs
    <3>2. CASE ~(Len(left) > Len(b.mem))
      <4>1. PICK z \in Nat : z = 0
        OBVIOUS
      <4>2. z + Len(left) <= Len(b.mem)
        BY <1>1, <1>2, <3>2, <4>1
      <4>3. /\ Overwritten(b.mem, z, left) \in Seq(Cells)
            /\ Len(Overwritten(b.mem, z, left)) = Len(b.mem)
            /\ \A k \in 1..Len(left) : Overwritten(b.mem, z, left)[z + k] = left[k]
        BY <1>1, <1>2, <4>2, OverwrittenIs, SMTT(30)
      <4>4. \A k \in 1..Len(left) : z + k = k
        BY <1>1, <4>1
      <4> QED  BY <1>1, <1>2, <3>2, <4>1, <4>2, <4>3, <4>4, SMTT(30)
    <3> QED  BY <3>1, <3>2
  <2> HIDE DEF mem
  <2>3. after.mem = mem /\ after.ptr = 0 /\ after.end = Len(left)
    BY <2>1
  <2> HIDE DEF after
  <2>4. IsBuffer(after)
    BY <1>1, <2>2, <2>3, LenProperties DEF IsBuffer
  <2>5. Unparsed(after) = left
    <3>1. Len(left) = after.end - after.ptr
      BY <1>1, <2>3
    <3>2. \A i \in 1..Len(left) : left[i] = after.mem[after.ptr + i]
      BY <1>1, <2>2, <2>3
    <3> QED  BY <1>1, <2>4, <3>1, <3>2, UnparsedIs
  <2> QED  BY <2>4, <2>5 DEF left, after
<1> QED  BY <1>3, <1>4

\* What the processor has taken is no longer unparsed; the rest is.
LEMMA ParsedIs ==
    ASSUME InitBufferSize \in Nat \ {0}, NEW b, IsBuffer(b), NEW bytes \in Seq(Cells),
           NEW all, all = Unparsed(b) \o bytes, NEW n \in 0..Len(all)
    PROVE  /\ IsBuffer(Parsed(b, bytes, n))
           /\ Unparsed(Parsed(b, bytes, n)) = SubSeq(all, n + 1, Len(all))
<1>1. CASE b.ptr = b.end
  <2>1. all = bytes
    <3>1. Given(b, bytes) = bytes
      BY <1>1 DEF Given
    <3> QED  BY <3>1, GivenIs
  <2>2. Parsed(b, bytes, n) = KeptBack(b, bytes, n)
    BY <1>1 DEF Parsed
  <2> QED  BY <1>1, <2>1, <2>2, KeptBackIs
<1>2. CASE b.ptr # b.end
  <2> DEFINE c == Copied(b, bytes)
             after == Parsed(b, bytes, n)
             left == SubSeq(all, n + 1, Len(all))
  <2>1. IsBuffer(c) /\ Unparsed(c) = all
    BY CopiedIs
  <2>2. after = [ptr |-> c.ptr + n, end |-> c.end, mem |-> c.mem]
    BY <1>2 DEF Parsed
  <2>3. after.ptr = c.ptr + n /\ after.end = c.end /\ after.mem = c.mem
    BY <2>2
  <2> HIDE DEF c, after
  <2>4. /\ all \in Seq(Cells) /\ Len(all) = c.end - c.ptr /\ Len(all) \in Nat
        /\ \A i \in 1..Len(all) : all[i] = c.mem[c.ptr + i]
    BY <2>1, UnparsedBytes, LenProperties
  <2>5. IsBuffer(after)
    <3>1. /\ c.mem \in Seq(Cells) /\ c.ptr \in Nat /\ c.end \in Nat
          /\ c.ptr <= c.end /\ c.end <= Len(c.mem)
      BY <2>1 DEF IsBuffer
    <3>2. n \in Nat /\ c.ptr + n <= c.end
      BY <2>4, <3>1
    <3> QED  BY <2>3, <3>1, <3>2 DEF IsBuffer
  <2>6. /\ left \in Seq(Cells) /\ Len(left) = Len(all) - n
        /\ \A i \in 1..(Len(all) - n) : left[i] = all[n + i]
    BY <2>4, RestIs
  <2> HIDE DEF left
  <2>7. Len(left) = after.end - after.ptr
    BY <2>1, <2>3, <2>4, <2>6 DEF IsBuffer
  <2>8. ASSUME NEW i \in 1..Len(left) PROVE left[i] = after.mem[after.ptr + i]
    <3>1. n + i \in 1..Len(all) /\ c.ptr + (n + i) = after.ptr + i
      <4>1. i \in 1..(Len(all) - n) /\ Len(all) \in Nat /\ c.ptr \in Nat
        BY <2>1, <2>4, <2>6 DEF IsBuffer
      <4> QED  BY <2>3, <4>1
    <3>2. left[i] = all[n + i]
      BY <2>6
    <3> QED  BY <2>3, <2>4, <3>1, <3>2
  <2>9. Unparsed(after) = left
    BY <2>5, <2>6, <2>7, <2>8, UnparsedIs
  <2> QED  BY <2>5, <2>9 DEF after, left
<1> QED  BY <1>1, <1>2

\* The bytes behind the first m, one by one.
LEMMA PlacesAre ==
    ASSUME NEW m \in Nat, NEW n \in Nat, m <= n
    PROVE  /\ Places(m, n) \in Seq(Cells)
           /\ Len(Places(m, n)) = n - m
           /\ \A i \in 1..(n - m) : Places(m, n)[i] = m + i
<1> DEFINE s == [i \in 1..(n - m) |-> m + i]
<1>1. n - m \in Nat /\ s \in [1..(n - m) -> Cells]
  BY DEF Cells
<1>2. \A i \in 1..(n - m) : s[i] = m + i
  OBVIOUS
<1>3. Places(m, n) = s
  BY DEF Places
<1> HIDE DEF s
<1>4. s \in Seq(Cells) /\ Len(s) = n - m
  <2>1. PICK k \in Nat : k = n - m
    BY <1>1
  <2> QED  BY <1>1, <2>1, LenProperties, SeqDef
<1> QED  BY <1>2, <1>3, <1>4

\* The places behind the first t up to the p-th, and those from there.
LEMMA PlacesJoin ==
    ASSUME NEW t \in Nat, NEW p \in Nat, NEW q \in Nat, t <= p, p <= q
    PROVE  Places(t, p) \o Places(p, q) = Places(t, q)
<1> DEFINE a == Places(t, p)  b == Places(p, q)  c == Places(t, q)
<1>1. /\ a \in Seq(Cells) /\ Len(a) = p - t /\ \A i \in 1..(p - t) : a[i] = t + i
      /\ b \in Seq(Cells) /\ Len(b) = q - p /\ \A i \in 1..(q - p) : b[i] = p + i
      /\ c \in Seq(Cells) /\ Len(c) = q - t /\ \A i \in 1..(q - t) : c[i] = t + i
  <2>1. /\ a \in Seq(Cells) /\ Len(a) = p - t /\ \A i \in 1..(p - t) : a[i] = t + i
    BY PlacesAre
  <2>2. /\ b \in Seq(Cells) /\ Len(b) = q - p /\ \A i \in 1..(q - p) : b[i] = p + i
    BY PlacesAre
  <2>3. /\ c \in Seq(Cells) /\ Len(c) = q - t /\ \A i \in 1..(q - t) : c[i] = t + i
    <3>1. t <= q
      OBVIOUS
    <3> QED  BY <3>1, PlacesAre
  <2> QED  BY <2>1, <2>2, <2>3
<1> HIDE DEF a, b, c
<1>2. /\ a \o b \in Seq(Cells) /\ Len(a \o b) = Len(a) + Len(b)
      /\ \A i \in 1..Len(a) + Len(b) :
            (a \o b)[i] = IF i <= Len(a) THEN a[i] ELSE b[i - Len(a)]
  BY <1>1, ConcatProperties
<1>3. Len(a \o b) = Len(c)
  BY <1>1, <1>2
<1>4. ASSUME NEW i \in 1..Len(a \o b) PROVE (a \o b)[i] = c[i]
  <2>1. i \in 1..(q - t) /\ i \in 1..Len(a) + Len(b)
    BY <1>1, <1>2
  <2>2. CASE i <= Len(a)
    BY <1>1, <1>2, <2>1, <2>2
  <2>3. CASE ~(i <= Len(a))
    <3>1. i - Len(a) \in 1..(q - p) /\ p + (i - Len(a)) = t + i
      BY <1>1, <2>1, <2>3
    <3> QED  BY <1>1, <1>2, <2>1, <2>3, <3>1
  <2> QED  BY <2>2, <2>3
<1>5. a \o b = c
  BY <1>1, <1>2, <1>3, <1>4, SeqEqual
<1> QED  BY <1>5 DEF a, b, c

\* What is behind the first n of them.
LEMMA PlacesBehind ==
    ASSUME NEW t \in Nat, NEW q \in Nat, t <= q, NEW n \in 0..(q - t)
    PROVE  SubSeq(Places(t, q), n + 1, Len(Places(t, q))) = Places(t + n, q)
<1> DEFINE a == Places(t, q)  c == Places(t + n, q)  r == SubSeq(a, n + 1, Len(a))
<1>1. t + n \in Nat /\ t + n <= q
  OBVIOUS
<1>2. /\ a \in Seq(Cells) /\ Len(a) = q - t /\ \A i \in 1..(q - t) : a[i] = t + i
      /\ c \in Seq(Cells) /\ Len(c) = q - (t + n)
      /\ \A i \in 1..(q - (t + n)) : c[i] = (t + n) + i
  BY <1>1, PlacesAre
<1> HIDE DEF a, c
<1>3. /\ r \in Seq(Cells) /\ Len(r) = Len(a) - n
      /\ \A i \in 1..(Len(a) - n) : r[i] = a[n + i]
  BY <1>2, RestIs
<1> HIDE DEF r
<1>4. Len(r) = Len(c)
  BY <1>2, <1>3
<1>5. ASSUME NEW i \in 1..Len(r) PROVE r[i] = c[i]
  <2>1. /\ i \in 1..(Len(a) - n) /\ n + i \in 1..(q - t) /\ i \in 1..(q - (t + n))
        /\ t + (n + i) = (t + n) + i
    BY <1>2, <1>3
  <2> QED  BY <1>2, <1>3, <2>1
<1>6. r = c
  BY <1>2, <1>3, <1>4, <1>5, SeqEqual
<1> QED  BY <1>6 DEF r, a, c

-----------------------------------------------------------------------------
(* The machine.                                                              *)

ParserInv ==
    /\ IsBuffer(buffer)
    /\ failed \in BOOLEAN
    /\ pushed \in Nat /\ taken \in Nat /\ taken <= pushed
    /\ ~failed => Unparsed(buffer) = Places(taken, pushed)

\* A parser begins with nothing unparsed.
LEMMA NothingAtFirst ==
    ASSUME NEW b, b = NoBuffer
    PROVE  IsBuffer(b) /\ Unparsed(b) = Places(0, 0)
<1>1. b.mem = <<>> /\ b.ptr = 0 /\ b.end = 0
  BY DEF NoBuffer
<1>2. b.mem \in Seq(Cells) /\ Len(b.mem) = 0
  BY <1>1, EmptySeq
<1>3. IsBuffer(b)
  BY <1>1, <1>2 DEF IsBuffer
<1> DEFINE s == Places(0, 0)
<1>4. s \in Seq(Cells) /\ Len(s) = 0
  BY PlacesAre
<1> HIDE DEF s
<1>5. Unparsed(b) = s
  <2>1. Len(s) = b.end - b.ptr /\ \A i \in 1..Len(s) : s[i] = b.mem[b.ptr + i]
    BY <1>1, <1>4
  <2> QED  BY <1>3, <1>4, <2>1, UnparsedIs
<1> QED  BY <1>3, <1>5 DEF s

\* What a push does to the buffer, if the parser has not failed.
LEMMA PushIs ==
    ASSUME BufferAssumption, BufferedParserAssumption,
           NEW b, IsBuffer(b), NEW t \in Nat, NEW p \in Nat, t <= p,
           Unparsed(b) = Places(t, p), NEW size \in PushSizes,
           NEW all, all = Given(b, Places(p, p + size))
    PROVE  /\ all = Places(t, p + size)
           /\ \A n \in 0..Len(all) :
                 LET after == Parsed(b, Places(p, p + size), n)
                 IN /\ IsBuffer(after)
                    /\ t + n \in Nat /\ t + n <= p + size
                    /\ Unparsed(after) = Places(t + n, p + size)
<1> DEFINE bytes == Places(p, p + size)
<1>0. /\ InitBufferSize \in Nat \ {0} /\ size \in Nat /\ p + size \in Nat
      /\ p <= p + size /\ t <= p + size
  BY DEF BufferAssumption, BufferedParserAssumption
<1>1. bytes \in Seq(Cells)
  BY <1>0, PlacesAre
<1>2. all = Unparsed(b) \o bytes
  <2> HIDE DEF bytes
  <2>1. Given(b, bytes) = Unparsed(b) \o bytes
    BY <1>0, <1>1, GivenIs
  <2> QED  BY <2>1 DEF bytes
<1>3. all = Places(t, p + size)
  <2>1. Places(t, p) \o Places(p, p + size) = Places(t, p + size)
    BY <1>0, PlacesJoin
  <2> QED  BY <1>2, <2>1
<1>4. Len(all) = p + size - t
  <2>1. Len(Places(t, p + size)) = p + size - t
    BY <1>0, PlacesAre
  <2> QED  BY <1>3, <2>1
<1>5. ASSUME NEW n \in 0..Len(all)
      PROVE  /\ IsBuffer(Parsed(b, bytes, n))
             /\ t + n \in Nat /\ t + n <= p + size
             /\ Unparsed(Parsed(b, bytes, n)) = Places(t + n, p + size)
  <2>1. /\ IsBuffer(Parsed(b, bytes, n))
        /\ Unparsed(Parsed(b, bytes, n)) = SubSeq(all, n + 1, Len(all))
    <3> HIDE DEF bytes
    <3> QED  BY <1>0, <1>1, <1>2, ParsedIs
  <2>2. t + n \in Nat /\ t + n <= p + size /\ n \in 0..(p + size - t) /\ t <= p + size
    BY <1>0, <1>4
  <2>3. SubSeq(all, n + 1, Len(all)) = Places(t + n, p + size)
    <3>1. SubSeq(Places(t, p + size), n + 1, Len(Places(t, p + size)))
             = Places(t + n, p + size)
      <4>1. ASSUME NEW q \in Nat, t <= q, n \in 0..(q - t)
            PROVE  SubSeq(Places(t, q), n + 1, Len(Places(t, q))) = Places(t + n, q)
        BY <4>1, PlacesBehind
      <4> QED  BY <1>0, <2>2, <4>1
    <3> QED  BY <1>3, <3>1
  <2> QED  BY <2>1, <2>2, <2>3
<1> QED  BY <1>3, <1>5

\* An error leaves the pointers within the block.
LEMMA RefusedIs ==
    ASSUME BufferAssumption, BufferedParserAssumption, NEW b, IsBuffer(b),
           NEW p \in Nat, NEW size \in PushSizes
    PROVE  IsBuffer(Refused(b, Places(p, p + size)))
<1>0. InitBufferSize \in Nat \ {0} /\ size \in Nat /\ p + size \in Nat
  BY DEF BufferAssumption, BufferedParserAssumption
<1>1. Places(p, p + size) \in Seq(Cells)
  BY <1>0, PlacesAre
<1> QED  BY <1>0, <1>1, CopiedIs DEF Refused

\* The invariant of the buffer at the start ...
LEMMA ParserInit ==
    BufferInit => ParserInv
<1> SUFFICES ASSUME BufferInit PROVE ParserInv
  OBVIOUS
<1>1. buffer = NoBuffer /\ failed = FALSE /\ pushed = 0 /\ taken = 0
  BY DEF BufferInit
<1>2. IsBuffer(buffer) /\ Unparsed(buffer) = Places(0, 0)
  BY <1>1, NothingAtFirst
<1>3. Unparsed(buffer) = Places(taken, pushed)
  BY <1>1, <1>2, Zenon
<1>4. pushed \in Nat /\ taken \in Nat /\ taken <= pushed
  <2>1. pushed = 0 /\ taken = 0
    BY <1>1
  <2> QED  BY <2>1
<1>5. failed \in BOOLEAN
  BY <1>1, Zenon
<1> QED  BY <1>2, <1>3, <1>4, <1>5, Zenon DEF ParserInv

\* A push says how long what is pushed is.
LEMMA PushedIs ==
    ASSUME BufferedParserAssumption, NEW p \in Nat, NEW size \in PushSizes
    PROVE  Len(Places(p, p + size)) = size /\ size \in Nat \ {0}
<1>1. size \in Nat \ {0} /\ p + size \in Nat /\ p <= p + size /\ (p + size) - p = size
  BY DEF BufferedParserAssumption
<1> QED  BY <1>1, PlacesAre

\* ... and in every step.
LEMMA ParserStep ==
    ASSUME BufferAssumption, BufferedParserAssumption, ParserInv, [BufferNext]_bufferVars
    PROVE  ParserInv'
<1> USE DEF ParserInv
<1>1. CASE PushPiece
  <2>1. PICK size \in PushSizes :
            /\ ~failed
            /\ Parses(Places(pushed, pushed + size))
            /\ \E n \in 0..Len(given') :
                  /\ buffer' = Parsed(buffer, Places(pushed, pushed + size), n)
                  /\ taken' = taken + n
            /\ failed' = failed
    BY <1>1 DEF PushPiece
  <2>2. PICK n \in 0..Len(given') :
            /\ buffer' = Parsed(buffer, Places(pushed, pushed + size), n)
            /\ taken' = taken + n
    BY <2>1
  <2>3. given' = Given(buffer, Places(pushed, pushed + size))
    BY <2>1 DEF Parses
  <2>4. pushed' = pushed + size /\ pushed + size \in Nat
    <3>1. pushed' = pushed + Len(Places(pushed, pushed + size))
      BY <2>1 DEF Parses
    <3>2. Len(Places(pushed, pushed + size)) = size /\ size \in Nat \ {0}
      BY PushedIs
    <3> QED  BY <3>1, <3>2
  <2>5. /\ IsBuffer(buffer')
        /\ taken + n \in Nat /\ taken + n <= pushed + size
        /\ Unparsed(buffer') = Places(taken + n, pushed + size)
    BY <2>1, <2>2, <2>3, PushIs
  <2> QED  BY <2>1, <2>2, <2>4, <2>5
<1>2. CASE PieceFails
  <2>1. PICK size \in PushSizes :
            /\ Parses(Places(pushed, pushed + size))
            /\ buffer' = Refused(buffer, Places(pushed, pushed + size))
            /\ failed' = TRUE
            /\ taken' = taken
    BY <1>2 DEF PieceFails
  <2>2. pushed' = pushed + size /\ size \in Nat
    BY <2>1, PushedIs DEF Parses
  <2>3. IsBuffer(buffer')
    BY <2>1, RefusedIs
  <2>4. pushed' \in Nat /\ taken' <= pushed'
    BY <2>1, <2>2
  <2> QED  BY <2>1, <2>3, <2>4
<1>3. CASE NewParserBuffer
  <2>1. buffer' = NoBuffer /\ failed' = FALSE /\ pushed' = 0 /\ taken' = 0
    BY <1>3 DEF NewParserBuffer
  <2>2. IsBuffer(buffer') /\ Unparsed(buffer') = Places(0, 0)
    BY <2>1, NothingAtFirst
  <2>3. Unparsed(buffer') = Places(taken', pushed')
    BY <2>1, <2>2, Zenon
  <2>4. pushed' \in Nat /\ taken' \in Nat /\ taken' <= pushed'
    <3>1. pushed' = 0 /\ taken' = 0
      BY <2>1
    <3> QED  BY <3>1
  <2>5. failed' \in BOOLEAN
    BY <2>1, Zenon
  <2> QED  BY <2>2, <2>3, <2>4, <2>5, Zenon
<1>4. CASE UNCHANGED bufferVars
  BY <1>4 DEF bufferVars
<1> QED  BY <1>1, <1>2, <1>3, <1>4 DEF BufferNext

LEMMA ParserAlways == BufferSpec => []ParserInv
<1>1. ParserInv /\ [BufferNext]_bufferVars => ParserInv'
  BY BufferAssumption, BufferedParserAssumption, ParserStep
<1> QED  BY ParserInit, <1>1, PTL DEF BufferSpec

\* Whatever the pieces and the room in the buffer, and however much of what it is given
\* the processor takes: what was pushed and not taken is in the buffer, all of it and in
\* its order, until there is an error (xmlparse.c XML_Parse, XML_GetBuffer).
THEOREM NothingIsLostAlways == BufferSpec => []NothingIsLost
<1>1. ParserInv => NothingIsLost
  BY DEF ParserInv, IsBuffer, NothingIsLost
<1> QED  BY ParserAlways, <1>1, PTL

\* Whatever the pieces are, each call gives the processor the bytes that follow the last
\* one it took (xmlparse.c XML_Parse, XML_GetBuffer).
THEOREM StreamIsReadOnAlways == BufferSpec => StreamIsReadOn
<1> DEFINE ReadOn == ~failed /\ pushed' > pushed => given' = Places(taken, pushed')
<1>1. ASSUME ParserInv, [BufferNext]_bufferVars PROVE [ReadOn]_bufferVars
  <2> SUFFICES ASSUME ~failed, pushed' > pushed PROVE given' = Places(taken, pushed')
    OBVIOUS
  <2>1. PushPiece \/ PieceFails
    <3>1. ~ UNCHANGED bufferVars
      BY <1>1 DEF bufferVars, ParserInv
    <3>2. ~ NewParserBuffer
      BY <1>1 DEF NewParserBuffer, ParserInv
    <3> QED  BY <1>1, <3>1, <3>2 DEF BufferNext
  <2>2. PICK size \in PushSizes : Parses(Places(pushed, pushed + size))
    BY <2>1 DEF PushPiece, PieceFails
  <2>3. /\ given' = Given(buffer, Places(pushed, pushed + size))
        /\ pushed' = pushed + size
    BY <1>1, <2>2, PushedIs, BufferedParserAssumption DEF Parses, ParserInv
  <2> QED  BY <1>1, <2>3, PushIs, BufferAssumption, BufferedParserAssumption DEF ParserInv
<1> HIDE DEF ReadOn
<1>2. [][ReadOn]_bufferVars => StreamIsReadOn
  BY PTL DEF ReadOn, StreamIsReadOn
<1> QED  BY ParserAlways, <1>1, <1>2, PTL DEF BufferSpec

-----------------------------------------------------------------------------
(* The content models of the prolog: see ContentModel.                       *)

InElement == {"element0", "element1", "element2", "element3", "element4", "element5",
              "element6", "element7"}
InAttlist == {"attlist0", "attlist1", "attlist2", "attlist3", "attlist4", "attlist5",
              "attlist6", "attlist7", "attlist8", "attlist9"}
GroupRoles == {"GROUP_OPEN", "GROUP_SEQUENCE", "GROUP_CHOICE"}
OpenParen == <<"OPEN_PAREN">>
Parens == {OpenParen} \union Separators \union Closing

ParenKinds == {"OPEN_PAREN", "COMMA", "OR", "CLOSE_PAREN", "CLOSE_PAREN_QUESTION",
               "CLOSE_PAREN_ASTERISK", "CLOSE_PAREN_PLUS"}

\* What the rows have in common that are not about content models.
Elsewhere(r) ==
    /\ r[1] \notin InElement
    /\ r[4] \notin GroupRoles
    /\ r[3] \in InElement => r[2] = Decl("ELEMENT") /\ r[3] = "element0"
    /\ r[3] \in InAttlist => r[1] \in InAttlist \/ r[2] = Decl("ATTLIST")
    /\ r[2][1] \in ParenKinds => r[2] \in Parens /\ r[1] \in InAttlist
    /\ r[1] \in InAttlist => r[2][1] # "DECL_OPEN"

\* The parentheses and the separators, one by one.
LEMMA ParensAre ==
    Parens = {<<"OPEN_PAREN">>, <<"COMMA">>, <<"OR">>, <<"CLOSE_PAREN">>,
              <<"CLOSE_PAREN_QUESTION">>, <<"CLOSE_PAREN_ASTERISK">>, <<"CLOSE_PAREN_PLUS">>}
  BY DEF Parens, OpenParen, Separators, Closing, CloseWith, Quantifiers

\* The rows of the prolog, up to and after the document type, are about no content model.
LEMMA PrologRowsAre == \A r \in PrologRows : Elsewhere(r)
<1> SUFFICES ASSUME NEW r \in PrologRows PROVE Elsewhere(r)
  OBVIOUS
<1> USE ParensAre DEF Row, Decl, Elsewhere, InElement, InAttlist, GroupRoles, ParenKinds
<1>1. CASE \E h \in {"prolog0", "prolog1"} : r = Row(h, Decl("DOCTYPE"), "doctype0", "NONE")
  BY <1>1
<1>2. CASE \E h \in {"prolog0", "prolog1", "prolog2"} :
              r = Row(h, <<"INSTANCE_START">>, "error", "INSTANCE_START")
  BY <1>2
<1>3. CASE \E k \in {"PI", "COMMENT"} :
              r \in {Row("prolog0", <<k>>, "prolog1", "NONE"),
                     Row("prolog1", <<k>>, "prolog1", "NONE"),
                     Row("prolog2", <<k>>, "prolog2", "NONE")}
  BY <1>3
<1>4. CASE r \in {Row("prolog0", <<"PROLOG_S">>, "prolog1", "NONE"),
                  Row("prolog0", <<"XML_DECL">>, "prolog1", "XML_DECL"),
                  Row("prolog0", <<"BOM">>, "prolog0", "NONE"),
                  Row("prolog1", <<"BOM">>, "prolog1", "NONE")}
  BY <1>4
<1> DEFINE first == {Row("prolog0", <<"PROLOG_S">>, "prolog1", "NONE"),
                     Row("prolog0", <<"XML_DECL">>, "prolog1", "XML_DECL"),
                     Row("prolog0", <<"BOM">>, "prolog0", "NONE"),
                     Row("prolog1", <<"BOM">>, "prolog1", "NONE")}
           misc(k) == {Row("prolog0", <<k>>, "prolog1", "NONE"),
                       Row("prolog1", <<k>>, "prolog1", "NONE"),
                       Row("prolog2", <<k>>, "prolog2", "NONE")}
           doctype == {Row(h, Decl("DOCTYPE"), "doctype0", "NONE") :
                          h \in {"prolog0", "prolog1"}}
           start == {Row(h, <<"INSTANCE_START">>, "error", "INSTANCE_START") :
                        h \in {"prolog0", "prolog1", "prolog2"}}
           all == UNION {misc(k) : k \in {"PI", "COMMENT"}}
<1>5. PrologRows = first \union all \union doctype \union start
  BY DEF PrologRows
<1>6. CASE r \in all
  <2>1. PICK k \in {"PI", "COMMENT"} : r \in misc(k)
    BY <1>6
  <2> QED  BY <2>1, <1>3
<1>7. CASE r \in first
  BY <1>7, <1>4
<1>8. CASE r \in doctype
  BY <1>8, <1>1
<1>9. CASE r \in start
  BY <1>9, <1>2
<1> HIDE DEF first, all, doctype, start
<1> QED  BY <1>5, <1>6, <1>7, <1>8, <1>9

\* Nor are those of the document type,
LEMMA DoctypeRowsAre == \A r \in DoctypeRows : Elsewhere(r)
  BY ParensAre DEF DoctypeRows, Row, Decl, Name, AnyName, Literal, Close,
     Elsewhere, InElement, InAttlist, GroupRoles, ParenKinds

\* those of the internal subset,
LEMMA SubsetRowsAre == \A r \in SubsetRows : Elsewhere(r)
  BY ParensAre DEF SubsetRows, Row, Decl,
     Elsewhere, InElement, InAttlist, GroupRoles, ParenKinds

\* of entities,
LEMMA EntityRowsAre == \A r \in GeneralEntityRows \union ParameterEntityRows : Elsewhere(r)
  BY ParensAre DEF GeneralEntityRows, ParameterEntityRows, Row, Decl, Name,
     AnyName, Literal, Close, TopLevel,
     Elsewhere, InElement, InAttlist, GroupRoles, ParenKinds

\* of notations,
LEMMA NotationRowsAre == \A r \in NotationRows \union CloseRows : Elsewhere(r)
  BY ParensAre DEF NotationRows, CloseRows, Row, Decl, Name, AnyName, Literal,
     Close, TopLevel, Elsewhere, InElement, InAttlist, GroupRoles, ParenKinds

\* of attributes, whose enumerations have parentheses of their own,
LEMMA AttlistRowsAre == \A r \in AttlistRows : Elsewhere(r)
  BY ParensAre DEF AttlistRows, Row, Decl, Name, AnyName, Close, TopLevel,
     AttributeTypes, Elsewhere, InElement, InAttlist, GroupRoles, ParenKinds

\* and of their defaults.
LEMMA DefaultRowsAre == \A r \in DefaultRows : Elsewhere(r)
  BY ParensAre DEF DefaultRows, Row, Decl, Pound, AnyName, Literal,
     Elsewhere, InElement, InAttlist, GroupRoles, ParenKinds

NameTokens == {<<"NAME">>, <<"NAME_QUESTION">>, <<"NAME_ASTERISK">>, <<"NAME_PLUS">>}

\* The rows of a content model, by where they lead to: no other has to do with groups.
InModel(r) ==
    \/ r[1] = "element0" /\ r[3] = "element1" /\ r[2] = <<"NAME">> /\ r[4] \notin GroupRoles
    \/ r[1] = "element1" /\ r[3] = "declClose" /\ r[2][1] = "NAME" /\ r[4] \notin GroupRoles
    \/ r[1] = "element1" /\ r[3] = "element2" /\ r[2] = OpenParen /\ r[4] = "GROUP_OPEN"
    \/ r[1] = "element2" /\ r[3] = "element3" /\ r[2][1] = "POUND_NAME" /\ r[4] \notin GroupRoles
    \/ /\ r[1] \in {"element3", "element5"} /\ r[3] = "declClose"
       /\ r[2] \in Closing /\ r[4] \notin GroupRoles
    \/ r[1] \in {"element3", "element5"} /\ r[3] = "element4" /\ r[2] = <<"OR">> /\ r[4] = "NONE"
    \/ r[1] = "element4" /\ r[3] = "element5" /\ r[2] = <<"NAME">> /\ r[4] \notin GroupRoles
    \/ /\ r[1] \in {"element2", "element6"} /\ r[3] = "element6"
       /\ r[2] = OpenParen /\ r[4] = "GROUP_OPEN"
    \/ /\ r[1] \in {"element2", "element6"} /\ r[3] = "element7" /\ r[4] \notin GroupRoles
       /\ r[2] \in NameTokens
    \/ r[1] = "element7" /\ r[3] = "element7" /\ r[2] \in Closing /\ r[4] \notin GroupRoles
    \/ r[1] = "element7" /\ r[3] = "element6" /\ r[2] = <<"COMMA">> /\ r[4] = "GROUP_SEQUENCE"
    \/ r[1] = "element7" /\ r[3] = "element6" /\ r[2] = <<"OR">> /\ r[4] = "GROUP_CHOICE"

\* The ends of groups, one by one.
LEMMA ClosingIs ==
    Closing = {<<"CLOSE_PAREN">>, <<"CLOSE_PAREN_QUESTION">>, <<"CLOSE_PAREN_ASTERISK">>,
                 <<"CLOSE_PAREN_PLUS">>}
  BY DEF Closing, CloseWith, Quantifiers

\* The rows of element0 to element5.
LEMMA MixedRowsAre == \A r \in MixedRows : InModel(r)
  BY ClosingIs DEF MixedRows, Row, Name, Pound, AnyName, CloseWith, InModel,
     GroupRoles, OpenParen

\* A name with how often it may stand is a name; and only the roles of a group are of one.
LEMMA QuantifiersAre ==
    \A q \in Quantifiers :
        /\ NameWith(q) \in NameTokens
        /\ ElementRole(q) \notin GroupRoles
        /\ CloseRole(q) \notin GroupRoles
<1> SUFFICES ASSUME NEW q \in Quantifiers
             PROVE  /\ NameWith(q) \in NameTokens
                    /\ ElementRole(q) \notin GroupRoles
                    /\ CloseRole(q) \notin GroupRoles
  OBVIOUS
<1>1. q = "" \/ q = "_OPT" \/ q = "_REP" \/ q = "_PLUS"
  BY DEF Quantifiers
<1>2. ElementRole(q) \in {"CONTENT_ELEMENT", "CONTENT_ELEMENT_OPT", "CONTENT_ELEMENT_REP",
                           "CONTENT_ELEMENT_PLUS"}
  BY <1>1 DEF ElementRole
<1>3. CloseRole(q) \in {"GROUP_CLOSE", "GROUP_CLOSE_OPT", "GROUP_CLOSE_REP", "GROUP_CLOSE_PLUS"}
  BY <1>1 DEF CloseRole
<1>4. NameWith(q) \in NameTokens
  BY <1>1 DEF NameWith, AnyName, NameTokens
<1> QED  BY <1>2, <1>3, <1>4 DEF GroupRoles

\* The rows of element6 and element7.
LEMMA ChildrenRowsAre == \A r \in ChildrenRows : InModel(r)
<1> SUFFICES ASSUME NEW r \in ChildrenRows PROVE InModel(r)
  OBVIOUS
<1> USE ClosingIs DEF Row, InModel, GroupRoles, OpenParen, NameTokens
<1>1. CASE \E h \in {"element2", "element6"} :
              r = Row(h, <<"OPEN_PAREN">>, "element6", "GROUP_OPEN")
  BY <1>1
<1>2. CASE \E h \in {"element2", "element6"}, q \in Quantifiers :
              r = Row(h, NameWith(q), "element7", ElementRole(q))
  BY <1>2, QuantifiersAre
<1>3. CASE \E q \in Quantifiers : r = Row("element7", CloseWith(q), "element7", CloseRole(q))
  BY <1>3, QuantifiersAre DEF Closing
<1>4. CASE r \in {Row("element7", <<"COMMA">>, "element6", "GROUP_SEQUENCE"),
                  Row("element7", <<"OR">>, "element6", "GROUP_CHOICE")}
  BY <1>4
<1> QED  BY <1>1, <1>2, <1>3, <1>4 DEF ChildrenRows

\* Every row is of the one sort or the other.
LEMMA RowsAre == \A r \in Rows : Elsewhere(r) \/ InModel(r)
  BY PrologRowsAre, DoctypeRowsAre, SubsetRowsAre, EntityRowsAre, NotationRowsAre, AttlistRowsAre,
     DefaultRowsAre, MixedRowsAre, ChildrenRowsAre DEF Rows

\* What the handlers do with t: there is a row for it, or white space, or an error.
LEMMA RoleIs ==
    ASSUME NEW s, s.handler # "error", NEW t
    PROVE  \/ TokenRole(s, t) = Failed(s)
           \/ t = <<"PROLOG_S">> /\ TokenRole(s, t) = [s EXCEPT !.role = "NONE"]
           \/ \E r \in Rows : /\ r[1] = s.handler
                              /\ r[2] = t \/ r[2] = <<t[1]>>
                              /\ TokenRole(s, t) = Follow(s, t, r)
<1> DEFINE rows == {r \in Rows : r[1] = s.handler /\ (r[2] = t \/ r[2] = <<t[1]>>)}
           row == CHOOSE r \in rows : TRUE
<1>1. TokenRole(s, t) = IF rows = {}
                          THEN IF t = <<"PROLOG_S">> THEN [s EXCEPT !.role = "NONE"] ELSE Failed(s)
                          ELSE Follow(s, t, row)
  BY DEF TokenRole
<1>2. ASSUME rows # {} PROVE row \in rows
  BY <1>2
<1> HIDE DEF row
<1> QED  BY <1>1, <1>2

-----------------------------------------------------------------------------
Signs == {"", ",", "|"}

\* groupConnector with a sign at a level.
Put(connector, level, sign) ==
    [l \in 1..(IF level > Len(connector) THEN level ELSE Len(connector)) |->
        IF l = level THEN sign ELSE connector[l]]

\* What is at the level is the sign, and the other levels keep theirs.
LEMMA PutIs ==
    ASSUME NEW c \in Seq(Signs), NEW level \in Nat \ {0}, NEW sign \in Signs, level <= Len(c) + 1
    PROVE  /\ Put(c, level, sign) \in Seq(Signs)
           /\ Len(Put(c, level, sign)) >= level
           /\ Len(Put(c, level, sign)) >= Len(c)
           /\ Put(c, level, sign)[level] = sign
           /\ \A l \in 1..Len(c) : l # level => Put(c, level, sign)[l] = c[l]
<1> DEFINE n == IF level > Len(c) THEN level ELSE Len(c)
<1>1. Len(c) \in Nat /\ n \in Nat /\ n >= level /\ n >= Len(c)
  BY LenProperties
<1>2. ASSUME NEW l \in 1..n PROVE (IF l = level THEN sign ELSE c[l]) \in Signs
  <2>1. CASE l = level
    BY <2>1
  <2>2. CASE l # level
    <3>1. l \in 1..Len(c)
      BY <1>1, <2>2
    <3> QED  BY <2>2, <3>1, ElementOfSeq
  <2> QED  BY <2>1, <2>2
<1> DEFINE f == Put(c, level, sign)
<1>3. f = [l \in 1..n |-> IF l = level THEN sign ELSE c[l]]
  BY DEF Put
<1>4. f \in [1..n -> Signs]
  BY <1>2, <1>3
<1>5. f \in Seq(Signs) /\ Len(f) = n
  <2> HIDE DEF f, n
  <2> QED  BY <1>1, <1>4, SeqDef, LenProperties
<1>6. f[level] = sign
  BY <1>1, <1>3
<1>7. ASSUME NEW l \in 1..Len(c), l # level PROVE f[l] = c[l]
  <2>1. l \in 1..n
    BY <1>1
  <2> QED  BY <1>3, <1>7, <2>1
<1> QED  BY <1>1, <1>5, <1>6, <1>7

At(handler, level, connector, role) ==
    [handler |-> handler, level |-> level, connector |-> connector, role |-> role]

\* A row that has nothing to do with groups.
LEMMA QuietRow ==
    ASSUME NEW s, NEW t, NEW r, r[4] \notin GroupRoles,
           s.handler = "element7" => t \notin Closing,
           r[3] = "element7" => s.level # 0
    PROVE  Follow(s, t, r) = At(r[3], s.level, s.connector, r[4])
<1>1. /\ r[4] # "GROUP_OPEN" /\ r[4] # "GROUP_SEQUENCE" /\ r[4] # "GROUP_CHOICE"
  BY DEF GroupRoles
<1>2. LevelAfter(s, t, r[4]) = s.level
  BY <1>1 DEF LevelAfter, Closing
<1>3. ConnectorAfter(s.connector, s.level, r[4]) = s.connector
  BY <1>1 DEF ConnectorAfter
<1> QED  BY <1>1, <1>2, <1>3 DEF Follow, At

\* A row that opens a group.
LEMMA OpenRow ==
    ASSUME NEW s, NEW t, NEW r, r[4] = "GROUP_OPEN", r[3] # "element7", NEW n,
           \/ s.handler = "element1" /\ n = 1
           \/ s.handler = "element2" /\ n = 2
           \/ s.handler = "element6" /\ n = s.level + 1
    PROVE  Follow(s, t, r) = At(r[3], n, Put(s.connector, n, ""), "GROUP_OPEN")
<1>1. LevelAfter(s, t, r[4]) = n
  BY DEF LevelAfter
<1>2. ConnectorAfter(s.connector, n, r[4]) = Put(s.connector, n, "")
  BY DEF ConnectorAfter, Put
<1> QED  BY <1>1, <1>2 DEF Follow, At

\* A row that closes one.
LEMMA CloseRow ==
    ASSUME NEW s, NEW t, NEW r, r[4] \notin GroupRoles, s.handler = "element7", t \in Closing,
           r[3] = "element7"
    PROVE  Follow(s, t, r) = At(IF s.level - 1 = 0 THEN "declClose" ELSE "element7",
                                  s.level - 1, s.connector, r[4])
<1>1. /\ r[4] # "GROUP_OPEN" /\ r[4] # "GROUP_SEQUENCE" /\ r[4] # "GROUP_CHOICE"
  BY DEF GroupRoles
<1>2. LevelAfter(s, t, r[4]) = s.level - 1
  BY <1>1 DEF LevelAfter, Closing
<1>3. ConnectorAfter(s.connector, s.level - 1, r[4]) = s.connector
  BY <1>1 DEF ConnectorAfter
<1> QED  BY <1>1, <1>2, <1>3 DEF Follow, At

\* A row of a separator.
LEMMA SignRow ==
    ASSUME NEW s, NEW t, NEW r, s.handler = "element7", t \notin Closing,
           r[3] = "element6", NEW sign,
           \/ r[4] = "GROUP_SEQUENCE" /\ sign = ","
           \/ r[4] = "GROUP_CHOICE" /\ sign = "|"
    PROVE  Follow(s, t, r) =
              IF s.connector[s.level] \notin {"", sign} THEN Failed(s)
              ELSE At("element6", s.level, Put(s.connector, s.level, sign), r[4])
<1>1. LevelAfter(s, t, r[4]) = s.level
  BY DEF LevelAfter, Closing
<1>2. ConnectorAfter(s.connector, s.level, r[4]) = Put(s.connector, s.level, sign)
  BY DEF ConnectorAfter, Put
<1> QED  BY <1>1, <1>2 DEF Follow, At, MixedUp

-----------------------------------------------------------------------------
Kinds == SUBSET Separators

\* The sign at a level is the separator that its group has had, if any.
Agrees(sign, kinds) ==
    \/ sign = ""  /\ kinds = {}
    \/ sign = "," /\ kinds = {<<"COMMA">>}
    \/ sign = "|" /\ kinds = {<<"OR">>}

InMixed == {"element3", "element4", "element5"}

\* A handler is where the declaration is, and so is what it remembers of the groups.
Tracked(s, size, d, g) ==
    /\ s = At(s.handler, s.level, s.connector, s.role)
    /\ s.level \in Nat /\ s.connector \in Seq(Signs) /\ size \in Nat
    /\ g \in Seq(Kinds)
    /\ s.handler \in InElement => d = "ELEMENT"
    /\ s.handler \in InAttlist => d = "ATTLIST"
    /\ s.handler \notin Children \union InMixed => g = <<>>
    /\ s.handler \in InMixed => Len(g) = 1 /\ g[1] \subseteq {<<"OR">>}
    /\ s.handler = "element2" => s.level = 1 /\ g[1] = {}
    /\ s.handler \in Children =>
         /\ s.level = Len(g) /\ s.level > 0 /\ s.level < size
         /\ s.level <= Len(s.connector)
         /\ \A l \in 1..s.level : Agrees(s.connector[l], g[l])

ModelInv == state.handler # "error" => Tracked(state, groupSize, declared, groups)

\* A step by way of a row.
Moves(t, r) ==
    /\ r \in Rows
    /\ r[1] = state.handler
    /\ r[2] = t \/ r[2] = <<t[1]>>
    /\ state' = Follow(state, t, r)
    /\ groupSize' = SizeAfter(groupSize, state'.level, state'.role)
    /\ declared' = IF t[1] = "DECL_OPEN" THEN t[2] ELSE declared
    /\ groups' = Regrouped(t)

\* t is of the kind that the row is for; and what is of one word is the token itself.
LEMMA FitsKind ==
    ASSUME NEW t, NEW r, r[2] = t \/ r[2] = <<t[1]>>
    PROVE  /\ r[2][1] = t[1]
           /\ r[2] = Decl("ELEMENT") => t = Decl("ELEMENT")
           /\ r[2] = Decl("ATTLIST") => t = Decl("ATTLIST")
  BY DEF Decl

\* Only the token itself is of the kind of a parenthesis or a separator.
LEMMA TokensAre ==
    ASSUME NEW t \in PrologTokens, t[1] \in ParenKinds
    PROVE  t \in Parens
<1>1. ASSUME NEW r \in Rows, t = r[2] PROVE t \in Parens
  <2>1. CASE Elsewhere(r)
    BY <1>1, <2>1 DEF Elsewhere
  <2>2. CASE InModel(r)
    BY <1>1, <2>2, ParensAre DEF InModel, ParenKinds, OpenParen, Separators,
       NameTokens, Closing, CloseWith, Quantifiers
  <2> QED  BY <2>1, <2>2, RowsAre
<1>2. t # <<"PROLOG_S">> /\ t # <<"INVALID">>
  BY DEF ParenKinds
<1>3. ASSUME NEW w, t \in {Name(w), Decl(w), Pound(w)} PROVE FALSE
  BY <1>3 DEF ParenKinds, Name, Decl, Pound
<1>4. t \in {r[2] : r \in Rows}
  <2>1. t \in {r[2] : r \in Rows} \union {<<"PROLOG_S">>, <<"INVALID">>}
           \/ \E w \in Words : t \in {Name(w), Decl(w), Pound(w)}
    BY DEF PrologTokens
  <2> QED  BY <2>1, <1>2, <1>3
<1> QED  BY <1>1, <1>4

\* What a token does to the groups, case by case.
LEMMA RegroupedIs ==
    ASSUME NEW t
    PROVE  /\ declared # "ELEMENT" \/ t \notin Parens => Regrouped(t) = groups
           /\ declared = "ELEMENT" /\ t = OpenParen => Regrouped(t) = Append(groups, {})
           /\ declared = "ELEMENT" /\ t \in Separators /\ groups # <<>> =>
                Regrouped(t) = [groups EXCEPT ![Len(groups)] = @ \union {t}]
           /\ declared = "ELEMENT" /\ t \in Closing /\ groups # <<>> =>
                Regrouped(t) = SubSeq(groups, 1, Len(groups) - 1)
<1>1. /\ OpenParen \notin Separators \union Closing
      /\ \A k \in Separators : k \notin Closing /\ k # OpenParen
      /\ \A k \in Closing : k \notin Separators /\ k # OpenParen
  BY ClosingIs DEF OpenParen, Separators
<1> DEFINE n == Len(groups)
<1>2. Regrouped(t) =
        IF declared # "ELEMENT" THEN groups
        ELSE IF t = OpenParen THEN Append(groups, {})
        ELSE IF t \in Separators /\ groups # <<>> THEN [groups EXCEPT ![n] = groups[n] \union {t}]
        ELSE IF t \in Closing /\ groups # <<>> THEN SubSeq(groups, 1, n - 1)
        ELSE groups
  BY <1>1 DEF Regrouped, OpenParen
<1> HIDE DEF n
<1>3. declared # "ELEMENT" \/ t \notin Parens => Regrouped(t) = groups
  BY <1>2 DEF Parens
<1>4. declared = "ELEMENT" /\ t = OpenParen => Regrouped(t) = Append(groups, {})
  BY <1>2
<1>5. declared = "ELEMENT" /\ t \in Separators /\ groups # <<>> =>
        Regrouped(t) = [groups EXCEPT ![n] = groups[n] \union {t}]
  BY <1>1, <1>2
<1>6. declared = "ELEMENT" /\ t \in Closing /\ groups # <<>> =>
        Regrouped(t) = SubSeq(groups, 1, n - 1)
  BY <1>1, <1>2
<1> QED  BY <1>3, <1>4, <1>5, <1>6 DEF n

\* Outside a content model no group is open, and none is opened.
LEMMA ElsewhereStep ==
    ASSUME state.handler # "error", ModelInv, NEW t \in PrologTokens, NEW r, Moves(t, r), Elsewhere(r)
    PROVE  Tracked(state', groupSize', declared', groups')
<1>1. /\ r[1] = state.handler /\ r[1] \notin InElement /\ r[4] \notin GroupRoles
      /\ r[3] \in InElement => r[3] = "element0"
      /\ r[3] # "element7" /\ state.handler # "element7"
  BY DEF Moves, Elsewhere, InElement
<1>2. state' = At(r[3], state.level, state.connector, r[4])
  BY <1>1, QuietRow DEF Moves
<1>3. /\ state'.handler = r[3] /\ state'.level = state.level
      /\ state'.connector = state.connector /\ state'.role = r[4]
  BY <1>2 DEF At
<1>4. groupSize' = groupSize
  BY <1>1, <1>3 DEF Moves, SizeAfter, GroupRoles
<1>5. groups = <<>> /\ Tracked(state, groupSize, declared, groups)
  BY <1>1 DEF ModelInv, Tracked, InElement, Children, InMixed
<1>6. groups' = groups
  <2>1. CASE t \notin Parens
    BY <2>1, RegroupedIs DEF Moves
  <2>2. CASE t \in Parens
    <3>1. t[1] \in ParenKinds
      BY <2>2, ParensAre DEF ParenKinds
    <3>2. declared = "ATTLIST"
      BY <1>5, <3>1, FitsKind DEF Moves, Elsewhere, Tracked
    <3> QED  BY <3>2, RegroupedIs DEF Moves
  <2> QED  BY <2>1, <2>2
<1>7. ASSUME r[3] \in InElement PROVE declared' = "ELEMENT"
  <2>1. t = Decl("ELEMENT")
    BY <1>7, FitsKind DEF Moves, Elsewhere
  <2> QED  BY <2>1 DEF Moves, Decl
<1>8. ASSUME r[3] \in InAttlist PROVE declared' = "ATTLIST"
  <2>1. CASE r[1] \in InAttlist
    <3>1. t[1] # "DECL_OPEN"
      BY <2>1, FitsKind DEF Moves, Elsewhere
    <3> QED  BY <1>5, <2>1, <3>1 DEF Moves, Tracked
  <2>2. CASE r[2] = Decl("ATTLIST")
    <3>1. t = Decl("ATTLIST")
      BY <2>2, FitsKind DEF Moves
    <3> QED  BY <3>1 DEF Moves, Decl
  <2> QED  BY <1>8, <2>1, <2>2 DEF Elsewhere
<1>9. state' = At(state'.handler, state'.level, state'.connector, state'.role)
  BY <1>2, <1>3
<1>10. r[3] \notin Children \union InMixed
  BY <1>1 DEF Children, InMixed, InElement
<1> QED  BY <1>3, <1>4, <1>5, <1>6, <1>7, <1>8, <1>9, <1>10 DEF Tracked, Children, InMixed

\* In a content model no other declaration begins.
LEMMA StillElement ==
    ASSUME state.handler # "error", ModelInv, NEW t, NEW r, Moves(t, r), InModel(r)
    PROVE  /\ Tracked(state, groupSize, declared, groups)
           /\ declared = "ELEMENT" /\ declared' = "ELEMENT"
           /\ r[2][1] = t[1]
<1>1. r[1] \in InElement
  BY DEF InModel, InElement
<1>2. r[2][1] # "DECL_OPEN"
  BY ClosingIs DEF InModel, OpenParen, NameTokens
<1>3. r[2][1] = t[1]
  BY FitsKind DEF Moves
<1> QED  BY <1>1, <1>2, <1>3 DEF Moves, ModelInv, Tracked

\* Names are no parentheses.
LEMMA NamesAreQuiet ==
    ASSUME NEW t, t[1] \in {"NAME", "POUND_NAME", "NAME_QUESTION", "NAME_ASTERISK", "NAME_PLUS"}
    PROVE  Regrouped(t) = groups
<1>1. t \notin Parens
  BY ParensAre
<1> QED  BY <1>1, RegroupedIs

\* A token of the kind of a parenthesis that a row is for is the one of the row.
LEMMA RowIsToken ==
    ASSUME NEW t \in PrologTokens, NEW r, Moves(t, r), r[2] \in Parens
    PROVE  r[2] = t
<1>1. r[2][1] \in ParenKinds /\ r[2] = <<r[2][1]>>
  BY ParensAre DEF ParenKinds
<1>2. t \in Parens
  BY <1>1, FitsKind, TokensAre DEF Moves
<1>3. t = <<t[1]>>
  BY <1>2, ParensAre
<1> QED  BY <1>1, <1>3, FitsKind DEF Moves

\* A name in a content model changes no group.
LEMMA QuietStep ==
    ASSUME state.handler # "error", ModelInv, NEW t \in PrologTokens, NEW r, Moves(t, r), InModel(r),
           r[2][1] \in {"NAME", "POUND_NAME", "NAME_QUESTION", "NAME_ASTERISK", "NAME_PLUS"},
           r[4] \notin GroupRoles,
           \/ r[1] = "element0" /\ r[3] = "element1"
           \/ r[1] = "element1" /\ r[3] = "declClose"
           \/ r[1] = "element2" /\ r[3] = "element3"
           \/ r[1] = "element4" /\ r[3] = "element5"
           \/ r[1] \in {"element2", "element6"} /\ r[3] = "element7"
    PROVE  Tracked(state', groupSize', declared', groups')
<1>1. /\ Tracked(state, groupSize, declared, groups) /\ declared = "ELEMENT" /\ declared' = "ELEMENT"
      /\ r[1] = state.handler
  BY StillElement DEF Moves
<1>2. state.handler # "element7" /\ (r[3] = "element7" => state.level # 0)
  BY <1>1 DEF Tracked, Children
<1>3. state' = At(r[3], state.level, state.connector, r[4])
  BY <1>2, QuietRow DEF Moves
<1>4. /\ state'.handler = r[3] /\ state'.level = state.level
      /\ state'.connector = state.connector /\ state'.role = r[4]
  BY <1>3 DEF At
<1>5. groupSize' = groupSize
  BY <1>4 DEF Moves, SizeAfter, GroupRoles
<1>6. groups' = groups
  BY StillElement, NamesAreQuiet DEF Moves
<1>7. state' = At(state'.handler, state'.level, state'.connector, state'.role)
  BY <1>3, <1>4
<1>8. r[3] = "element3" => Len(groups) = 1 /\ groups[1] = {}
  BY <1>1 DEF Tracked, Children
<1>9. r[3] \notin InAttlist /\ r[3] # "element2"
  BY DEF InAttlist
<1> QED  BY <1>1, <1>4, <1>5, <1>6, <1>7, <1>8, <1>9 DEF Tracked, Children, InMixed

\* "(#PCDATA | a)*": one group, that has no other in it.
LEMMA MixedStep ==
    ASSUME state.handler # "error", ModelInv, NEW t \in PrologTokens, NEW r, Moves(t, r), InModel(r),
           r[1] \in {"element3", "element5"}, r[4] \notin GroupRoles,
           \/ r[3] = "declClose" /\ r[2] \in Closing
           \/ r[3] = "element4" /\ r[2] = <<"OR">>
    PROVE  Tracked(state', groupSize', declared', groups')
<1>1. /\ Tracked(state, groupSize, declared, groups) /\ declared = "ELEMENT" /\ declared' = "ELEMENT"
      /\ r[1] = state.handler
  BY StillElement DEF Moves
<1>2. state' = At(r[3], state.level, state.connector, r[4])
  BY <1>1, QuietRow DEF Moves
<1>3. /\ state'.handler = r[3] /\ state'.level = state.level
      /\ state'.connector = state.connector /\ state'.role = r[4]
  BY <1>2 DEF At
<1>4. groupSize' = groupSize
  BY <1>3 DEF Moves, SizeAfter, GroupRoles
<1>5. state' = At(state'.handler, state'.level, state'.connector, state'.role)
  BY <1>2, <1>3
<1>6. groups \in Seq(Kinds) /\ Len(groups) = 1 /\ groups[1] \subseteq {<<"OR">>} /\ groups # <<>>
  BY <1>1 DEF Tracked, InMixed
<1>7. r[2] = t
  BY RowIsToken DEF Parens, Separators
<1>8. CASE r[3] = "declClose" /\ r[2] \in Closing
  <2>1. groups' = SubSeq(groups, 1, 0)
    BY <1>1, <1>6, <1>7, <1>8, RegroupedIs DEF Moves
  <2>2. groups' = <<>>
    BY <2>1, <1>6, SubSeqProperties, EmptySeq
  <2> QED  BY <1>1, <1>3, <1>4, <1>5, <1>8, <2>2
              DEF Tracked, Children, InMixed, InElement, InAttlist
<1>9. CASE r[3] = "element4" /\ r[2] = <<"OR">>
  <2>1. groups' = [groups EXCEPT ![1] = groups[1] \union {<<"OR">>}]
    BY <1>1, <1>6, <1>7, <1>9, RegroupedIs DEF Moves, Separators
  <2>2. groups' \in Seq(Kinds) /\ Len(groups') = 1 /\ groups'[1] \subseteq {<<"OR">>}
    BY <2>1, <1>6, ExceptSeq DEF Kinds, Separators
  <2> QED  BY <1>1, <1>3, <1>4, <1>5, <1>9, <2>2
              DEF Tracked, Children, InMixed, InElement, InAttlist
<1> QED  BY <1>8, <1>9

\* Where a group is opened, what is known of the open groups goes one further.
LEMMA OpenedAgrees ==
    ASSUME NEW c \in Seq(Signs), NEW g \in Seq(Kinds), Len(g) <= Len(c),
           \A l \in 1..Len(g) : Agrees(c[l], g[l]),
           NEW n, n = Len(g) + 1
    PROVE  /\ Put(c, n, "") \in Seq(Signs) /\ n <= Len(Put(c, n, ""))
           /\ Append(g, {}) \in Seq(Kinds) /\ Len(Append(g, {})) = n
           /\ Append(g, {})[n] = {}
           /\ \A l \in 1..n : Agrees(Put(c, n, "")[l], Append(g, {})[l])
<1> DEFINE d == Put(c, n, "")  h == Append(g, {})
<1>1. n \in Nat \ {0} /\ n <= Len(c) + 1 /\ Len(g) \in Nat /\ Len(c) \in Nat
  BY LenProperties
<1>2. /\ d \in Seq(Signs) /\ Len(d) >= n /\ d[n] = ""
      /\ \A l \in 1..Len(c) : l # n => d[l] = c[l]
  <2>1. PICK sign \in Signs : sign = ""
    BY DEF Signs
  <2>2. /\ Put(c, n, sign) \in Seq(Signs) /\ Len(Put(c, n, sign)) >= n /\ Put(c, n, sign)[n] = sign
        /\ \A l \in 1..Len(c) : l # n => Put(c, n, sign)[l] = c[l]
    BY <1>1, PutIs, ZenonT(40)
  <2> QED  BY <2>1, <2>2
<1>3. /\ h \in Seq(Kinds) /\ Len(h) = n /\ h[n] = {}
      /\ \A l \in 1..Len(g) : h[l] = g[l]
  BY AppendProperties DEF Kinds
<1> HIDE DEF d, h
<1>4. ASSUME NEW l \in 1..n PROVE Agrees(d[l], h[l])
  <2>1. CASE l = n
    BY <1>2, <1>3, <2>1 DEF Agrees
  <2>2. CASE l # n
    <3>1. l \in 1..Len(g) /\ l \in 1..Len(c)
      BY <1>1, <2>2
    <3> QED  BY <1>2, <1>3, <2>2, <3>1
  <2> QED  BY <2>1, <2>2
<1>5. Len(d) \in Nat
  BY <1>2, LenProperties
<1>6. n <= Len(d)
  BY <1>1, <1>2, <1>5
<1> QED  BY <1>2, <1>3, <1>4, <1>6 DEF d, h

\* There is room for one level more than before.
LEMMA SizeIs ==
    ASSUME ContentModelAssumption, NEW size \in Nat, NEW n \in Nat \ {0}, n = 1 \/ n <= size
    PROVE  SizeAfter(size, n, "GROUP_OPEN") \in Nat /\ n < SizeAfter(size, n, "GROUP_OPEN")
  BY DEF ContentModelAssumption, SizeAfter

\* A parenthesis opens a group, and a level that is within groupConnector.
LEMMA OpenStep ==
    ASSUME ContentModelAssumption, state.handler # "error", ModelInv, NEW t \in PrologTokens, NEW r,
           Moves(t, r), InModel(r), r[2] = OpenParen, r[4] = "GROUP_OPEN",
           \/ r[1] = "element1" /\ r[3] = "element2"
           \/ r[1] \in {"element2", "element6"} /\ r[3] = "element6"
    PROVE  Tracked(state', groupSize', declared', groups')
<1>1. /\ Tracked(state, groupSize, declared, groups) /\ declared = "ELEMENT" /\ declared' = "ELEMENT"
      /\ r[1] = state.handler
  BY StillElement DEF Moves
<1>2. PICK n : n = Len(groups) + 1
  OBVIOUS
<1>3. /\ state.connector \in Seq(Signs) /\ groups \in Seq(Kinds) /\ groupSize \in Nat
      /\ Len(groups) \in Nat /\ Len(state.connector) \in Nat /\ n \in Nat \ {0}
  BY <1>1, <1>2, LenProperties DEF Tracked
<1>4. \/ state.handler = "element1" /\ n = 1 /\ groups = <<>>
      \/ state.handler = "element2" /\ n = 2
      \/ state.handler = "element6" /\ n = state.level + 1
  BY <1>1, <1>2, <1>3 DEF Tracked, Children, InMixed
<1>5. Follow(state, t, r) = At(r[3], n, Put(state.connector, n, ""), "GROUP_OPEN")
  BY <1>4, OpenRow
<1>6. state' = At(r[3], n, Put(state.connector, n, ""), "GROUP_OPEN")
  BY <1>5 DEF Moves
<1>7. /\ state'.handler = r[3] /\ state'.level = n
      /\ state'.connector = Put(state.connector, n, "") /\ state'.role = "GROUP_OPEN"
  BY <1>6 DEF At
<1>8. state' = At(state'.handler, state'.level, state'.connector, state'.role)
  BY <1>6, <1>7
<1>9. /\ Len(groups) <= Len(state.connector)
      /\ \A l \in 1..Len(groups) : Agrees(state.connector[l], groups[l])
      /\ n = 1 \/ n <= groupSize
  <2>1. CASE state.handler = "element1"
    BY <1>3, <1>4, <2>1
  <2>2. CASE state.handler # "element1"
    BY <1>1, <1>2, <1>3, <1>4, <2>2 DEF Tracked, Children
  <2> QED  BY <2>1, <2>2
<1>10. t = OpenParen
  BY RowIsToken DEF Parens
<1>11. groups' = Append(groups, {})
  BY <1>1, <1>10, RegroupedIs DEF Moves
<1>12. groupSize' \in Nat /\ n < groupSize'
  BY <1>3, <1>7, <1>9, SizeIs DEF Moves
<1>13. /\ state'.connector \in Seq(Signs) /\ n <= Len(state'.connector)
       /\ groups' \in Seq(Kinds) /\ Len(groups') = n /\ groups'[n] = {}
       /\ \A l \in 1..n : Agrees(state'.connector[l], groups'[l])
  <2>1. PICK c : c = state.connector
    OBVIOUS
  <2>2. PICK g : g = groups
    OBVIOUS
  <2>3. /\ c \in Seq(Signs) /\ g \in Seq(Kinds) /\ Len(g) <= Len(c) /\ n = Len(g) + 1
        /\ \A l \in 1..Len(g) : Agrees(c[l], g[l])
    BY <1>2, <1>3, <1>9, <2>1, <2>2
  <2>4. /\ Put(c, n, "") \in Seq(Signs) /\ n <= Len(Put(c, n, ""))
        /\ Append(g, {}) \in Seq(Kinds) /\ Len(Append(g, {})) = n
        /\ Append(g, {})[n] = {}
        /\ \A l \in 1..n : Agrees(Put(c, n, "")[l], Append(g, {})[l])
    BY <2>3, OpenedAgrees
  <2>5. state'.connector = Put(c, n, "") /\ groups' = Append(g, {})
    BY <1>7, <1>11, <2>1, <2>2
  <2> QED  BY <2>4, <2>5
<1>14. r[3] \in {"element2", "element6"} /\ (r[3] = "element2" => n = 1)
  BY <1>1, <1>4
<1>15. state'.handler = r[3] /\ state'.level = n /\ n > 0 /\ n \in Nat
  <2>1. n > 0 /\ n \in Nat
    BY <1>3
  <2> QED  BY <1>7, <2>1
<1>16. r[3] = "element2" => groups'[1] = {}
  BY <1>13, <1>14
<1>17. state'.handler \in Children /\ state'.handler \notin InMixed \union InAttlist
  BY <1>14, <1>15 DEF Children, InMixed, InAttlist
<1> HIDE DEF Children, InMixed
<1> QED  BY <1>1, <1>8, <1>12, <1>13, <1>14, <1>15, <1>16, <1>17 DEF Tracked

\* A parenthesis closes the group of the level: the groups about it are as they were.
LEMMA CloseStep ==
    ASSUME state.handler # "error", ModelInv, NEW t \in PrologTokens, NEW r, Moves(t, r), InModel(r),
           r[1] = "element7", r[3] = "element7", r[2] \in Closing, r[4] \notin GroupRoles
    PROVE  Tracked(state', groupSize', declared', groups') /\ state'.handler # "error"
<1>1. /\ Tracked(state, groupSize, declared, groups) /\ declared = "ELEMENT" /\ declared' = "ELEMENT"
      /\ state.handler = "element7"
  BY StillElement DEF Moves
<1>2. t = r[2] /\ t \in Closing
  BY RowIsToken DEF Parens
<1>3. PICK n : n = state.level - 1
  OBVIOUS
<1>4. state' = At(IF n = 0 THEN "declClose" ELSE "element7", n, state.connector, r[4])
  BY <1>1, <1>2, <1>3, CloseRow DEF Moves
<1>5. /\ state'.handler = IF n = 0 THEN "declClose" ELSE "element7"
      /\ state'.level = n
      /\ state'.connector = state.connector /\ state'.role = r[4]
  BY <1>4 DEF At
<1>6. state' = At(state'.handler, state'.level, state'.connector, state'.role)
  BY <1>4, <1>5
<1>7. /\ groups \in Seq(Kinds) /\ state.level = Len(groups)
      /\ state.level > 0 /\ state.level < groupSize
      /\ state.level <= Len(state.connector) /\ groupSize \in Nat /\ state.connector \in Seq(Signs)
      /\ \A l \in 1..state.level : Agrees(state.connector[l], groups[l])
      /\ Len(groups) \in Nat /\ Len(state.connector) \in Nat
  BY <1>1, LenProperties DEF Tracked, Children
<1>8. n \in Nat /\ n = Len(groups) - 1 /\ groups # <<>>
  BY <1>3, <1>7
<1>9. groups' = SubSeq(groups, 1, n)
  BY <1>1, <1>2, <1>8, RegroupedIs DEF Moves
<1>10. /\ groups' \in Seq(Kinds) /\ Len(groups') = n
       /\ \A l \in 1..n : groups'[l] = groups[l]
  <2>1. 1 \in 1..(Len(groups) + 1) /\ n \in 0..Len(groups)
    BY <1>7, <1>8
  <2> QED  BY <1>7, <1>8, <1>9, <2>1, SubSeqProperties
<1>11. groupSize' = groupSize
  BY <1>5 DEF Moves, SizeAfter, GroupRoles
<1>12. ASSUME NEW l \in 1..n PROVE Agrees(state'.connector[l], groups'[l])
  <2>1. l \in 1..state.level
    BY <1>7, <1>8
  <2>2. Agrees(state.connector[l], groups[l])
    BY <1>7, <2>1
  <2>3. groups'[l] = groups[l]
    BY <1>10
  <2> QED  BY <1>5, <2>2, <2>3
<1>13. n = 0 => groups' = <<>>
  BY <1>10, EmptySeq
<1>14. CASE n = 0
  BY <1>1, <1>5, <1>6, <1>7, <1>10, <1>11, <1>13, <1>14
     DEF Tracked, Children, InMixed, InElement, InAttlist
<1>15. CASE n # 0
  <2>1. n > 0 /\ n < groupSize /\ n <= Len(state.connector)
    BY <1>7, <1>8, <1>15
  <2> QED  BY <1>1, <1>5, <1>6, <1>7, <1>8, <1>10, <1>11, <1>12, <1>15, <2>1
           DEF Tracked, Children, InMixed, InElement, InAttlist
<1> QED  BY <1>14, <1>15

\* An error is where the handlers stay.
LEMMA FailedIs ==
    ASSUME NEW s, s = At(s.handler, s.level, s.connector, s.role)
    PROVE  Failed(s).handler = "error"
  BY DEF Failed, At

\* A separator is taken if and only if the group has no other; it is what the group has
\* from then on.
LEMMA SignStep ==
    ASSUME state.handler # "error", ModelInv, NEW t \in PrologTokens, NEW r, Moves(t, r), InModel(r),
           r[1] = "element7", r[3] = "element6",
           \/ r[2] = <<"COMMA">> /\ r[4] = "GROUP_SEQUENCE"
           \/ r[2] = <<"OR">> /\ r[4] = "GROUP_CHOICE"
    PROVE  /\ state'.handler # "error" => Tracked(state', groupSize', declared', groups')
           /\ groups[Len(groups)] \subseteq {t} => state'.handler # "error"
<1>1. /\ Tracked(state, groupSize, declared, groups) /\ declared = "ELEMENT" /\ declared' = "ELEMENT"
      /\ state.handler = "element7"
  BY StillElement DEF Moves
<1>2. t = r[2] /\ t \in Separators /\ t \notin Closing
  <2>1. r[2] \in Separators
    BY DEF Separators
  <2>2. r[2] = t
    BY <2>1, RowIsToken DEF Parens
  <2>3. \A k \in Separators : k \notin Closing
    BY ClosingIs DEF Separators
  <2> QED  BY <2>1, <2>2, <2>3
<1>3. PICK n : n = state.level
  OBVIOUS
<1>4. PICK c : c = state.connector
  OBVIOUS
<1>5. PICK g : g = groups
  OBVIOUS
<1>6. PICK sign : /\ sign \in Signs
                  /\ \/ r[4] = "GROUP_SEQUENCE" /\ sign = "," /\ t = <<"COMMA">>
                     \/ r[4] = "GROUP_CHOICE" /\ sign = "|" /\ t = <<"OR">>
  BY <1>2 DEF Signs
<1>7. /\ g \in Seq(Kinds) /\ n = Len(g) /\ n > 0 /\ n < groupSize /\ n \in Nat \ {0}
      /\ n <= Len(c) /\ groupSize \in Nat /\ c \in Seq(Signs) /\ Len(c) \in Nat
      /\ \A l \in 1..n : Agrees(c[l], g[l])
  BY <1>1, <1>3, <1>4, <1>5, LenProperties DEF Tracked, Children
<1>8. Follow(state, t, r) =
        IF c[n] \notin {"", sign} THEN Failed(state) ELSE At("element6", n, Put(c, n, sign), r[4])
  <2>1. Follow(state, t, r) =
          IF state.connector[state.level] \notin {"", sign} THEN Failed(state)
          ELSE At("element6", state.level, Put(state.connector, state.level, sign), r[4])
    <3>1. /\ state.handler = "element7" /\ t \notin Closing /\ r[3] = "element6"
          /\ \/ r[4] = "GROUP_SEQUENCE" /\ sign = ","
             \/ r[4] = "GROUP_CHOICE" /\ sign = "|"
      BY <1>1, <1>2, <1>6
    <3> QED  BY <3>1, SignRow
  <2> QED  BY <1>3, <1>4, <2>1
<1>9. g[n] \in Kinds /\ Agrees(c[n], g[n]) /\ n \in 1..Len(g) /\ g # <<>>
  <2>1. n \in 1..Len(g)
    BY <1>7
  <2> QED  BY <1>7, <2>1, ElementOfSeq
<1>10. CASE c[n] \notin {"", sign}
  <2>1. state'.handler = "error"
    BY <1>1, <1>8, <1>10, FailedIs DEF Moves, Tracked
  <2>2. ~(g[n] \subseteq {t})
    <3>1. CASE t = <<"COMMA">> /\ sign = ","
      <4>1. g[n] = {<<"OR">>}
        <5>1. c[n] # "" /\ c[n] # ","
          BY <1>10, <3>1
        <5>2. Agrees(c[n], g[n])
          BY <1>9
        <5> QED  BY <5>1, <5>2 DEF Agrees
      <4>2. <<"COMMA">> # <<"OR">>
        OBVIOUS
      <4> QED  BY <3>1, <4>1, <4>2
    <3>2. CASE t = <<"OR">> /\ sign = "|"
      <4>1. g[n] = {<<"COMMA">>}
        <5>1. c[n] # "" /\ c[n] # "|"
          BY <1>10, <3>2
        <5>2. Agrees(c[n], g[n])
          BY <1>9
        <5> QED  BY <5>1, <5>2 DEF Agrees
      <4>2. <<"COMMA">> # <<"OR">>
        OBVIOUS
      <4> QED  BY <3>2, <4>1, <4>2
    <3> QED  BY <1>6, <3>1, <3>2
  <2> QED  BY <1>5, <1>7, <2>1, <2>2
<1>11. CASE c[n] \in {"", sign}
  <2>1. state' = At("element6", n, Put(c, n, sign), r[4])
    BY <1>8, <1>11 DEF Moves
  <2>2. /\ state'.handler = "element6" /\ state'.level = n
        /\ state'.connector = Put(c, n, sign) /\ state'.role = r[4]
    BY <2>1 DEF At
  <2>3. state' = At(state'.handler, state'.level, state'.connector, state'.role)
    BY <2>1, <2>2
  <2>4. groupSize' = groupSize
    BY <1>6, <2>2 DEF Moves, SizeAfter
  <2>5. groups' = [g EXCEPT ![n] = g[n] \union {t}]
    BY <1>1, <1>2, <1>5, <1>7, <1>9, RegroupedIs DEF Moves
  <2>6. g[n] \union {t} = {t} /\ {t} \in Kinds
    BY <1>2, <1>6, <1>9, <1>11 DEF Agrees, Kinds
  <2>7. /\ groups' \in Seq(Kinds) /\ Len(groups') = n /\ groups'[n] = {t}
        /\ \A l \in 1..n : l # n => groups'[l] = g[l]
    <3>1. groups' = [g EXCEPT ![n] = {t}]
      BY <2>5, <2>6
    <3> QED  BY <1>7, <1>9, <2>6, <3>1, ExceptSeq
  <2>8. n <= Len(c) + 1
    BY <1>7
  <2>9. /\ state'.connector \in Seq(Signs) /\ Len(state'.connector) >= n
        /\ state'.connector[n] = sign
        /\ \A l \in 1..Len(c) : l # n => state'.connector[l] = c[l]
    <3>1. /\ Put(c, n, sign) \in Seq(Signs) /\ Len(Put(c, n, sign)) >= n
          /\ Put(c, n, sign)[n] = sign
          /\ \A l \in 1..Len(c) : l # n => Put(c, n, sign)[l] = c[l]
      <4>1. c \in Seq(Signs) /\ n \in Nat \ {0} /\ sign \in Signs /\ n <= Len(c) + 1
        BY <1>6, <1>7, <2>8
      <4> QED  BY <4>1, PutIs
    <3> QED  BY <2>2, <3>1
  <2>10. ASSUME NEW l \in 1..n PROVE Agrees(state'.connector[l], groups'[l])
    <3>1. CASE l = n
      BY <1>6, <2>7, <2>9, <3>1 DEF Agrees
    <3>2. CASE l # n
      <4>1. l \in 1..Len(c)
        BY <1>7
      <4> QED  BY <1>7, <2>7, <2>9, <3>2, <4>1
    <3> QED  BY <3>1, <3>2
  <2>11. n <= Len(state'.connector)
    <3>1. Len(state'.connector) \in Nat
      BY <2>9, LenProperties
    <3> QED  BY <1>7, <2>9, <3>1
  <2>12. /\ state'.handler \in Children /\ state'.handler \notin InMixed \union InAttlist
         /\ state'.handler # "element2"
    BY <2>2 DEF Children, InMixed, InAttlist
  <2>13. Tracked(state', groupSize', declared', groups')
    BY <1>1, <1>7, <2>2, <2>3, <2>4, <2>7, <2>9, <2>10, <2>11, <2>12 DEF Tracked
  <2> QED  BY <2>2, <2>13
<1> QED  BY <1>10, <1>11

\* Any row.
LEMMA RowStep ==
    ASSUME ContentModelAssumption, state.handler # "error", ModelInv,
           NEW t \in PrologTokens, NEW r, Moves(t, r)
    PROVE  state'.handler # "error" => Tracked(state', groupSize', declared', groups')
<1>1. CASE Elsewhere(r)
  BY <1>1, ElsewhereStep
<1>2. CASE InModel(r)
  <2>1. CASE /\ r[1] = "element7" /\ r[3] = "element6"
             /\ \/ r[2] = <<"COMMA">> /\ r[4] = "GROUP_SEQUENCE"
                \/ r[2] = <<"OR">> /\ r[4] = "GROUP_CHOICE"
    BY <1>2, <2>1, SignStep
  <2>2. CASE r[1] = "element7" /\ r[3] = "element7" /\ r[2] \in Closing /\ r[4] \notin GroupRoles
    BY <1>2, <2>2, CloseStep
  <2>3. CASE /\ r[2] = OpenParen /\ r[4] = "GROUP_OPEN"
             /\ \/ r[1] = "element1" /\ r[3] = "element2"
                \/ r[1] \in {"element2", "element6"} /\ r[3] = "element6"
    BY <1>2, <2>3, OpenStep
  <2>4. CASE /\ r[1] \in {"element3", "element5"} /\ r[4] \notin GroupRoles
             /\ \/ r[3] = "declClose" /\ r[2] \in Closing
                \/ r[3] = "element4" /\ r[2] = <<"OR">>
    BY <1>2, <2>4, MixedStep
  <2>5. CASE /\ r[2][1] \in {"NAME", "POUND_NAME", "NAME_QUESTION", "NAME_ASTERISK", "NAME_PLUS"}
             /\ r[4] \notin GroupRoles
             /\ \/ r[1] = "element0" /\ r[3] = "element1"
                \/ r[1] = "element1" /\ r[3] = "declClose"
                \/ r[1] = "element2" /\ r[3] = "element3"
                \/ r[1] = "element4" /\ r[3] = "element5"
                \/ r[1] \in {"element2", "element6"} /\ r[3] = "element7"
    BY <1>2, <2>5, QuietStep
  <2>6. "NONE" \notin GroupRoles
    BY DEF GroupRoles
  <2> QED  BY <1>2, <2>1, <2>2, <2>3, <2>4, <2>5, <2>6 DEF InModel, NameTokens
<1> QED  BY <1>1, <1>2, RowsAre DEF Moves

\* What a token does.
LEMMA TokenDoes ==
    ASSUME state.handler # "error", ModelInv, NEW t \in PrologTokens, state' = TokenRole(state, t),
           groupSize' = SizeAfter(groupSize, state'.level, state'.role),
           declared' = (IF t[1] = "DECL_OPEN" THEN t[2] ELSE declared),
           groups' = Regrouped(t)
    PROVE  \/ state'.handler = "error"
           \/ /\ t = <<"PROLOG_S">>
              /\ state' = At(state.handler, state.level, state.connector, "NONE")
              /\ groupSize' = groupSize /\ declared' = declared /\ groups' = groups
           \/ \E r : Moves(t, r)
<1>1. state = At(state.handler, state.level, state.connector, state.role)
  BY DEF ModelInv, Tracked
<1>2. CASE state' = Failed(state)
  BY <1>1, <1>2, FailedIs
<1>3. CASE t = <<"PROLOG_S">> /\ state' = [state EXCEPT !.role = "NONE"]
  <2>1. state' = At(state.handler, state.level, state.connector, "NONE") /\ state'.role = "NONE"
    BY <1>1, <1>3 DEF At
  <2>2. groupSize' = groupSize
    BY <2>1 DEF SizeAfter
  <2>3. t \notin Parens
    BY <1>3, ParensAre
  <2> QED  BY <1>3, <2>1, <2>2, <2>3, RegroupedIs
<1>4. CASE \E r \in Rows : /\ r[1] = state.handler
                           /\ r[2] = t \/ r[2] = <<t[1]>>
                           /\ state' = Follow(state, t, r)
  BY <1>4 DEF Moves
<1> QED  BY <1>2, <1>3, <1>4, RoleIs

\* The invariant holds at first,
LEMMA ModelInit == HandlersInit => ModelInv
<1>1. /\ <<>> \in Seq(Signs) /\ <<>> \in Seq(Kinds) /\ Len(<<>>) = 0
  BY EmptySeq
<1>2. ASSUME HandlersInit PROVE Tracked(state, groupSize, declared, groups)
  BY <1>1, <1>2 DEF HandlersInit, PrologStateInit, Tracked, At, Children, InMixed, InElement, InAttlist
<1> QED  BY <1>2 DEF ModelInv

\* is kept by every token,
LEMMA ModelStep ==
    ASSUME ContentModelAssumption, ModelInv, [HandlersNext]_modelVars
    PROVE  ModelInv'
<1>1. CASE UNCHANGED modelVars
  BY <1>1 DEF modelVars, ModelInv, Tracked
<1>2. ASSUME NEW t \in PrologTokens, state.handler # "error", state' = TokenRole(state, t),
             groupSize' = SizeAfter(groupSize, state'.level, state'.role),
             declared' = (IF t[1] = "DECL_OPEN" THEN t[2] ELSE declared),
             groups' = Regrouped(t)
      PROVE  ModelInv'
  <2>1. CASE state'.handler = "error"
    BY <2>1 DEF ModelInv
  <2>2. CASE /\ state' = At(state.handler, state.level, state.connector, "NONE")
             /\ groupSize' = groupSize /\ declared' = declared /\ groups' = groups
    <3>1. /\ state'.handler = state.handler /\ state'.level = state.level
          /\ state'.connector = state.connector /\ state'.role = "NONE"
      BY <2>2 DEF At
    <3>2. state' = At(state'.handler, state'.level, state'.connector, state'.role)
      BY <2>2, <3>1
    <3>3. Tracked(state', groupSize', declared', groups')
      BY <1>2, <2>2, <3>1, <3>2 DEF ModelInv, Tracked
    <3> QED  BY <3>3 DEF ModelInv
  <2>3. CASE \E r : Moves(t, r)
    BY <1>2, <2>3, RowStep DEF ModelInv
  <2> QED  BY <1>2, <2>1, <2>2, <2>3, TokenDoes
<1> QED  BY <1>1, <1>2 DEF HandlersNext, TakeToken

\* and holds always.
LEMMA ModelAlways == HandlersSpec => []ModelInv
<1>1. ModelInv /\ [HandlersNext]_modelVars => ModelInv'
  BY ContentModelAssumption, ModelStep
<1> QED  BY ModelInit, <1>1, PTL DEF HandlersSpec

\* Where there is a row for a token, a row is followed.
LEMMA RowIsFollowed ==
    ASSUME NEW s, s.handler # "error", NEW t, NEW fit \in Rows, fit[1] = s.handler, fit[2] = t
    PROVE  \E r \in Rows : /\ r[1] = s.handler
                           /\ r[2] = t \/ r[2] = <<t[1]>>
                           /\ TokenRole(s, t) = Follow(s, t, r)
<1> DEFINE rows == {r \in Rows : r[1] = s.handler /\ (r[2] = t \/ r[2] = <<t[1]>>)}
           row == CHOOSE r \in rows : TRUE
<1>1. fit \in rows
  OBVIOUS
<1>2. TokenRole(s, t) = Follow(s, t, row)
  BY <1>1 DEF TokenRole
<1>3. row \in rows
  BY <1>1
<1> HIDE DEF row
<1> QED  BY <1>2, <1>3

\* There are rows for separators and ends of groups behind a member.
LEMMA MemberRows ==
    ASSUME NEW t \in Closing \union Separators
    PROVE  \E r \in Rows : r[1] = "element7" /\ r[2] = t
<1>1. CASE t \in Closing
  <2>1. PICK q \in Quantifiers : t = CloseWith(q)
    BY <1>1 DEF Closing
  <2>2. Row("element7", CloseWith(q), "element7", CloseRole(q)) \in Rows
    BY DEF Rows, ChildrenRows
  <2> QED  BY <2>1, <2>2 DEF Row
<1>2. CASE t \in Separators
  <2>1. /\ Row("element7", <<"COMMA">>, "element6", "GROUP_SEQUENCE") \in Rows
        /\ Row("element7", <<"OR">>, "element6", "GROUP_CHOICE") \in Rows
    BY DEF Rows, ChildrenRows
  <2> QED  BY <1>2, <2>1 DEF Row, Separators
<1> QED  BY <1>1, <1>2

\* The level of the handlers is the depth of the groups, to any depth, and within
\* groupConnector; with the last parenthesis the content model is left.
THEOREM LevelIsDepthAlways == HandlersSpec => []LevelIsDepth
<1>1. ModelInv => LevelIsDepth
  BY DEF ModelInv, Tracked, LevelIsDepth, InMixed, Children
<1> QED  BY ModelAlways, <1>1, PTL

\* What separates the members of a group is of one kind, in groups of any depth.
THEOREM GroupsAreOfOneKindAlways == HandlersSpec => []GroupsAreOfOneKind
<1>1. ModelInv => GroupsAreOfOneKind
  <2> SUFFICES ASSUME ModelInv, state.handler # "error", NEW l \in 1..Len(groups)
               PROVE  \A s, t \in groups[l] : s = t
    BY DEF GroupsAreOfOneKind
  <2>1. Tracked(state, groupSize, declared, groups)
    BY DEF ModelInv
  <2>2. CASE state.handler \in Children
    <3>1. Agrees(state.connector[l], groups[l])
      BY <2>1, <2>2 DEF Tracked
    <3> QED  BY <3>1 DEF Agrees
  <2>3. CASE state.handler \in InMixed
    BY <2>1, <2>3 DEF Tracked
  <2>4. CASE state.handler \notin Children \union InMixed
    <3>1. Len(groups) = 0
      BY <2>1, <2>4, EmptySeq DEF Tracked
    <3> QED  BY <3>1
  <2> QED  BY <2>2, <2>3, <2>4
<1> QED  BY ModelAlways, <1>1, PTL

\* The handlers know what the parentheses and the separators of a content model say, however
\* its groups are nested (xmlrole.c element0 to element7, xmlparse.c doProlog).
THEOREM GroupsAreTrackedAlways == HandlersSpec => []GroupsAreTracked
<1>1. LevelIsDepth /\ GroupsAreOfOneKind => GroupsAreTracked
  BY DEF GroupsAreTracked
<1> QED  BY LevelIsDepthAlways, GroupsAreOfOneKindAlways, <1>1, PTL

\* No separator that a group may have is refused, and no end of a group.
THEOREM GroupsGoOnAlways == HandlersSpec => GroupsGoOn
<1> DEFINE goOn == /\ state.handler = "element7"
                   /\ \/ lastToken' \in Closing
                      \/ lastToken' \in Separators /\ groups[Len(groups)] \subseteq {lastToken'}
                   => state'.handler # "error"
<1>1. ModelInv /\ [HandlersNext]_modelVars => [goOn]_modelVars
  <2> SUFFICES ASSUME ModelInv, HandlersNext, state.handler = "element7",
                      \/ lastToken' \in Closing
                      \/ lastToken' \in Separators /\ groups[Len(groups)] \subseteq {lastToken'}
               PROVE  state'.handler # "error"
    OBVIOUS
  <2>1. PICK t \in PrologTokens : /\ state.handler # "error"
                                  /\ state' = TokenRole(state, t)
                                  /\ groupSize' = SizeAfter(groupSize, state'.level, state'.role)
                                  /\ lastToken' = t
                                  /\ declared' = IF t[1] = "DECL_OPEN" THEN t[2] ELSE declared
                                  /\ groups' = Regrouped(t)
    BY DEF HandlersNext, TakeToken
  <2>2. PICK fit \in Rows : fit[1] = "element7" /\ fit[2] = t
    BY <2>1, MemberRows
  <2>3. PICK r \in Rows : /\ r[1] = state.handler
                          /\ r[2] = t \/ r[2] = <<t[1]>>
                          /\ TokenRole(state, t) = Follow(state, t, r)
    BY <2>1, <2>2, RowIsFollowed
  <2>4. Moves(t, r) /\ r[1] = "element7"
    BY <2>1, <2>3 DEF Moves
  <2>5. InModel(r)
    BY <2>3, <2>4, RowsAre DEF Elsewhere, InElement
  <2>6. t \in Parens
    BY <2>1 DEF Parens
  <2>7. r[2] = t
    BY <2>3, <2>6, ParensAre
  <2>8. CASE t \in Closing
    <3>1. r[3] = "element7" /\ r[4] \notin GroupRoles
      BY <2>4, <2>5, <2>7, <2>8, ClosingIs DEF InModel
    <3> QED  BY <2>1, <2>4, <2>5, <2>7, <2>8, <3>1, CloseStep
  <2>9. CASE t \in Separators /\ groups[Len(groups)] \subseteq {t}
    <3>1. /\ r[3] = "element6"
          /\ \/ r[2] = <<"COMMA">> /\ r[4] = "GROUP_SEQUENCE"
             \/ r[2] = <<"OR">> /\ r[4] = "GROUP_CHOICE"
      BY <2>4, <2>5, <2>7, <2>9, ClosingIs DEF InModel, Separators
    <3> QED  BY <2>1, <2>4, <2>5, <2>9, <3>1, SignStep
  <2> QED  BY <2>1, <2>8, <2>9
<1> QED  BY ModelAlways, <1>1, PTL DEF HandlersSpec, GroupsGoOn
=============================================================================
