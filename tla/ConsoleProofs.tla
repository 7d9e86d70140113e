---------------------------- MODULE ConsoleProofs ---------------------------
(***************************************************************************)
(* The console loses and reorders no character and no PutChar finds it     *)
(* busy, for any threads, characters, texts and sizes.                     *)
(*                                                                         *)
(* ConsoleInv /\ TextIsKept is inductive.  It is taken in four parts: the  *)
(* types and the locks; what each call keeps of its own; the display; the  *)
(* keyboard.                                                               *)
(***************************************************************************)
EXTENDS Console, SequenceTheorems, TLAPS

USE ConsoleAssumption

Bytes == Chars \cup {EOF}

Inv == ConsoleInv /\ TextIsKept

-----------------------------------------------------------------------------
(* Sequences *)

\* Moving the first element of a sequence to the one before.
LEMMA HeadMoves ==
  ASSUME NEW S, NEW s \in Seq(S), NEW q \in Seq(S), q # <<>>
  PROVE  (s \o <<>>) \o q = (s \o <<Head(q)>>) \o Tail(q)
<1>1. Head(q) \in S /\ Tail(q) \in Seq(S) /\ <<Head(q)>> \in Seq(S)
  BY HeadTailProperties
<1>2. q = <<Head(q)>> \o Tail(q)
  <2> DEFINE h == <<Head(q)>>
  <2>1. /\ h \o Tail(q) \in Seq(S) /\ Len(h \o Tail(q)) = Len(h) + Len(Tail(q))
        /\ \A i \in 1 .. Len(h) + Len(Tail(q)) :
             (h \o Tail(q))[i] = IF i <= Len(h) THEN h[i] ELSE Tail(q)[i - Len(h)]
    BY <1>1, ConcatProperties
  <2>2. Len(h) = 1 /\ h[1] = q[1] /\ Len(q) > 0
    OBVIOUS
  <2>3. Len(Tail(q)) = Len(q) - 1 /\ \A i \in 1 .. Len(Tail(q)) : Tail(q)[i] = q[i + 1]
    BY HeadTailProperties
  <2> HIDE DEF h
  <2>4. Len(q) = Len(h \o Tail(q)) /\ \A i \in 1 .. Len(q) : q[i] = (h \o Tail(q))[i]
    BY <2>1, <2>2, <2>3
  <2>5. q = h \o Tail(q)
    BY <2>1, <2>4, SeqEqual
  <2> QED BY <2>5 DEF h
<1>3. s \o <<>> = s
  BY ConcatEmptySeq
<1>4. (s \o <<Head(q)>>) \o Tail(q) = s \o (<<Head(q)>> \o Tail(q))
  BY <1>1, ConcatAssociative, SMTT(60)
<1> QED BY <1>2, <1>3, <1>4, SMTT(60)

\* Appending to the last of the sequences of a concatenation.
LEMMA AppendLast ==
  ASSUME NEW s \in Seq(Bytes), NEW q \in Seq(Bytes), NEW c \in Bytes
  PROVE  Append(s \o q, c) = s \o Append(q, c)
<1>1. s \o q \in Seq(Bytes) /\ <<c>> \in Seq(Bytes)
  BY ConcatProperties
<1>2. Append(s \o q, c) = (s \o q) \o <<c>> /\ Append(q, c) = q \o <<c>>
  BY <1>1, AppendIsConcat, Zenon
<1>3. (s \o q) \o <<c>> = s \o (q \o <<c>>)
  BY <1>1, ConcatAssociative, SMTT(60)
<1> QED BY <1>2, <1>3

-----------------------------------------------------------------------------
(* The types and the locks *)

LEMMA InitInv == Init => Inv
<1> SUFFICES ASSUME Init PROVE Inv
  OBVIOUS
<1> USE DEF Init, ConsoleInit, RL!Init, WL!Init
<1>1. TypeOK
  <2>1. "idle" \in Places
    BY DEF Places
  <2>2. <<>> \in Seq(Chars) /\ <<>> \in Seq(Chars \cup {EOF})
    OBVIOUS
  <2> QED BY <2>1, <2>2, Zenon DEF TypeOK
<1>2. HoldersAreInside
  BY Zenon DEF HoldersAreInside, Reading, Writing
<1>3. CallsMatch /\ ReadFitsBuffer /\ WholeTextIsShown
  BY DEF CallsMatch, ReadFitsBuffer, WholeTextIsShown, Reading, Writing
<1>4. OneCompletion /\ PutFindsIdle
  BY DEF OneCompletion, PutFindsIdle
<1>5. UnitMeansCharacter /\ NothingTypedIsLost
  BY DEF UnitMeansCharacter, NothingTypedIsLost, Buffered
<1> QED BY <1>1, <1>2, <1>3, <1>4, <1>5 DEF Inv, ConsoleInv, TextIsKept

\* The places are places.
LEMMA PlacesAre ==
  /\ {"idle", "return", "acquireRead", "awaitChar", "get", "releaseRead"} \subseteq Places
  /\ {"acquireWrite", "put", "awaitDone", "releaseWrite"} \subseteq Places
  BY DEF Places, Reading, Writing

\* The step of a thread moves its own pc.
LEMMA MoveIsOwn ==
  ASSUME TypeOK, NEW t \in Threads, NEW from, NEW to \in Places, Move(t, from, to)
  PROVE  /\ pc' \in [Threads -> Places]
         /\ pc[t] = from /\ pc'[t] = to /\ \A u \in Threads \ {t} : pc'[u] = pc[u]
  BY DEF TypeOK, Move

\* Every step keeps the types.
LEMMA TypeStep ==
  ASSUME TypeOK, CallsMatch, Next
  PROVE  TypeOK'
<1> USE DEF inVars, outVars, callVars
<1>1. ASSUME NEW c \in Chars, Type(c) PROVE TypeOK'
  BY <1>1, AppendProperties, Zenon DEF Type, TypeOK
<1>2. CASE CheckCharAvail
  <2>1. cread' \in Nat
    BY <1>2 DEF CheckCharAvail, RequestRead, TypeOK
  <2>2. keyboard' \in Seq(Chars) /\ incoming' \in Chars \cup {EOF}
    BY <1>2, HeadTailProperties DEF CheckCharAvail, TypeOK
  <2> QED BY <1>2, <2>1, <2>2, Zenon DEF CheckCharAvail, TypeOK
<1>3. CASE WriteDone
  <2>1. scheduled' \in Nat /\ cwrite' \in Nat
    BY <1>3 DEF WriteDone, RequestWrite, TypeOK
  <2> QED BY <1>3, <2>1, Zenon DEF WriteDone, TypeOK
<1>4. ASSUME NEW t \in Threads, Step(t) PROVE TypeOK'
  <2>1. CASE AcquireRead(t)
    BY <2>1, MoveIsOwn, PlacesAre, Zenon DEF AcquireRead, RL!Acquire, TypeOK
  <2>2. CASE AwaitChar(t)
    <3>1. cread' \in Nat
      BY <2>2 DEF AwaitChar, TypeOK
    <3>2. pc' \in [Threads -> Places]
      BY <2>2, MoveIsOwn, PlacesAre DEF AwaitChar
    <3> QED BY <2>2, <3>1, <3>2, Zenon DEF AwaitChar, TypeOK
  <2>3. CASE GetChar(t)
    <3>1. /\ Append(taken, incoming) \in Seq(Chars \cup {EOF})
          /\ Append(buffer[t], incoming) \in Seq(Chars \cup {EOF})
      BY DEF TypeOK
    <3>2. pc' \in [Threads -> Places]
      BY <2>3, MoveIsOwn, PlacesAre DEF GetChar
    <3> QED BY <2>3, <3>1, <3>2, Zenon DEF GetChar, TypeOK
  <2>4. CASE ReleaseRead(t)
    <3>1. bytes' \in [Threads -> Nat]
      BY <2>4, SMTT(60) DEF ReleaseRead, TypeOK
    <3>2. pc' \in [Threads -> Places]
      BY <2>4, MoveIsOwn, PlacesAre DEF ReleaseRead
    <3> QED BY <2>4, <3>1, <3>2, Zenon DEF ReleaseRead, RL!Release, TypeOK
  <2>5. CASE AcquireWrite(t)
    BY <2>5, MoveIsOwn, PlacesAre, Zenon DEF AcquireWrite, WL!Acquire, TypeOK
  <2>6. CASE PutChar(t)
    <3>1. buffer[t][bytes[t] + 1] \in Chars \cup {EOF}
      <4>1. pc[t] \in Writing
        BY <2>6 DEF PutChar, Move, Writing
      <4>2. Len(buffer[t]) = lon[t] /\ bytes[t] < lon[t]
        BY <4>1 DEF CallsMatch
      <4>3. bytes[t] \in Nat /\ lon[t] \in Nat /\ buffer[t] \in Seq(Chars \cup {EOF})
        BY DEF TypeOK
      <4> QED BY <4>2, <4>3, ElementOfSeq
    <3>2. Append(shown[t], buffer[t][bytes[t] + 1]) \in Seq(Chars \cup {EOF})
      BY <3>1 DEF TypeOK
    <3>3. scheduled' \in Nat
      BY <2>6 DEF PutChar, TypeOK
    <3>4. pc' \in [Threads -> Places]
      BY <2>6, MoveIsOwn, PlacesAre DEF PutChar
    <3> QED BY <2>6, <3>2, <3>3, <3>4, Zenon DEF PutChar, TypeOK
  <2>7. CASE AwaitDone(t)
    <3>1. cwrite' \in Nat
      BY <2>7 DEF AwaitDone, TypeOK
    <3>2. pc' \in [Threads -> Places]
      BY <2>7, MoveIsOwn, PlacesAre DEF AwaitDone
    <3> QED BY <2>7, <3>1, <3>2, Zenon DEF AwaitDone, TypeOK
  <2>8. CASE ReleaseWrite(t)
    <3>1. bytes' \in [Threads -> Nat]
      BY <2>8, SMTT(60) DEF ReleaseWrite, TypeOK
    <3>2. pc' \in [Threads -> Places]
      BY <2>8, MoveIsOwn, PlacesAre DEF ReleaseWrite
    <3> QED BY <2>8, <3>1, <3>2, Zenon DEF ReleaseWrite, WL!Release, TypeOK
  <2>9. CASE Return(t)
    <3>1. lon' \in [Threads -> Nat] /\ bytes' \in [Threads -> Nat]
      BY <2>9, SMTT(60) DEF Return, TypeOK
    <3>2. <<>> \in Seq(Chars \cup {EOF})
      OBVIOUS
    <3>3. /\ buffer' \in [Threads -> Seq(Chars \cup {EOF})]
          /\ shown' \in [Threads -> Seq(Chars \cup {EOF})]
      BY <2>9, <3>2, Zenon DEF Return, TypeOK
    <3>4. pc' \in [Threads -> Places]
      BY <2>9, MoveIsOwn, PlacesAre DEF Return
    <3> QED BY <2>9, <3>1, <3>3, <3>4, Zenon DEF Return, TypeOK
  <2> QED BY <1>4, <2>1, <2>2, <2>3, <2>4, <2>5, <2>6, <2>7, <2>8, <2>9
          DEF Step, ReadStep, WriteStep
<1>5. ASSUME NEW t \in Threads, NEW n \in Lengths, Read(t, n) PROVE TypeOK'
  <2>1. pc' \in [Threads -> Places]
    BY <1>5, MoveIsOwn, PlacesAre DEF Read
  <2>2. lon' \in [Threads -> Nat] /\ bytes' \in [Threads -> Nat]
    BY <1>5, Zenon DEF Read, TypeOK
  <2>3. <<>> \in Seq(Chars \cup {EOF})
    OBVIOUS
  <2>4. buffer' \in [Threads -> Seq(Chars \cup {EOF})]
    BY <1>5, <2>3, SMTT(60) DEF Read, TypeOK
  <2> QED BY <1>5, <2>1, <2>2, <2>4, Zenon DEF Read, TypeOK
<1>6. ASSUME NEW t \in Threads, NEW s \in Texts, Write(t, s) PROVE TypeOK'
  <2>1. pc' \in [Threads -> Places]
    BY <1>6, MoveIsOwn, PlacesAre DEF Write
  <2>2. s \in Seq(Chars \cup {EOF}) /\ Len(s) \in Nat
    <3>1. s \in Seq(Chars)
      OBVIOUS
    <3> QED BY <3>1, SeqMonotonic
  <2>3. lon' \in [Threads -> Nat] /\ bytes' \in [Threads -> Nat]
    BY <1>6, <2>2, SMTT(60) DEF Write, TypeOK
  <2>4. <<>> \in Seq(Chars \cup {EOF})
    OBVIOUS
  <2>5. /\ buffer' \in [Threads -> Seq(Chars \cup {EOF})]
        /\ shown' \in [Threads -> Seq(Chars \cup {EOF})]
    BY <1>6, <2>2, <2>4, Zenon DEF Write, TypeOK
  <2> QED BY <1>6, <2>1, <2>3, <2>5, Zenon DEF Write, TypeOK
<1> QED BY <1>1, <1>2, <1>3, <1>4, <1>5, <1>6 DEF Next

\* Every step keeps the holders of the locks between Acquire and Release.
LEMMA HoldersStep ==
  ASSUME TypeOK, HoldersAreInside, Next
  PROVE  HoldersAreInside'
<1> USE DEF inVars, outVars, callVars, HoldersAreInside, Reading, Writing
<1>1. ASSUME NEW c \in Chars, Type(c) PROVE HoldersAreInside'
  BY <1>1 DEF Type
<1>2. CASE CheckCharAvail
  BY <1>2 DEF CheckCharAvail
<1>3. CASE WriteDone
  BY <1>3 DEF WriteDone
<1>4. ASSUME NEW t \in Threads, Step(t) PROVE HoldersAreInside'
  <2>1. CASE AcquireRead(t)
    BY <2>1, MoveIsOwn, PlacesAre DEF AcquireRead, RL!Acquire
  <2>2. CASE AwaitChar(t)
    BY <2>2, MoveIsOwn, PlacesAre DEF AwaitChar
  <2>3. CASE GetChar(t)
    BY <2>3, MoveIsOwn, PlacesAre DEF GetChar
  <2>4. CASE ReleaseRead(t)
    <3>1. /\ pc[t] = "releaseRead" /\ pc'[t] \in {"return", "acquireRead"}
          /\ \A u \in Threads \ {t} : pc'[u] = pc[u]
      BY <2>4, MoveIsOwn, PlacesAre DEF ReleaseRead
    <3> QED BY <2>4, <3>1 DEF ReleaseRead, RL!Release
  <2>5. CASE AcquireWrite(t)
    BY <2>5, MoveIsOwn, PlacesAre DEF AcquireWrite, WL!Acquire
  <2>6. CASE PutChar(t)
    BY <2>6, MoveIsOwn, PlacesAre DEF PutChar
  <2>7. CASE AwaitDone(t)
    BY <2>7, MoveIsOwn, PlacesAre DEF AwaitDone
  <2>8. CASE ReleaseWrite(t)
    <3>1. /\ pc[t] = "releaseWrite" /\ pc'[t] \in {"return", "acquireWrite"}
          /\ \A u \in Threads \ {t} : pc'[u] = pc[u]
      BY <2>8, MoveIsOwn, PlacesAre DEF ReleaseWrite
    <3> QED BY <2>8, <3>1 DEF ReleaseWrite, WL!Release
  <2>9. CASE Return(t)
    BY <2>9, MoveIsOwn, PlacesAre DEF Return
  <2> QED BY <1>4, <2>1, <2>2, <2>3, <2>4, <2>5, <2>6, <2>7, <2>8, <2>9
          DEF Step, ReadStep, WriteStep
<1>5. ASSUME NEW t \in Threads, NEW n \in Lengths, Read(t, n) PROVE HoldersAreInside'
  <2>1. /\ pc[t] = "idle" /\ pc'[t] \in {"return", "acquireRead"}
        /\ \A u \in Threads \ {t} : pc'[u] = pc[u]
    BY <1>5, MoveIsOwn, PlacesAre DEF Read
  <2> QED BY <1>5, <2>1 DEF Read
<1>6. ASSUME NEW t \in Threads, NEW s \in Texts, Write(t, s) PROVE HoldersAreInside'
  <2>1. /\ pc[t] = "idle" /\ pc'[t] \in {"return", "acquireWrite"}
        /\ \A u \in Threads \ {t} : pc'[u] = pc[u]
    BY <1>6, MoveIsOwn, PlacesAre DEF Write
  <2> QED BY <1>6, <2>1 DEF Write
<1> QED BY <1>1, <1>2, <1>3, <1>4, <1>5, <1>6 DEF Next

-----------------------------------------------------------------------------
(* What each call keeps of its own *)

\* CallsMatch, ReadFitsBuffer and WholeTextIsShown of one thread.
Call(t) ==
  /\ pc[t] = "idle" => shown[t] = <<>> /\ buffer[t] = <<>>
  /\ pc[t] \in Reading =>
       /\ shown[t] = <<>> /\ bytes[t] < lon[t]
       /\ Len(buffer[t]) = bytes[t] + (IF pc[t] = "releaseRead" THEN 1 ELSE 0)
       /\ \A i \in 1 .. bytes[t] : buffer[t][i] # Newline
  /\ pc[t] \in Writing =>
       /\ Len(buffer[t]) = lon[t] /\ bytes[t] < lon[t]
       /\ Len(shown[t]) = bytes[t] + (IF pc[t] \in {"awaitDone", "releaseWrite"} THEN 1 ELSE 0)
       /\ \A i \in 1 .. Len(shown[t]) : shown[t][i] = buffer[t][i]
  /\ Len(buffer[t]) <= lon[t]
  /\ pc[t] = "return" /\ shown[t] = <<>> =>
       /\ \A i \in 1 .. bytes[t] : buffer[t][i] # Newline
       /\ bytes[t] < lon[t] => Len(buffer[t]) = bytes[t] + 1
  /\ pc[t] = "return" /\ shown[t] # <<>> => shown[t] = buffer[t]

LEMMA CallsAre ==
  CallsMatch /\ ReadFitsBuffer /\ WholeTextIsShown <=> \A t \in Threads : Call(t)
  BY DEF CallsMatch, ReadFitsBuffer, WholeTextIsShown, Call

\* The variables of a call have their types.
LEMMA CallType ==
  ASSUME TypeOK, NEW t \in Threads
  PROVE  /\ lon[t] \in Nat /\ bytes[t] \in Nat
         /\ buffer[t] \in Seq(Chars \cup {EOF}) /\ shown[t] \in Seq(Chars \cup {EOF})
  BY SMTT(60) DEF TypeOK

\* A call whose thread does nothing stays as it is.
LEMMA CallRests ==
  ASSUME NEW t \in Threads, Call(t), pc'[t] = pc[t], lon'[t] = lon[t],
         bytes'[t] = bytes[t], buffer'[t] = buffer[t], shown'[t] = shown[t]
  PROVE  Call(t)'
  BY DEF Call

\* A step of t leaves the variables of the other calls alone.
LEMMA OthersRest ==
  ASSUME TypeOK, NEW t \in Threads,
         Step(t) \/ (\E n \in Lengths : Read(t, n)) \/ (\E s \in Texts : Write(t, s)),
         NEW u \in Threads \ {t}
  PROVE  /\ pc'[u] = pc[u] /\ lon'[u] = lon[u] /\ bytes'[u] = bytes[u]
         /\ buffer'[u] = buffer[u] /\ shown'[u] = shown[u]
<1> USE DEF inVars, outVars, callVars, Move, TypeOK
<1>1. CASE ReadStep(t)
  BY <1>1, Zenon DEF ReadStep, AcquireRead, AwaitChar, GetChar, ReleaseRead
<1>2. CASE WriteStep(t)
  BY <1>2, Zenon DEF WriteStep, AcquireWrite, PutChar, AwaitDone, ReleaseWrite
<1>3. CASE Return(t)
  BY <1>3 DEF Return
<1>4. CASE \E n \in Lengths : Read(t, n)
  BY <1>4 DEF Read
<1>5. CASE \E s \in Texts : Write(t, s)
  BY <1>5 DEF Write
<1> QED BY <1>1, <1>2, <1>3, <1>4, <1>5 DEF Step

\* The steps of a Read keep its call.
LEMMA ReadCall ==
  ASSUME TypeOK, NEW t \in Threads, Call(t), ReadStep(t)
  PROVE  Call(t)'
<1> USE DEF inVars, outVars, callVars, Reading, Writing
<1>0. /\ lon[t] \in Nat /\ bytes[t] \in Nat
      /\ buffer[t] \in Seq(Chars \cup {EOF}) /\ shown[t] \in Seq(Chars \cup {EOF})
  BY CallType, SMTT(60)
<1>1. CASE AcquireRead(t)
  BY <1>1, MoveIsOwn, PlacesAre, SMTT(60) DEF AcquireRead, Call
<1>2. CASE AwaitChar(t)
  BY <1>2, MoveIsOwn, PlacesAre, SMTT(60) DEF AwaitChar, Call
<1>3. CASE GetChar(t)
  <2>1. pc[t] = "get" /\ pc'[t] = "releaseRead"
    BY <1>3, MoveIsOwn, PlacesAre DEF GetChar
  <2>2. /\ buffer'[t] = Append(buffer[t], incoming) /\ incoming \in Chars \cup {EOF}
        /\ UNCHANGED <<lon, bytes, shown>>
    BY <1>3 DEF GetChar, TypeOK
  <2>3. /\ Len(buffer'[t]) = Len(buffer[t]) + 1
        /\ \A i \in 1 .. Len(buffer[t]) : buffer'[t][i] = buffer[t][i]
    BY <1>0, <2>2, AppendProperties
  <2>4. /\ shown[t] = <<>> /\ bytes[t] < lon[t] /\ Len(buffer[t]) = bytes[t] + 0
        /\ \A i \in 1 .. bytes[t] : buffer[t][i] # Newline
    BY <2>1, Zenon DEF Call
  <2>5. PICK n \in Nat : n = bytes[t] /\ Len(buffer[t]) = n
    BY <1>0, <2>4
  <2>6. Len(buffer'[t]) = bytes[t] + 1 /\ bytes[t] + 1 <= lon[t]
    BY <1>0, <2>3, <2>4, <2>5
  <2>7. \A i \in 1 .. bytes[t] : buffer'[t][i] # Newline
    BY <2>3, <2>4, <2>5, Zenon
  <2> QED BY <2>1, <2>2, <2>4, <2>6, <2>7, Zenon DEF Call
<1>4. CASE ReleaseRead(t)
  <2> DEFINE newline == buffer[t][Len(buffer[t])] = Newline
             n == IF newline THEN bytes[t] ELSE bytes[t] + 1
  <2>1. pc[t] = "releaseRead"
    BY <1>4 DEF ReleaseRead, Move
  <2>2. pc'[t] = IF newline \/ n = lon[t] THEN "return" ELSE "acquireRead"
    BY <1>4, <2>1 DEF ReleaseRead, Move, TypeOK
  <2>3. bytes'[t] = n /\ UNCHANGED <<lon, buffer, shown>>
    BY <1>4, <2>1, SMTT(60) DEF ReleaseRead, TypeOK
  <2>4. /\ shown[t] = <<>> /\ bytes[t] < lon[t] /\ Len(buffer[t]) = bytes[t] + 1
        /\ \A i \in 1 .. bytes[t] : buffer[t][i] # Newline
    BY <2>1, SMTT(60) DEF Call
  <2>5. CASE newline
    BY <1>0, <2>2, <2>3, <2>4, <2>5, SMTT(60) DEF Call
  <2>6. CASE ~newline
    <3>1. \A i \in 1 .. bytes[t] + 1 : buffer[t][i] # Newline
      BY <1>0, <2>4, <2>6, SMTT(60)
    <3> QED BY <1>0, <2>2, <2>3, <2>4, <2>6, <3>1, SMTT(60) DEF Call
  <2> QED BY <2>5, <2>6
<1> QED BY <1>1, <1>2, <1>3, <1>4 DEF ReadStep

\* The steps of a Write keep its call.
LEMMA WriteCall ==
  ASSUME TypeOK, NEW t \in Threads, Call(t), WriteStep(t)
  PROVE  Call(t)'
<1> USE DEF inVars, outVars, callVars, Reading, Writing
<1>0. /\ lon[t] \in Nat /\ bytes[t] \in Nat
      /\ buffer[t] \in Seq(Chars \cup {EOF}) /\ shown[t] \in Seq(Chars \cup {EOF})
  BY CallType
<1>1. CASE AcquireWrite(t)
  BY <1>1, MoveIsOwn, PlacesAre, SMTT(60) DEF AcquireWrite, Call
<1>2. CASE PutChar(t)
  <2> DEFINE c == buffer[t][bytes[t] + 1]
  <2>1. pc[t] = "put" /\ pc'[t] = "awaitDone"
    BY <1>2, MoveIsOwn, PlacesAre DEF PutChar
  <2>2. shown'[t] = Append(shown[t], c) /\ UNCHANGED <<lon, bytes, buffer>>
    BY <1>2 DEF PutChar, TypeOK
  <2>3. /\ Len(buffer[t]) = lon[t] /\ bytes[t] < lon[t] /\ Len(shown[t]) = bytes[t]
        /\ \A i \in 1 .. Len(shown[t]) : shown[t][i] = buffer[t][i]
    BY <1>0, <2>1, SMTT(60) DEF Call
  <2>4. c \in Chars \cup {EOF}
    BY <1>0, <2>3, ElementOfSeq, SMTT(60)
  <2>5. /\ Len(shown'[t]) = Len(shown[t]) + 1 /\ shown'[t][Len(shown[t]) + 1] = c
        /\ \A i \in 1 .. Len(shown[t]) : shown'[t][i] = shown[t][i]
    BY <1>0, <2>2, <2>4, AppendProperties, SMTT(60)
  <2>6. \A i \in 1 .. Len(shown'[t]) : shown'[t][i] = buffer'[t][i]
    BY <1>0, <2>2, <2>3, <2>5, SMTT(60)
  <2> QED BY <1>0, <2>1, <2>2, <2>3, <2>5, <2>6, SMTT(60) DEF Call
<1>3. CASE AwaitDone(t)
  BY <1>3, MoveIsOwn, PlacesAre, SMTT(60) DEF AwaitDone, Call
<1>4. CASE ReleaseWrite(t)
  <2>1. pc[t] = "releaseWrite" /\ bytes'[t] = bytes[t] + 1 /\ UNCHANGED <<lon, buffer, shown>>
    BY <1>4 DEF ReleaseWrite, Move, TypeOK
  <2>2. pc'[t] = IF bytes[t] + 1 = lon[t] THEN "return" ELSE "acquireWrite"
    BY <1>4, SMTT(60) DEF ReleaseWrite, Move, TypeOK
  <2>3. /\ Len(buffer[t]) = lon[t] /\ bytes[t] < lon[t] /\ Len(shown[t]) = bytes[t] + 1
        /\ \A i \in 1 .. Len(shown[t]) : shown[t][i] = buffer[t][i]
    BY <2>1, SMTT(60) DEF Call
  <2>4. CASE bytes[t] + 1 = lon[t]
    <3>1. shown[t] = buffer[t]
      BY <1>0, <2>3, <2>4, SeqEqual, SMTT(60)
    <3>2. shown[t] # <<>>
      BY <1>0, <2>3
    <3> QED BY <1>0, <2>1, <2>2, <2>3, <2>4, <3>1, <3>2, Zenon DEF Call
  <2>5. CASE bytes[t] + 1 # lon[t]
    BY <1>0, <2>1, <2>2, <2>3, <2>5 DEF Call
  <2> QED BY <2>4, <2>5
<1> QED BY <1>1, <1>2, <1>3, <1>4 DEF WriteStep

\* What a call begins with: nothing read and nothing shown.
LEMMA Nothing ==
  /\ Len(<<>>) = 0 + 0 /\ ~(0 < 0) /\ 1 .. 0 = {} /\ 1 .. Len(<<>>) = {}
  /\ \A n \in Nat : Len(<<>>) <= n
  BY SMTT(60)

\* The beginning of a call and its return.
LEMMA EdgeCall ==
  ASSUME TypeOK, NEW t \in Threads, Call(t),
         Return(t) \/ (\E n \in Lengths : Read(t, n)) \/ (\E s \in Texts : Write(t, s))
  PROVE  Call(t)'
<1> USE DEF Reading, Writing
<1>1. CASE Return(t)
  <2>1. /\ pc'[t] = "idle" /\ lon'[t] = 0 /\ bytes'[t] = 0
        /\ buffer'[t] = <<>> /\ shown'[t] = <<>>
    BY <1>1, SMTT(60) DEF Return, Move, TypeOK
  <2>2. Len(<<>>) <= 0
    BY SMTT(60)
  <2> QED BY <2>1, <2>2, Zenon DEF Call
<1>2. ASSUME NEW n \in Lengths, Read(t, n) PROVE Call(t)'
  <2>1. /\ pc[t] = "idle" /\ pc'[t] = IF n = 0 THEN "return" ELSE "acquireRead"
        /\ lon'[t] = n /\ bytes'[t] = 0 /\ buffer'[t] = <<>> /\ shown' = shown
    BY <1>2, SMTT(60) DEF Read, Move, TypeOK, outVars
  <2>2. n \in Nat /\ shown[t] = <<>>
    BY <2>1, ZenonT(60) DEF Call
  <2>3. CASE n = 0
    <3>1. pc'[t] = "return" /\ shown'[t] = <<>>
      BY <2>1, <2>2, <2>3, ZenonT(60)
    <3> QED BY <2>1, <2>2, <2>3, <3>1, Nothing, ZenonT(60) DEF Call
  <2>4. CASE n # 0
    <3>1. pc'[t] = "acquireRead" /\ shown'[t] = <<>>
      BY <2>1, <2>2, <2>4, ZenonT(60)
    <3>2. 0 < n
      BY <2>2, <2>4, SMTT(60)
    <3> QED BY <2>1, <2>2, <3>1, <3>2, Nothing, ZenonT(60) DEF Call
  <2> QED BY <2>3, <2>4, ZenonT(60)
<1>3. ASSUME NEW s \in Texts, Write(t, s) PROVE Call(t)'
  <2>1. /\ pc'[t] = IF s = <<>> THEN "return" ELSE "acquireWrite"
        /\ lon'[t] = Len(s) /\ bytes'[t] = 0 /\ buffer'[t] = s /\ shown'[t] = <<>>
    BY <1>3 DEF Write, Move, TypeOK
  <2>2. s \in Seq(Chars) /\ (s # <<>> => Len(s) > 0) /\ Len(s) \in Nat
    BY SMTT(60)
  <2>3. CASE s = <<>>
    <3>1. pc'[t] = "return" /\ lon'[t] = 0 /\ buffer'[t] = <<>>
      BY <2>1, <2>3, SMTT(60)
    <3>2. 0 \in Nat
      OBVIOUS
    <3> QED BY <2>1, <3>1, <3>2, Nothing, ZenonT(60) DEF Call
  <2>4. CASE s # <<>>
    <3>1. pc'[t] = "acquireWrite"
      BY <2>1, <2>4, ZenonT(60)
    <3>2. 0 < Len(s) /\ Len(s) <= Len(s)
      BY <2>2, <2>4, SMTT(60)
    <3> QED BY <2>1, <3>1, <3>2, Nothing, ZenonT(60) DEF Call
  <2> QED BY <2>3, <2>4, ZenonT(60)
<1> QED BY <1>1, <1>2, <1>3, SMTT(60)

\* Every step keeps every call.
LEMMA CallsStep ==
  ASSUME TypeOK, CallsMatch, ReadFitsBuffer, WholeTextIsShown, Next
  PROVE  CallsMatch' /\ ReadFitsBuffer' /\ WholeTextIsShown'
<1>0. \A t \in Threads : Call(t)
  BY CallsAre, Zenon
<1>1. \A t \in Threads : Call(t)'
  <2>1. CASE (\E c \in Chars : Type(c)) \/ CheckCharAvail \/ WriteDone
    BY <1>0, <2>1, CallRests
      , Zenon DEF Type, CheckCharAvail, WriteDone, inVars, outVars, callVars
  <2>2. ASSUME NEW t \in Threads,
               Step(t) \/ (\E n \in Lengths : Read(t, n)) \/ (\E s \in Texts : Write(t, s))
        PROVE  \A u \in Threads : Call(u)'
    <3>1. Call(t)'
      BY <1>0, <2>2, ReadCall, WriteCall, EdgeCall, SMTT(60) DEF Step
    <3>2. \A u \in Threads \ {t} : Call(u)'
      BY <1>0, <2>2, OthersRest, CallRests, SMTT(60)
    <3> QED BY <3>1, <3>2
  <2> QED BY <2>1, <2>2, SMTT(60) DEF Next
<1>2. (CallsMatch /\ ReadFitsBuffer /\ WholeTextIsShown <=> \A t \in Threads : Call(t))'
  BY DEF CallsMatch, ReadFitsBuffer, WholeTextIsShown, Call
<1> QED BY <1>1, <1>2

-----------------------------------------------------------------------------
(* The display *)

\* Every step keeps one completion for the thread that waits for one.
LEMMA DisplayStep ==
  ASSUME TypeOK, HoldersAreInside, OneCompletion, PutFindsIdle, Next
  PROVE  OneCompletion' /\ PutFindsIdle'
<1> USE DEF inVars, outVars, callVars
<1>0. scheduled \in Nat /\ cwrite \in Nat /\ putBusy \in BOOLEAN
  BY DEF TypeOK
<1>1. ASSUME UNCHANGED <<putBusy, scheduled, cwrite>>,
             NEW t \in Threads, NEW from \in Places \ {"awaitDone"},
             NEW to \in Places \ {"awaitDone", "put"}, Move(t, from, to)
      PROVE  OneCompletion' /\ PutFindsIdle'
  <2>1. pc[t] = from /\ pc'[t] = to /\ \A u \in Threads \ {t} : pc'[u] = pc[u]
    BY <1>1, MoveIsOwn
  <2>2. (\E u \in Threads : pc'[u] = "awaitDone") <=> \E u \in Threads : pc[u] = "awaitDone"
    BY <2>1
  <2>3. OneCompletion'
    BY <1>1, <2>2 DEF OneCompletion
  <2>4. PutFindsIdle'
    BY <1>1, <2>1 DEF PutFindsIdle
  <2> QED BY <2>3, <2>4
<1>2. CASE (\E c \in Chars : Type(c)) \/ CheckCharAvail
  BY <1>2 DEF Type, CheckCharAvail, OneCompletion, PutFindsIdle
<1>3. CASE WriteDone
  <2>1. scheduled = 1 /\ cwrite = 0 /\ \E t \in Threads : pc[t] = "awaitDone"
    BY <1>0, <1>3 DEF WriteDone, OneCompletion
  <2>2. scheduled' = 0 /\ cwrite' = 1 /\ putBusy' = FALSE /\ pc' = pc
    BY <1>3, <2>1 DEF WriteDone, RequestWrite
  <2> QED BY <2>1, <2>2 DEF OneCompletion, PutFindsIdle
<1>4. ASSUME NEW t \in Threads, AcquireWrite(t) PROVE OneCompletion' /\ PutFindsIdle'
  <2>1. /\ pc[t] = "acquireWrite" /\ pc'[t] = "put"
        /\ \A u \in Threads \ {t} : pc'[u] = pc[u]
    BY <1>4, MoveIsOwn, PlacesAre DEF AcquireWrite
  <2>2. \A u \in Threads : pc[u] # "awaitDone"
    BY <1>4 DEF AcquireWrite, WL!Acquire, HoldersAreInside, Writing
  <2>3. \A u \in Threads : pc'[u] # "awaitDone"
    BY <2>1, <2>2
  <2>4. UNCHANGED <<putBusy, scheduled, cwrite>>
    BY <1>4 DEF AcquireWrite
  <2>5. scheduled = 0 /\ cwrite = 0 /\ ~putBusy
    BY <1>0, <2>2 DEF OneCompletion
  <2> QED BY <2>3, <2>4, <2>5 DEF OneCompletion, PutFindsIdle
<1>5. ASSUME NEW t \in Threads, PutChar(t) PROVE OneCompletion' /\ PutFindsIdle'
  <2>1. /\ pc[t] = "put" /\ pc'[t] = "awaitDone"
        /\ \A u \in Threads \ {t} : pc'[u] = pc[u]
    BY <1>5, MoveIsOwn, PlacesAre DEF PutChar
  <2>2. \A u \in Threads : pc[u] # "awaitDone" /\ (pc[u] = "put" => u = t)
    BY <2>1 DEF HoldersAreInside, Writing
  <2>3. scheduled = 0 /\ cwrite = 0
    BY <1>0, <2>2 DEF OneCompletion
  <2>4. scheduled' = 1 /\ cwrite' = 0 /\ putBusy' = TRUE
    BY <1>5, <2>3 DEF PutChar
  <2>5. \A u \in Threads : pc'[u] # "put"
    BY <2>1, <2>2
  <2> QED BY <2>1, <2>4, <2>5 DEF OneCompletion, PutFindsIdle
<1>6. ASSUME NEW t \in Threads, AwaitDone(t) PROVE OneCompletion' /\ PutFindsIdle'
  <2>1. /\ pc[t] = "awaitDone" /\ pc'[t] = "releaseWrite"
        /\ \A u \in Threads \ {t} : pc'[u] = pc[u]
    BY <1>6, MoveIsOwn, PlacesAre DEF AwaitDone
  <2>2. \A u \in Threads : pc'[u] \notin {"put", "awaitDone"}
    BY <2>1 DEF HoldersAreInside, Writing
  <2>3. scheduled = 0 /\ cwrite = 1 /\ ~putBusy
    BY <1>0, <1>6, <2>1 DEF AwaitDone, OneCompletion
  <2>4. scheduled' = 0 /\ cwrite' = 0 /\ ~putBusy'
    BY <1>6, <2>3 DEF AwaitDone
  <2> QED BY <2>2, <2>4 DEF OneCompletion, PutFindsIdle
<1>7. ASSUME NEW t \in Threads, ReadStep(t) \/ ReleaseWrite(t) \/ Return(t)
      PROVE  OneCompletion' /\ PutFindsIdle'
  <2>1. \E from \in Places \ {"awaitDone"}, to \in Places \ {"awaitDone", "put"} :
          Move(t, from, to) /\ UNCHANGED <<putBusy, scheduled, cwrite>>
    BY <1>7, PlacesAre, SMTT(60) DEF ReadStep, AcquireRead, AwaitChar, GetChar, ReleaseRead,
                           ReleaseWrite, Return
  <2> QED BY <1>1, <2>1, SMTT(60)
<1>8. ASSUME NEW t \in Threads, (\E n \in Lengths : Read(t, n)) \/ \E s \in Texts : Write(t, s)
      PROVE  OneCompletion' /\ PutFindsIdle'
  <2>1. \E from \in Places \ {"awaitDone"}, to \in Places \ {"awaitDone", "put"} :
          Move(t, from, to) /\ UNCHANGED <<putBusy, scheduled, cwrite>>
    BY <1>8, PlacesAre DEF Read, Write
  <2> QED BY <1>1, <2>1
<1> QED BY <1>2, <1>3, <1>4, <1>5, <1>6, <1>7, <1>8 DEF Next, Step, WriteStep

-----------------------------------------------------------------------------
(* The keyboard *)

\* The characters in the buffer.
LEMMA BufferedIs ==
  ASSUME TypeOK
  PROVE  /\ Buffered \in Seq(Bytes) /\ Len(Buffered) \in Nat
         /\ incoming = EOF => Buffered = <<>> /\ Len(Buffered) = 0
         /\ incoming # EOF => Buffered = <<incoming>> /\ Len(Buffered) = 1
<1>1. CASE incoming = EOF
  <2>1. Buffered = <<>>
    BY <1>1 DEF Buffered
  <2> QED BY <1>1, <2>1
<1>2. CASE incoming # EOF
  <2>1. Buffered = <<incoming>> /\ incoming \in Bytes
    BY <1>2 DEF Buffered, TypeOK, Bytes
  <2> QED BY <1>2, <2>1
<1> QED BY <1>1, <1>2

\* At most one thread is between P and GetChar.
LEMMA OneGets ==
  ASSUME HoldersAreInside, NEW t \in Threads, NEW u \in Threads,
         pc[t] \in {"awaitChar", "get"}, pc[u] \in {"awaitChar", "get"}
  PROVE  t = u
  BY DEF HoldersAreInside, Reading

\* Every step keeps what was typed and the units of cread.
LEMMA KeyboardStep ==
  ASSUME TypeOK, TypeOK', HoldersAreInside, UnitMeansCharacter, NothingTypedIsLost, Next
  PROVE  UnitMeansCharacter' /\ NothingTypedIsLost'
<1> USE DEF inVars, outVars, callVars
<1> DEFINE Got == \E u \in Threads : pc[u] = "get"
<1>0. cread \in Nat /\ keyboard \in Seq(Bytes) /\ typed \in Seq(Bytes) /\ taken \in Seq(Bytes)
  <2>1. Chars \subseteq Bytes
    BY DEF Bytes
  <2> QED BY <2>1, SeqMonotonic, Zenon DEF TypeOK, Bytes
<1>1. ASSUME UNCHANGED <<keyboard, incoming, cread, typed, taken>>,
             NEW t \in Threads, NEW from \in Places \ {"get"}, NEW to \in Places \ {"get"},
             Move(t, from, to)
      PROVE  UnitMeansCharacter' /\ NothingTypedIsLost'
  <2>1. Got' <=> Got
    BY <1>1, MoveIsOwn
  <2>2. PlainInput' = PlainInput /\ Buffered' = Buffered
    BY <1>1 DEF PlainInput, Buffered
  <2>3. NothingTypedIsLost'
    BY <1>1, <2>2 DEF NothingTypedIsLost
  <2>4. UnitMeansCharacter'
    BY <1>1, <2>1, <2>2 DEF UnitMeansCharacter
  <2> QED BY <2>3, <2>4
<1>2. ASSUME NEW c \in Chars, Type(c) PROVE UnitMeansCharacter' /\ NothingTypedIsLost'
  <2>1. /\ typed' = Append(typed, c) /\ keyboard' = Append(keyboard, c)
        /\ UNCHANGED <<incoming, cread, taken, pc>>
    BY <1>2 DEF Type
  <2>2. Buffered' = Buffered
    BY <2>1 DEF Buffered
  <2>3. PlainInput' => PlainInput
    <3>1. c \in Bytes
      BY DEF Bytes
    <3>2. \A k \in 1 .. Len(typed) : typed'[k] = typed[k] /\ k \in DOMAIN typed'
      BY <1>0, <2>1, <3>1
    <3>3. DOMAIN typed = 1 .. Len(typed)
      BY <1>0
    <3> QED BY <3>2, <3>3 DEF PlainInput
  <2>4. UnitMeansCharacter'
    BY <2>1, <2>2, <2>3 DEF UnitMeansCharacter
  <2>5. NothingTypedIsLost'
    <3>1. SUFFICES ASSUME PlainInput'
                   PROVE  typed' = (taken \o Buffered) \o Append(keyboard, c)
      BY <2>1, <2>2, SMTT(60) DEF NothingTypedIsLost
    <3>2. typed = (taken \o Buffered) \o keyboard
      BY <2>3, <3>1 DEF NothingTypedIsLost
    <3>3. taken \o Buffered \in Seq(Bytes) /\ c \in Bytes
      BY <1>0, BufferedIs, ConcatProperties DEF Bytes
    <3>4. Append((taken \o Buffered) \o keyboard, c) = (taken \o Buffered) \o Append(keyboard, c)
      BY <1>0, <3>3, AppendLast, ZenonT(60)
    <3> QED BY <2>1, <3>2, <3>4
  <2> QED BY <2>4, <2>5
<1>3. CASE CheckCharAvail
  <2>1. /\ incoming = EOF /\ keyboard # <<>> /\ incoming' = Head(keyboard)
        /\ keyboard' = Tail(keyboard) /\ cread' = cread + 1 /\ UNCHANGED <<typed, taken, pc>>
    BY <1>3 DEF CheckCharAvail, RequestRead
  <2>2. SUFFICES ASSUME PlainInput PROVE UnitMeansCharacter' /\ NothingTypedIsLost'
    <3>1. PlainInput' = PlainInput
      BY <2>1 DEF PlainInput
    <3> QED BY <3>1, SMTT(60) DEF UnitMeansCharacter, NothingTypedIsLost
  <2>3. typed = (taken \o <<>>) \o keyboard /\ taken \o <<>> = taken
    BY <1>0, <2>1, <2>2, BufferedIs, ConcatEmptySeq DEF NothingTypedIsLost
  <2>4. Head(keyboard) # EOF
    <3>1. Len(keyboard) > 0 /\ Head(keyboard) = keyboard[1]
      BY <1>0, <2>1
    <3>2. /\ Len(typed) = Len(taken) + Len(keyboard)
          /\ \A i \in 1 .. Len(taken) + Len(keyboard) :
               typed[i] = IF i <= Len(taken) THEN taken[i] ELSE keyboard[i - Len(taken)]
      BY <1>0, <2>3, ConcatProperties
    <3>3. Len(taken) \in Nat /\ Len(keyboard) \in Nat /\ DOMAIN typed = 1 .. Len(typed)
      BY <1>0
    <3>4. typed[Len(taken) + 1] = keyboard[1] /\ Len(taken) + 1 \in DOMAIN typed
      BY <3>1, <3>2, <3>3
    <3> QED BY <2>2, <3>1, <3>4 DEF PlainInput
  <2>5. Buffered' = <<Head(keyboard)>> /\ Len(Buffered') = 1
    BY <2>1, <2>4 DEF Buffered
  <2>6. UnitMeansCharacter'
    <3>1. cread + (IF Got THEN 1 ELSE 0) = 0
      BY <2>1, <2>2, BufferedIs DEF UnitMeansCharacter
    <3>2. cread' + (IF Got' THEN 1 ELSE 0) = 1
      BY <1>0, <2>1, <3>1
    <3> QED BY <2>5, <3>2 DEF UnitMeansCharacter
  <2>7. NothingTypedIsLost'
    BY <1>0, <2>1, <2>3, <2>5, HeadMoves, SMTT(60) DEF NothingTypedIsLost
  <2> QED BY <2>6, <2>7
<1>4. CASE WriteDone
  BY <1>4, SMTT(60) DEF WriteDone, UnitMeansCharacter, NothingTypedIsLost, PlainInput, Buffered
<1>5. ASSUME NEW t \in Threads, AwaitChar(t) PROVE UnitMeansCharacter' /\ NothingTypedIsLost'
  <2>1. /\ pc[t] = "awaitChar" /\ pc'[t] = "get"
        /\ cread > 0 /\ cread' = cread - 1 /\ UNCHANGED <<keyboard, incoming, typed, taken>>
    BY <1>5, MoveIsOwn, PlacesAre DEF AwaitChar
  <2>2. PlainInput' = PlainInput /\ Buffered' = Buffered
    BY <2>1 DEF PlainInput, Buffered
  <2>3. ~Got /\ Got'
    BY <2>1, OneGets
  <2>4. UnitMeansCharacter'
    BY <1>0, <2>1, <2>2, <2>3, SMTT(60) DEF UnitMeansCharacter
  <2> QED BY <2>1, <2>2, <2>4 DEF NothingTypedIsLost
<1>6. ASSUME NEW t \in Threads, GetChar(t) PROVE UnitMeansCharacter' /\ NothingTypedIsLost'
  <2>1. /\ pc[t] = "get" /\ pc'[t] = "releaseRead" /\ \A u \in Threads \ {t} : pc'[u] = pc[u]
        /\ taken' = Append(taken, incoming) /\ incoming' = EOF
        /\ UNCHANGED <<keyboard, cread, typed>>
    BY <1>6, MoveIsOwn, PlacesAre DEF GetChar
  <2>2. SUFFICES ASSUME PlainInput PROVE UnitMeansCharacter' /\ NothingTypedIsLost'
    <3>1. PlainInput' = PlainInput
      BY <2>1 DEF PlainInput
    <3> QED BY <3>1 DEF UnitMeansCharacter, NothingTypedIsLost
  <2>3. Got /\ ~Got'
    BY <2>1, OneGets
  <2>4. cread + 1 = Len(Buffered)
    BY <2>2, <2>3 DEF UnitMeansCharacter
  <2>5. cread = 0 /\ incoming # EOF /\ Buffered = <<incoming>>
    <3> DEFINE n == Len(Buffered)
    <3>1. (n = 0 \/ n = 1) /\ (incoming = EOF => n = 0) /\ cread + 1 = n
      BY <2>4, BufferedIs
    <3> HIDE DEF n
    <3>2. cread = 0 /\ incoming # EOF
      BY <1>0, <3>1
    <3> QED BY <3>2 DEF Buffered
  <2>6. Buffered' = <<>> /\ Len(Buffered') = 0
    BY <2>1 DEF Buffered
  <2>7. UnitMeansCharacter'
    BY <2>1, <2>3, <2>5, <2>6 DEF UnitMeansCharacter
  <2>8. taken' = taken \o Buffered /\ taken' \in Seq(Bytes)
    <3>1. incoming \in Bytes
      BY DEF TypeOK, Bytes
    <3> QED BY <1>0, <2>1, <2>5, <3>1, AppendIsConcat, AppendProperties
  <2>9. taken' \o <<>> = taken'
    BY <2>8, ConcatEmptySeq
  <2>10. typed = (taken \o Buffered) \o keyboard
    BY <2>2 DEF NothingTypedIsLost
  <2> QED BY <2>1, <2>6, <2>7, <2>8, <2>9, <2>10 DEF NothingTypedIsLost
<1>7. ASSUME NEW t \in Threads,
             AcquireRead(t) \/ ReleaseRead(t) \/ WriteStep(t) \/ Return(t)
      PROVE  UnitMeansCharacter' /\ NothingTypedIsLost'
  <2>1. \E from \in Places \ {"get"}, to \in Places \ {"get"} :
          Move(t, from, to) /\ UNCHANGED <<keyboard, incoming, cread, typed, taken>>
    BY <1>7, PlacesAre DEF AcquireRead, ReleaseRead, WriteStep, AcquireWrite, PutChar,
                           AwaitDone, ReleaseWrite, Return
  <2> QED BY <1>1, <2>1, SMTT(60)
<1>8. ASSUME NEW t \in Threads, (\E n \in Lengths : Read(t, n)) \/ \E s \in Texts : Write(t, s)
      PROVE  UnitMeansCharacter' /\ NothingTypedIsLost'
  <2>1. \E from \in Places \ {"get"}, to \in Places \ {"get"} :
          Move(t, from, to) /\ UNCHANGED <<keyboard, incoming, cread, typed, taken>>
    BY <1>8, PlacesAre DEF Read, Write
  <2> QED BY <1>1, <2>1
<1> QED BY <1>2, <1>3, <1>4, <1>5, <1>6, <1>7, <1>8 DEF Next, Step, ReadStep

-----------------------------------------------------------------------------
(* Theorems *)

\* Every step of the console keeps the invariant.
LEMMA NextInv == Inv /\ [Next]_vars => Inv'
<1> SUFFICES ASSUME Inv, [Next]_vars PROVE Inv'
  OBVIOUS
<1> USE DEF Inv, ConsoleInv, TextIsKept
<1>1. CASE Next
  BY <1>1, TypeStep, HoldersStep, CallsStep, DisplayStep, KeyboardStep
<1>2. CASE UNCHANGED vars
  <2> USE <1>2 DEF vars, inVars, outVars, callVars
  <2>1. TypeOK' /\ HoldersAreInside' /\ OneCompletion' /\ PutFindsIdle'
    BY ZenonT(60) DEF TypeOK, HoldersAreInside, OneCompletion, PutFindsIdle
  <2>2. CallsMatch' /\ ReadFitsBuffer' /\ WholeTextIsShown'
    BY SMTT(60) DEF CallsMatch, ReadFitsBuffer, WholeTextIsShown
  <2>3. UnitMeansCharacter' /\ NothingTypedIsLost'
    BY DEF UnitMeansCharacter, NothingTypedIsLost, PlainInput, Buffered
  <2> QED BY <2>1, <2>2, <2>3, SMTT(60)
<1> QED BY <1>1, <1>2

\* ConsoleInv and TextIsKept hold in every reachable state.
THEOREM ConsoleIsInvariant == Spec => []Inv
<1> QED BY InitInv, NextInv, PTL DEF Spec

\* PutChar's ASSERT never fails, every completion of the display and every character
\* of the keyboard is for the thread that takes it, and Read stays in its buffer, for
\* any number of threads that read and write.
THEOREM ConsoleIsConsistent == Spec => []ConsoleInv
<1>1. Inv => ConsoleInv
  BY DEF Inv
<1> QED BY <1>1, ConsoleIsInvariant, PTL

\* No character typed is lost or taken out of order unless the byte of EOF is typed,
\* and a Write returns only when its whole text is on the display.
THEOREM NoCharacterIsLost == Spec => []TextIsKept
<1>1. Inv => TextIsKept
  BY DEF Inv
<1> QED BY <1>1, ConsoleIsInvariant, PTL
==============================================================================
