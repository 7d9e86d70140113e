------------------------------ MODULE Console -------------------------------
(***************************************************************************)
(* The console: the device of machine/console.cc, with its polled keyboard *)
(* and its display, userprog/SynchConsole.cc, and the loops of the system  *)
(* calls Read and Write on the console in userprog/exception.cc.           *)
(*                                                                         *)
(* Console::incoming is a char, so the value EOF that marks it empty is    *)
(* also the value of a byte that can be typed.                             *)
(***************************************************************************)
EXTENDS Integers, Sequences

CONSTANTS
  Threads, NULL,
  Chars,       \* the bytes that are typed
  EOF,         \* the char with the value of EOF
  Newline,
  Lengths,     \* the sizes Read is called with
  Texts,       \* what Write is called with
  MaxTyped     \* bound on the bytes typed

ASSUME ConsoleAssumption ==
  /\ NULL \notin Threads
  /\ Newline # EOF
  /\ Lengths \subseteq Nat
  /\ Texts \subseteq Seq(Chars)
  /\ MaxTyped \in Nat

VARIABLES
  keyboard,                     \* the bytes typed that the console has not read yet
  incoming,                     \* Console::incoming
  putBusy, scheduled,           \* Console::putBusy; the ConsoleWriteDone interrupts pending
  cread, cwrite, rLock, wLock,  \* of SynchConsole: values of semaphores, holders of locks
  pc,                           \* where a thread is in Read or Write
  lon, buffer, bytes,           \* the local variables of its Read or Write
  shown,                        \* history: what its Write has put on the display
  typed, taken                  \* history: the bytes typed, the results of GetChar

inVars == <<keyboard, incoming, cread, rLock, typed, taken>>
outVars == <<putBusy, scheduled, cwrite, wLock, shown>>
callVars == <<lon, buffer, bytes>>
vars == <<inVars, outVars, callVars, pc>>

RL == INSTANCE AbstractLock WITH holder <- rLock
WL == INSTANCE AbstractLock WITH holder <- wLock

-----------------------------------------------------------------------------
\* The constructor of Console.
ConsoleInit ==
  /\ keyboard = <<>> /\ incoming = EOF
  /\ putBusy = FALSE /\ scheduled = 0

Init ==
  /\ ConsoleInit
  /\ cread = 0 /\ RL!Init
  /\ cwrite = 0 /\ WL!Init
  /\ pc = [t \in Threads |-> "idle"]
  /\ lon = [t \in Threads |-> 0]
  /\ buffer = [t \in Threads |-> <<>>]
  /\ bytes = [t \in Threads |-> 0]
  /\ shown = [t \in Threads |-> <<>>]
  /\ typed = <<>> /\ taken = <<>>

Move(t, from, to) == pc[t] = from /\ pc' = [pc EXCEPT ![t] = to]

-----------------------------------------------------------------------------
(* The keyboard *)

\* The user types.
Type(c) ==
  /\ Len(typed) < MaxTyped
  /\ typed' = Append(typed, c)
  /\ keyboard' = Append(keyboard, c)
  /\ UNCHANGED <<incoming, cread, rLock, taken, outVars, callVars, pc>>

\* SynchConsole's handlers.
RequestRead == cread' = cread + 1
RequestWrite == cwrite' = cwrite + 1

\* Mutant: the character in the buffer is not looked at.
CheckCharOverwrites ==
  /\ keyboard # <<>>
  /\ incoming' = Head(keyboard)
  /\ keyboard' = Tail(keyboard)
  /\ cread' = cread + 1
  /\ UNCHANGED <<rLock, typed, taken, outVars, callVars, pc>>

\* Mutant: the read handler is not called.
CheckCharSilently ==
  /\ incoming = EOF
  /\ keyboard # <<>>
  /\ incoming' = Head(keyboard)
  /\ keyboard' = Tail(keyboard)
  /\ UNCHANGED <<cread, rLock, typed, taken, outVars, callVars, pc>>

\* The poll, which is scheduled again and again; its early return changes
\* nothing.
CheckCharAvail ==
  /\ incoming = EOF
  /\ keyboard # <<>>
  /\ incoming' = Head(keyboard)
  /\ keyboard' = Tail(keyboard)
  /\ RequestRead
  /\ UNCHANGED <<rLock, typed, taken, outVars, callVars, pc>>

\* SC_Read is called.
Read(t, n) ==
  /\ Move(t, "idle", IF n = 0 THEN "return" ELSE "acquireRead")
  /\ lon' = [lon EXCEPT ![t] = n]
  /\ buffer' = [buffer EXCEPT ![t] = <<>>]
  /\ bytes' = [bytes EXCEPT ![t] = 0]
  /\ UNCHANGED <<inVars, outVars>>

\* readConsole: rLock->Acquire()
AcquireRead(t) ==
  /\ Move(t, "acquireRead", "awaitChar")
  /\ RL!Acquire(t)
  /\ UNCHANGED <<keyboard, incoming, cread, typed, taken, outVars, callVars>>

\* cread->P()
AwaitChar(t) ==
  /\ Move(t, "awaitChar", "get")
  /\ cread > 0
  /\ cread' = cread - 1
  /\ UNCHANGED <<keyboard, incoming, rLock, typed, taken, outVars, callVars>>

GetChar(t) ==
  /\ Move(t, "get", "releaseRead")
  /\ buffer' = [buffer EXCEPT ![t] = Append(@, incoming)]
  /\ taken' = Append(taken, incoming)
  /\ incoming' = EOF
  /\ UNCHANGED <<keyboard, cread, rLock, typed, outVars, lon, bytes>>

\* rLock->Release(), and the rest of the loop: a newline ends it uncounted.
ReleaseRead(t) ==
  LET newline == pc[t] = "releaseRead" /\ buffer[t][Len(buffer[t])] = Newline
      n == IF newline THEN bytes[t] ELSE bytes[t] + 1
  IN  /\ Move(t, "releaseRead", IF newline \/ n = lon[t] THEN "return" ELSE "acquireRead")
      /\ RL!Release(t)
      /\ bytes' = [bytes EXCEPT ![t] = n]
      /\ UNCHANGED <<keyboard, incoming, cread, typed, taken, outVars, lon, buffer>>

-----------------------------------------------------------------------------
(* The display *)

\* SC_Write is called.
Write(t, s) ==
  /\ Move(t, "idle", IF s = <<>> THEN "return" ELSE "acquireWrite")
  /\ lon' = [lon EXCEPT ![t] = Len(s)]
  /\ buffer' = [buffer EXCEPT ![t] = s]
  /\ bytes' = [bytes EXCEPT ![t] = 0]
  /\ shown' = [shown EXCEPT ![t] = <<>>]
  /\ UNCHANGED <<inVars, putBusy, scheduled, cwrite, wLock>>

\* Mutant: writeConsole does not take the lock.
AcquireWriteNot(t) ==
  /\ Move(t, "acquireWrite", "put")
  /\ UNCHANGED <<inVars, putBusy, scheduled, cwrite, wLock, shown, callVars>>

\* writeConsole: wLock->Acquire()
AcquireWrite(t) ==
  /\ Move(t, "acquireWrite", "put")
  /\ WL!Acquire(t)
  /\ UNCHANGED <<inVars, putBusy, scheduled, cwrite, shown, callVars>>

\* Console::PutChar.  Its ASSERT that the console is not busy is PutFindsIdle.
PutChar(t) ==
  /\ Move(t, "put", "awaitDone")
  /\ shown' = [shown EXCEPT ![t] = Append(@, buffer[t][bytes[t] + 1])]
  /\ putBusy' = TRUE
  /\ scheduled' = scheduled + 1
  /\ UNCHANGED <<inVars, cwrite, wLock, callVars>>

\* Mutant: the handler does not call RequestWrite.
WriteDoneSilently ==
  /\ scheduled > 0
  /\ scheduled' = scheduled - 1
  /\ putBusy' = FALSE
  /\ UNCHANGED <<inVars, cwrite, wLock, shown, callVars, pc>>

WriteDone ==
  /\ scheduled > 0
  /\ scheduled' = scheduled - 1
  /\ putBusy' = FALSE
  /\ RequestWrite
  /\ UNCHANGED <<inVars, wLock, shown, callVars, pc>>

\* cwrite->P()
AwaitDone(t) ==
  /\ Move(t, "awaitDone", "releaseWrite")
  /\ cwrite > 0
  /\ cwrite' = cwrite - 1
  /\ UNCHANGED <<inVars, putBusy, scheduled, wLock, shown, callVars>>

\* wLock->Release(), and the rest of the loop.
ReleaseWrite(t) ==
  /\ Move(t, "releaseWrite", IF bytes[t] + 1 = lon[t] THEN "return" ELSE "acquireWrite")
  /\ WL!Release(t)
  /\ bytes' = [bytes EXCEPT ![t] = @ + 1]
  /\ UNCHANGED <<inVars, putBusy, scheduled, cwrite, shown, lon, buffer>>

-----------------------------------------------------------------------------
\* bytes goes to the user program, and in Read as many characters of the buffer.
Return(t) ==
  /\ Move(t, "return", "idle")
  /\ lon' = [lon EXCEPT ![t] = 0]
  /\ buffer' = [buffer EXCEPT ![t] = <<>>]
  /\ bytes' = [bytes EXCEPT ![t] = 0]
  /\ shown' = [shown EXCEPT ![t] = <<>>]
  /\ UNCHANGED <<inVars, putBusy, scheduled, cwrite, wLock>>

ReadStep(t) == AcquireRead(t) \/ AwaitChar(t) \/ GetChar(t) \/ ReleaseRead(t)
WriteStep(t) == AcquireWrite(t) \/ PutChar(t) \/ AwaitDone(t) \/ ReleaseWrite(t)
Step(t) == ReadStep(t) \/ WriteStep(t) \/ Return(t)

Next ==
  \/ \E c \in Chars : Type(c)
  \/ CheckCharAvail
  \/ WriteDone
  \/ \E t \in Threads :
       Step(t) \/ (\E n \in Lengths : Read(t, n)) \/ \E s \in Texts : Write(t, s)

Spec == Init /\ [][Next]_vars

\* The console polls again and again, interrupts that are scheduled happen, and a
\* thread that can go on does so.  Strong fairness of Acquire: see Lock.  Nothing
\* obliges the user to type.
FairSpec ==
  /\ Spec
  /\ WF_vars(CheckCharAvail) /\ WF_vars(WriteDone)
  /\ \A t \in Threads : WF_vars(Step(t)) /\ SF_vars(AcquireWrite(t))

-----------------------------------------------------------------------------
(* Properties *)

Reading == {"acquireRead", "awaitChar", "get", "releaseRead"}
Writing == {"acquireWrite", "put", "awaitDone", "releaseWrite"}
Places == {"idle", "return"} \cup Reading \cup Writing

TypeOK ==
  /\ keyboard \in Seq(Chars) /\ typed \in Seq(Chars)
  /\ incoming \in Chars \cup {EOF} /\ taken \in Seq(Chars \cup {EOF})
  /\ putBusy \in BOOLEAN
  /\ scheduled \in Nat /\ cread \in Nat /\ cwrite \in Nat
  /\ rLock \in Threads \cup {NULL} /\ wLock \in Threads \cup {NULL}
  /\ pc \in [Threads -> Places]
  /\ lon \in [Threads -> Nat] /\ bytes \in [Threads -> Nat]
  /\ buffer \in [Threads -> Seq(Chars \cup {EOF})]
  /\ shown \in [Threads -> Seq(Chars \cup {EOF})]

\* The threads between Acquire and Release are the holders of the locks.
HoldersAreInside ==
  \A t \in Threads :
    /\ pc[t] \in Reading \ {"acquireRead"} <=> rLock = t
    /\ pc[t] \in Writing \ {"acquireWrite"} <=> wLock = t

\* bytes and the buffers of a call agree with its progress: what Read has kept holds no
\* newline but the last character, what Write has displayed begins its text.
CallsMatch ==
  \A t \in Threads :
    /\ pc[t] = "idle" => shown[t] = <<>> /\ buffer[t] = <<>>
    /\ pc[t] \in Reading =>
         /\ shown[t] = <<>> /\ bytes[t] < lon[t]
         /\ Len(buffer[t]) = bytes[t] + (IF pc[t] = "releaseRead" THEN 1 ELSE 0)
         /\ \A i \in 1 .. bytes[t] : buffer[t][i] # Newline
    /\ pc[t] \in Writing =>
         /\ Len(buffer[t]) = lon[t] /\ bytes[t] < lon[t]
         /\ Len(shown[t]) = bytes[t] + (IF pc[t] \in {"awaitDone", "releaseWrite"} THEN 1 ELSE 0)
         /\ \A i \in 1 .. Len(shown[t]) : shown[t][i] = buffer[t][i]

\* The characters in Console::incoming.
Buffered == IF incoming = EOF THEN <<>> ELSE <<incoming>>

\* Nobody has typed the byte that CheckCharAvail takes for an empty buffer.
PlainInput == \A k \in DOMAIN typed : typed[k] # EOF

\* Every byte typed reaches one reader, in the order of typing: it is with a
\* reader, in the console's buffer or still at the keyboard.  (The byte of EOF may be
\* overwritten before it is taken.)
NothingTypedIsLost == PlainInput => typed = taken \o Buffered \o keyboard

\* cread has a unit exactly when there is a character nobody has claimed, so a
\* reader never gets the EOF of an empty buffer, and no character waits unseen.
UnitMeansCharacter ==
  PlainInput => cread + (IF \E t \in Threads : pc[t] = "get" THEN 1 ELSE 0) = Len(Buffered)

\* Read stays inside the buffer of lon bytes, and what it hands to the user is the
\* part before the newline.
ReadFitsBuffer ==
  \A t \in Threads :
    /\ Len(buffer[t]) <= lon[t]
    /\ pc[t] = "return" /\ shown[t] = <<>> =>
         /\ \A i \in 1 .. bytes[t] : buffer[t][i] # Newline
         /\ bytes[t] < lon[t] => Len(buffer[t]) = bytes[t] + 1

\* A character that has arrived is taken when a thread wants to read.
CharacterIsTaken ==
  (incoming # EOF /\ \E t \in Threads : pc[t] \in {"acquireRead", "awaitChar", "get"})
    ~> incoming = EOF

\* The ASSERT of PutChar: it finds the console idle.
PutFindsIdle == \A t \in Threads : pc[t] = "put" => ~putBusy

\* One interrupt or one unit of cwrite for the thread that waits, none otherwise,
\* so that no thread goes on because of a character of another one.
OneCompletion ==
  /\ putBusy <=> scheduled = 1
  /\ scheduled + cwrite = IF \E t \in Threads : pc[t] = "awaitDone" THEN 1 ELSE 0

\* The console and its users agree: units of cread and cwrite are what they stand for,
\* PutChar finds the device idle as it asserts, and Read fits its buffer.
ConsoleInv ==
  /\ TypeOK /\ HoldersAreInside /\ CallsMatch
  /\ UnitMeansCharacter /\ OneCompletion /\ PutFindsIdle /\ ReadFitsBuffer

\* A Write that has begun to display returns only when it has displayed its whole
\* text in order, whoever else writes.
WholeTextIsShown ==
  \A t \in Threads : pc[t] = "return" /\ shown[t] # <<>> => shown[t] = buffer[t]

\* No character is lost or out of order, on the way in or on the way out.
TextIsKept == NothingTypedIsLost /\ WholeTextIsShown

\* Every Write returns.
WriteReturns == \A t \in Threads : pc[t] = "acquireWrite" ~> pc[t] = "return"
==============================================================================
