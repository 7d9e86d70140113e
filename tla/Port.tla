-------------------------------- MODULE Port --------------------------------
(***************************************************************************)
(* Condition and Puerto of threads/synch.cc: a one-place mailbox guarded   *)
(* by a lock and two condition variables.  Thread::Join is a Receive on    *)
(* the port of the thread waited for, Thread::Finish a Send to it.         *)
(*                                                                         *)
(* The lock is the abstract one, which Lock implements.  The steps of Send *)
(* and Receive between two operations on it are separate actions.          *)
(***************************************************************************)
EXTENDS Integers, Sequences

CONSTANTS
  Senders, Receivers,  \* the threads that call Send and Receive
  NULL,
  Messages,            \* the values sent
  MaxSent,             \* bound on the number of Sends
  MaxSems              \* bound on the semaphores Wait has created

Threads == Senders \cup Receivers

ASSUME PortAssumption ==
  /\ Senders \cap Receivers = {}
  /\ NULL \notin Threads
  /\ MaxSent \in Nat /\ MaxSems \in Nat

VARIABLES
  holder,    \* the thread that holds plock, or NULL
  access,    \* Puerto::access: the buffer is empty
  buffer,    \* Puerto::buffer
  sems,      \* the values of the semaphores created by Wait so far
  semList,   \* Condition::semList of pcondS and pcondR: indices into sems
  mySem,     \* the semaphore of a thread's current Wait
  pc,        \* where a thread is in Send or Receive
  msg,       \* the argument of a sender's Send
  sent,      \* history: the messages stored in the buffer
  received   \* history: the messages taken from it

vars == <<holder, access, buffer, sems, semList, mySem, pc, msg, sent, received>>

PL == INSTANCE AbstractLock

\* A sender waits on pcondS and signals pcondR; a receiver the other way round.
WaitsOn(t) == IF t \in Senders THEN "pcondS" ELSE "pcondR"
Signals(t) == IF t \in Senders THEN "pcondR" ELSE "pcondS"

\* The condition of the while loop of Send and of Receive.
MustWait(t) == IF t \in Senders THEN ~access ELSE access

-----------------------------------------------------------------------------
\* The buffer is not initialized by the constructor.
Init ==
  /\ PL!Init
  /\ access = TRUE
  /\ buffer \in Messages
  /\ sems = <<>>
  /\ semList = [c \in {"pcondS", "pcondR"} |-> <<>>]
  /\ mySem = [t \in Threads |-> 0]
  /\ pc = [t \in Threads |-> "idle"]
  /\ msg \in [Senders -> Messages]
  /\ sent = <<>>
  /\ received = <<>>

Goto(t, place) == pc' = [pc EXCEPT ![t] = place]

\* Send(m) is called.
CallSend(t, m) ==
  /\ t \in Senders
  /\ pc[t] = "idle"
  /\ Len(sent) < MaxSent
  /\ msg' = [msg EXCEPT ![t] = m]
  /\ Goto(t, "acquire")
  /\ UNCHANGED <<holder, access, buffer, sems, semList, mySem, sent, received>>

CallReceive(t) ==
  /\ t \in Receivers
  /\ pc[t] = "idle"
  /\ Goto(t, "acquire")
  /\ UNCHANGED <<holder, access, buffer, sems, semList, mySem, msg, sent, received>>

\* plock->Acquire(), at the start and at the end of a Wait.
Acquire(t) ==
  /\ pc[t] = "acquire"
  /\ PL!Acquire(t)
  /\ Goto(t, "test")
  /\ UNCHANGED <<access, buffer, sems, semList, mySem, msg, sent, received>>

\* Mutant: "if" in place of "while", the condition is not tested after a Wait.
ProceedAfterWait(t) ==
  /\ pc[t] = "test"
  /\ ~MustWait(t) \/ mySem[t] # 0
  /\ Goto(t, "move")
  /\ UNCHANGED <<holder, access, buffer, sems, semList, mySem, msg, sent, received>>

\* The loop condition is false.
Proceed(t) ==
  /\ pc[t] = "test"
  /\ ~MustWait(t)
  /\ Goto(t, "move")
  /\ UNCHANGED <<holder, access, buffer, sems, semList, mySem, msg, sent, received>>

\* Mutant: Wait does not release the lock.
WaitKeepsLock(t) ==
  /\ pc[t] = "test"
  /\ MustWait(t)
  /\ Len(sems) < MaxSems
  /\ sems' = Append(sems, 1)
  /\ mySem' = [mySem EXCEPT ![t] = Len(sems) + 1]
  /\ semList' = [semList EXCEPT ![WaitsOn(t)] = Append(@, Len(sems) + 1)]
  /\ Goto(t, "wait")
  /\ UNCHANGED <<holder, access, buffer, msg, sent, received>>

\* The loop condition is true: Condition::Wait up to its Release.  The semaphore
\* is created with the value 1.
Wait(t) ==
  /\ pc[t] = "test"
  /\ MustWait(t)
  /\ Len(sems) < MaxSems
  /\ sems' = Append(sems, 1)
  /\ mySem' = [mySem EXCEPT ![t] = Len(sems) + 1]
  /\ semList' = [semList EXCEPT ![WaitsOn(t)] = Append(@, Len(sems) + 1)]
  /\ PL!Release(t)
  /\ Goto(t, "wait")
  /\ UNCHANGED <<access, buffer, msg, sent, received>>

\* sem->P() in Wait.
WaitP(t) ==
  /\ pc[t] = "wait"
  /\ sems[mySem[t]] > 0
  /\ sems' = [sems EXCEPT ![mySem[t]] = @ - 1]
  /\ Goto(t, "acquire")
  /\ UNCHANGED <<holder, access, buffer, semList, mySem, msg, sent, received>>

\* Fill the buffer.
Put(t) ==
  /\ t \in Senders
  /\ pc[t] = "move"
  /\ buffer' = msg[t]
  /\ access' = FALSE
  /\ sent' = Append(sent, msg[t])
  /\ Goto(t, "signal")
  /\ UNCHANGED <<holder, sems, semList, mySem, msg, received>>

\* Empty the buffer.
Get(t) ==
  /\ t \in Receivers
  /\ pc[t] = "move"
  /\ access' = TRUE
  /\ received' = Append(received, buffer)
  /\ Goto(t, "signal")
  /\ UNCHANGED <<holder, buffer, sems, semList, mySem, msg, sent>>

\* Condition::Signal.  The ASSERT that the caller holds the lock is HolderIsInside.
Signal(t) ==
  /\ pc[t] = "signal"
  /\ IF semList[Signals(t)] = <<>>
     THEN UNCHANGED <<sems, semList>>
     ELSE /\ semList' = [semList EXCEPT ![Signals(t)] = Tail(@)]
          /\ sems' = [sems EXCEPT ![Head(semList[Signals(t)])] = @ + 1]
  /\ Goto(t, "release")
  /\ UNCHANGED <<holder, access, buffer, mySem, msg, sent, received>>

Release(t) ==
  /\ pc[t] = "release"
  /\ PL!Release(t)
  /\ Goto(t, "idle")
  /\ UNCHANGED <<access, buffer, sems, semList, mySem, msg, sent, received>>

Next ==
  \E t \in Threads :
    \/ \E m \in Messages : CallSend(t, m)
    \/ CallReceive(t)
    \/ Acquire(t)
    \/ Proceed(t)
    \/ Wait(t)
    \/ WaitP(t)
    \/ Put(t)
    \/ Get(t)
    \/ Signal(t)
    \/ Release(t)

Spec == Init /\ [][Next]_vars

-----------------------------------------------------------------------------
(* Properties *)

Places == {"idle", "acquire", "test", "wait", "move", "signal", "release"}

TypeOK ==
  /\ holder \in Threads \cup {NULL}
  /\ access \in BOOLEAN
  /\ buffer \in Messages
  /\ sems \in Seq(Nat)
  /\ semList \in [{"pcondS", "pcondR"} -> Seq(1 .. Len(sems))]
  /\ mySem \in [Threads -> 0 .. Len(sems)]
  /\ pc \in [Threads -> Places]
  /\ msg \in [Senders -> Messages]
  /\ sent \in Seq(Messages)
  /\ received \in Seq(Messages)

\* Exactly the thread between Acquire and Release holds the lock, so the ASSERTs
\* of Wait, Signal and Release hold.
HolderIsInside ==
  \A t \in Threads :
    pc[t] \in {"test", "move", "signal", "release"} <=> holder = t

\* A thread that has left its loop still finds the buffer as its test saw it.
TestStillHolds == \A t \in Threads : pc[t] = "move" => ~MustWait(t)

\* What was sent is what was received and then what is in the buffer: no message
\* is lost, overwritten, duplicated or reordered, whoever sends and receives and
\* although Wait may return without a Signal.
NothingLost == sent = received \o (IF access THEN <<>> ELSE <<buffer>>)

\* P in Wait never sleeps for good: a semaphore of a condition has a unit left
\* for the thread that created it.
WaiterHasUnit ==
  \A t \in Threads :
    pc[t] = "wait" => mySem[t] \in 1 .. Len(sems) /\ sems[mySem[t]] > 0

\* No two threads wait on one semaphore.
OwnSems ==
  \A t, u \in Threads :
    pc[t] = "wait" /\ pc[u] = "wait" /\ mySem[t] = mySem[u] => t = u

\* The inductive invariant.
PortInv ==
  /\ TypeOK
  /\ HolderIsInside
  /\ TestStillHolds
  /\ NothingLost
  /\ WaiterHasUnit
  /\ OwnSems
==============================================================================
