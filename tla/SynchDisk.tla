----------------------------- MODULE SynchDisk ------------------------------
(***************************************************************************)
(* filesys/synchdisk.cc: a lock and a semaphore turn the asynchronous      *)
(* requests of machine/disk.cc into calls that return when the sector has  *)
(* been read or written.  The lock is the abstract one, which Lock         *)
(* implements; how long a request takes is left out.                       *)
(***************************************************************************)
EXTENDS Integers

CONSTANTS
  Threads, NULL,
  Sectors,     \* the numbers of the sectors
  Data         \* what a sector may hold

ASSUME SynchDiskAssumption == NULL \notin Threads

VARIABLES
  holder,      \* the thread that holds lock, or NULL
  semaphore,   \* the value of semaphore
  diskActive,  \* Disk::active
  scheduled,   \* the disk interrupts that are pending
  store,       \* the file that holds the contents of the disk
  pc,          \* where a thread is in ReadSector or WriteSector
  call,        \* the arguments of its call
  data,        \* the contents of its buffer
  requester    \* history: the thread whose request the disk works on, or NULL

synchDiskVars == <<holder, semaphore, diskActive, scheduled, store, pc, call, data, requester>>

L == INSTANCE AbstractLock

Calls == [writing : BOOLEAN, sector : Sectors]

-----------------------------------------------------------------------------
SynchDiskInit ==
  /\ L!Init
  /\ semaphore = 0
  /\ diskActive = FALSE
  /\ scheduled = 0
  /\ store \in [Sectors -> Data]
  /\ pc = [t \in Threads |-> "idle"]
  /\ call \in [Threads -> Calls]
  /\ data \in [Threads -> Data]
  /\ requester = NULL

Goto(t, place) == pc' = [pc EXCEPT ![t] = place]

\* ReadSector or WriteSector is called; only the latter reads the buffer.
Call(t, c, d) ==
  /\ pc[t] = "idle"
  /\ call' = [call EXCEPT ![t] = c]
  /\ data' = [data EXCEPT ![t] = d]
  /\ Goto(t, "acquire")
  /\ UNCHANGED <<holder, semaphore, diskActive, scheduled, store, requester>>

Acquire(t) ==
  /\ pc[t] = "acquire"
  /\ L!Acquire(t)
  /\ Goto(t, "request")
  /\ UNCHANGED <<semaphore, diskActive, scheduled, store, call, data, requester>>

\* Mutant: the caller does not wait for the interrupt.
DiskRequestWithoutWait(t) ==
  /\ pc[t] = "request"
  /\ IF call[t].writing
     THEN /\ store' = [store EXCEPT ![call[t].sector] = data[t]]
          /\ UNCHANGED data
     ELSE /\ data' = [data EXCEPT ![t] = store[call[t].sector]]
          /\ UNCHANGED store
  /\ diskActive' = TRUE
  /\ scheduled' = scheduled + 1
  /\ requester' = t
  /\ Goto(t, "release")
  /\ UNCHANGED <<holder, semaphore, call>>

\* Disk::ReadRequest and Disk::WriteRequest: the file is read or written at once,
\* the interrupt comes later.  Their ASSERT(!active) is DiskIsIdle.
DiskRequest(t) ==
  /\ pc[t] = "request"
  /\ IF call[t].writing
     THEN /\ store' = [store EXCEPT ![call[t].sector] = data[t]]
          /\ UNCHANGED data
     ELSE /\ data' = [data EXCEPT ![t] = store[call[t].sector]]
          /\ UNCHANGED store
  /\ diskActive' = TRUE
  /\ scheduled' = scheduled + 1
  /\ requester' = t
  /\ Goto(t, "wait")
  /\ UNCHANGED <<holder, semaphore, call>>

\* Mutant: the handler forgets to raise the semaphore.
RequestDoneWithoutV ==
  /\ scheduled > 0
  /\ scheduled' = scheduled - 1
  /\ diskActive' = FALSE
  /\ UNCHANGED <<holder, semaphore, store, pc, call, data, requester>>

\* Disk::HandleInterrupt and SynchDisk::RequestDone.
RequestDone ==
  /\ scheduled > 0
  /\ scheduled' = scheduled - 1
  /\ diskActive' = FALSE
  /\ semaphore' = semaphore + 1
  /\ UNCHANGED <<holder, store, pc, call, data, requester>>

\* Mutant: the lock is given up before the interrupt has come.
WaitUnlocked(t) ==
  /\ pc[t] = "wait"
  /\ L!Release(t)
  /\ Goto(t, "idle")
  /\ UNCHANGED <<semaphore, diskActive, scheduled, store, call, data, requester>>

\* semaphore->P()
Wait(t) ==
  /\ pc[t] = "wait"
  /\ semaphore > 0
  /\ semaphore' = semaphore - 1
  /\ Goto(t, "release")
  /\ UNCHANGED <<holder, diskActive, scheduled, store, call, data, requester>>

Release(t) ==
  /\ pc[t] = "release"
  /\ L!Release(t)
  /\ Goto(t, "idle")
  /\ UNCHANGED <<semaphore, diskActive, scheduled, store, call, data, requester>>

Step(t) == Acquire(t) \/ DiskRequest(t) \/ Wait(t) \/ Release(t)

SynchDiskNext ==
  \/ \E t \in Threads : Step(t) \/ \E c \in Calls, d \in Data : Call(t, c, d)
  \/ RequestDone

SynchDiskSpec == SynchDiskInit /\ [][SynchDiskNext]_synchDiskVars

\* Interrupts that are scheduled happen, and a thread that can go on does so.
SynchDiskFairSpec ==
  /\ SynchDiskSpec
  /\ WF_synchDiskVars(RequestDone)
  /\ \A t \in Threads : WF_synchDiskVars(Step(t))

-----------------------------------------------------------------------------
(* Properties *)

TypeOK ==
  /\ holder \in Threads \cup {NULL}
  /\ semaphore \in Nat
  /\ diskActive \in BOOLEAN
  /\ scheduled \in Nat
  /\ store \in [Sectors -> Data]
  /\ pc \in [Threads -> {"idle", "acquire", "request", "wait", "release"}]
  /\ call \in [Threads -> Calls]
  /\ data \in [Threads -> Data]
  /\ requester \in Threads \cup {NULL}

\* Exactly the thread between Acquire and Release holds the lock.
HolderIsInside ==
  \A t \in Threads : pc[t] \in {"request", "wait", "release"} <=> holder = t

\* There is a pending interrupt or a unit of the semaphore when a thread waits,
\* one or the other, and neither when no thread does.
OneCompletion ==
  /\ diskActive <=> scheduled = 1
  /\ scheduled + semaphore = IF \E t \in Threads : pc[t] = "wait" THEN 1 ELSE 0

\* The ASSERT of ReadRequest and WriteRequest: a request finds the disk idle.
DiskIsIdle == \A t \in Threads : pc[t] = "request" => ~diskActive

\* The completion a thread waits for is that of its own request.
OwnCompletion ==
  \A t \in Threads : pc[t] \in {"wait", "release"} => requester = t

\* ReadSector and WriteSector return when the disk is done, and then the sector
\* holds what the caller's buffer holds.
ReturnsTheSector ==
  \A t \in Threads :
    pc[t] = "release" => ~diskActive /\ data[t] = store[call[t].sector]

WaiterSeesSector ==
  \A t \in Threads : pc[t] = "wait" => data[t] = store[call[t].sector]

\* The inductive invariant.
SynchDiskInv ==
  /\ TypeOK
  /\ HolderIsInside
  /\ OneCompletion
  /\ OwnCompletion
  /\ WaiterSeesSector
  /\ ReturnsTheSector

\* While threads want the disk, requests end: they do not wait for one another for
\* ever, nor for a completion that is lost.
DiskIsServed ==
  (\E t \in Threads : pc[t] = "acquire") ~> (\E t \in Threads : pc[t] = "release")
==============================================================================
