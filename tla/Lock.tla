-------------------------------- MODULE Lock --------------------------------
(***************************************************************************)
(* One Lock of threads/synch.cc, shared by all threads of the kernel, with *)
(* the priority donation of Acquire and Scheduler::ChangeQueuePriority.    *)
(*                                                                         *)
(* Its two semaphores are semaphores of Kernel, and every step below is a  *)
(* step of Kernel by the current thread, or of the scheduler, that also    *)
(* moves that thread through Acquire and Release.  Time slices end where   *)
(* interrupts are enabled again, that is, on return from P and V: a thread *)
(* is not preempted between its last P or V and the next.  (The option -p, *)
(* which preempts at any instruction, is not modelled.)                    *)
(***************************************************************************)
EXTENDS Kernel

CONSTANTS sem, semInvP   \* Lock::sem and Lock::semInvP

ASSUME LockAssumption ==
  /\ {sem, semInvP} \subseteq Sems /\ sem # semInvP
  /\ InitialValue[sem] = 1 /\ InitialValue[semInvP] = 1
  /\ MaxValue > 0

VARIABLES
  thname,   \* Lock::thname, the thread that holds the lock, or NULL
  pc,       \* where a thread is in Acquire: see below
  crashed   \* the kernel dereferenced a null or dangling Thread pointer

\* "out": neither in Acquire nor holding the lock; "donate": in or after
\* semInvP->P(); "invV": about to call semInvP->V(); "semP": after it; "own": in
\* or after sem->P(); "in": Acquire has returned.
Places == {"out", "donate", "invV", "semP", "own", "in"}

lockVars == <<vars, thname, pc, crashed>>

LockInit ==
  /\ Init
  /\ thname = NULL
  /\ pc = [t \in Threads |-> "out"]
  /\ crashed = FALSE

Goto(place) == pc' = [pc EXCEPT ![currentThread] = place]

-----------------------------------------------------------------------------
\* Acquire up to semInvP->P().  Called by the holder it does nothing.
Acquire ==
  /\ pc[currentThread] = "out"
  /\ thname # currentThread
  /\ P(semInvP)
  /\ Goto("donate")
  /\ UNCHANGED <<thname, crashed>>

\* The ready lists that Scheduler::ChangeQueuePriority(th, p) leaves behind.  It
\* takes the head off the list of th's priority, rotates that list once round to
\* move th to the front of list p, and stops at the head, which it has removed
\* again.
ChangeQueuePriority(th, p) ==
  LET i == priority[th]
  IN  [readyListP EXCEPT
         ![i] = Without(Tail(@), th),
         ![p] = IF th \in Members(readyListP[i]) THEN <<th>> \o @ ELSE @]

\* The holder has a lower priority than the thread in Acquire.
Inversion == thname # NULL /\ priority[thname] < priority[currentThread]

\* The holder is given the priority of the current thread.
Donate ==
  /\ Running
  /\ pc[currentThread] = "donate"
  /\ Inversion
  /\ thname \notin destroyed
  /\ readyListP[priority[thname]] # <<>>
  /\ readyListP' = ChangeQueuePriority(thname, priority[currentThread])
  /\ priority' = [priority EXCEPT ![thname] = priority[currentThread]]
  /\ Goto("invV")
  /\ UNCHANGED <<status, currentThread, threadToBeDestroyed, fresh, destroyed,
                 semVars, pending, mode, thname, crashed>>

\* The holder has been deleted, or ChangeQueuePriority asks the name of the head
\* of an empty list.
DonateCrash ==
  /\ Running
  /\ pc[currentThread] = "donate"
  /\ thname # NULL
  /\ thname \in destroyed \/ (Inversion /\ readyListP[priority[thname]] = <<>>)
  /\ crashed' = TRUE
  /\ UNCHANGED <<vars, thname, pc>>

\* No donation is needed.
SkipDonation ==
  /\ Running
  /\ pc[currentThread] = "donate"
  /\ thname \notin destroyed
  /\ ~Inversion
  /\ Goto("invV")
  /\ UNCHANGED <<vars, thname, crashed>>

EndDonation ==
  /\ pc[currentThread] = "invV"
  /\ V(semInvP)
  /\ Goto("semP")
  /\ UNCHANGED <<thname, crashed>>

\* Mutant: no sem->P() when thname says that the lock is free.
EnterIfFree ==
  /\ pc[currentThread] = "semP"
  /\ IF thname = NULL THEN Running /\ UNCHANGED vars ELSE P(sem)
  /\ Goto("own")
  /\ UNCHANGED <<thname, crashed>>

Enter ==
  /\ pc[currentThread] = "semP"
  /\ P(sem)
  /\ Goto("own")
  /\ UNCHANGED <<thname, crashed>>

\* sem->P() has returned: note down the holder.
Own ==
  /\ Running
  /\ pc[currentThread] = "own"
  /\ thname' = currentThread
  /\ Goto("in")
  /\ UNCHANGED <<vars, crashed>>

\* Mutant: the semaphore is not raised.
ReleaseWithoutV ==
  /\ Running
  /\ pc[currentThread] = "in"
  /\ thname = currentThread
  /\ thname' = NULL
  /\ Goto("out")
  /\ UNCHANGED <<vars, crashed>>

\* Mutant: no ASSERT, any thread may call Release.
ReleaseByAnyone ==
  /\ pc[currentThread] \in {"out", "in"}
  /\ V(sem)
  /\ thname' = NULL
  /\ Goto("out")
  /\ UNCHANGED crashed

\* Release, by the holder: the ASSERT stops any other caller.
Release ==
  /\ pc[currentThread] = "in"
  /\ thname = currentThread
  /\ V(sem)
  /\ thname' = NULL
  /\ Goto("out")
  /\ UNCHANGED crashed

\* Everything else threads, devices and the scheduler do.  A thread may block on
\* another semaphore, or finish, without releasing the lock.
Other ==
  /\ pc[currentThread] # "invV"
  /\ \/ /\ pc[currentThread] \in {"out", "in"}
        /\ \/ \E t \in Threads, p \in Priorities : Fork(t, p)
           \/ \E s \in Sems \ {sem, semInvP} : P(s) \/ V(s) \/ Schedule(s)
           \/ Finish
     \/ Yield
     \/ \E s \in Sems : Retry(s)
     \/ \E s \in Sems \ {sem, semInvP} : Interrupt(s)
     \/ Dispatch
     \/ IdleReturn
     \/ Halt
  /\ UNCHANGED <<thname, pc, crashed>>

LockNext ==
  /\ ~crashed
  /\ \/ Acquire
     \/ Donate
     \/ DonateCrash
     \/ SkipDonation
     \/ EndDonation
     \/ Enter
     \/ Own
     \/ Release
     \/ Other

LockSpec == LockInit /\ [][LockNext]_lockVars

\* The current thread goes on inside Acquire.
Continue == Donate \/ SkipDonation \/ EndDonation \/ Enter \/ Own

\* As in Kernel.  In addition a thread inside Acquire goes on if it gets the CPU
\* again and again: it comes back from a Yield at the end of one P or V, and the
\* next time slice cannot end before its next P or V does.  Nothing obliges a
\* holder to release the lock.
LockFairness ==
  /\ WF_lockVars(Other /\ Yield)
  /\ WF_lockVars(Other /\ \E s \in Sems : Retry(s) \/ Interrupt(s))
  /\ WF_lockVars(Other /\ Dispatch)
  /\ WF_lockVars(Other /\ IdleReturn)
  /\ \A t \in Threads : SF_lockVars(t = currentThread /\ Continue)

LockFairSpec == LockSpec /\ LockFairness

-----------------------------------------------------------------------------
(* Properties *)

LockTypeOK ==
  /\ thname \in Threads \cup {NULL}
  /\ pc \in [Threads -> Places]
  /\ crashed \in BOOLEAN

\* The threads between the return of sem->P() and the call of sem->V().
Region == {t \in Threads : pc[t] = "in" \/ (pc[t] = "own" /\ inP[t] = NULL)}

\* At most one thread is between the return of Acquire's sem->P() and Release,
\* whatever priorities are donated and wherever time slices end.
MutualExclusion == \A t, u \in Region : t = u

\* A thread whose Acquire has returned is the one thname names, so the ASSERT of
\* Release and the test that makes a second Acquire return at once see the truth.
ThnameIsHolder == \A t \in Threads : pc[t] = "in" <=> thname = t

\* The semaphore is 1 while the region is empty and 0 while a thread is in it.
SemCountsRegion == value[sem] = IF Region = {} THEN 1 ELSE 0

\* A thread in P is at the place in Acquire that called it, or outside it.
WaitersArePlaced ==
  \A t \in Threads :
    /\ inP[t] = sem => pc[t] = "own"
    /\ inP[t] = semInvP => pc[t] = "donate"
    /\ inP[t] \notin {NULL, sem, semInvP} => pc[t] \in {"out", "in"}

\* The inductive invariant: mutual exclusion holds because the value of sem and
\* the threads in the region always add up to one.
LockInv ==
  /\ TypeOK
  /\ LockTypeOK
  /\ MutualExclusion
  /\ ThnameIsHolder
  /\ SemCountsRegion
  /\ WaitersArePlaced

Holder == IF Region = {} THEN NULL ELSE CHOOSE t \in Region : TRUE

AL == INSTANCE AbstractLock WITH holder <- Holder

\* Acquire and Release implement the lock that synch.h describes: what Region
\* does is a sequence of abstract Acquires and Releases by single threads.
ImplementsLock == AL!Spec

\* As long as nobody donates a priority the threads, the ready lists and the
\* semaphores under the lock behave as Kernel says, with all its guarantees.
ImplementsKernel == Spec

\* scheduler.cc on ReadyToRun: "Mark a thread as ready, but not running.  Put it
\* on the ready list, for later scheduling onto the CPU."
ReadyIsSchedulable ==
  \A t \in Threads :
    status[t] = "READY" => \E p \in Priorities : t \in Members(readyListP[p])

\* The threads that are about to call sem->P() or inside it.
Wanting == {t \in Threads : pc[t] = "semP" \/ (pc[t] = "own" /\ inP[t] = sem)}

\* A free lock that threads of the highest priority want is taken: Acquire is not
\* left sleeping in sem->P() by a Release that came before it went to sleep or woke
\* another thread.  (Lower priorities may starve, and a donation may crash the kernel
\* or lose a thread.)
FreeLockIsTaken ==
  (Region = {} /\ Wanting # {} /\ \A t \in Wanting : priority[t] = MaxPriority - 1)
    ~> (Region # {} \/ crashed \/ ~ReadyIsSchedulable)
==============================================================================
