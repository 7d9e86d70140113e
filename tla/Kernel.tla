-------------------------------- MODULE Kernel --------------------------------
(***************************************************************************)
(* Threads, counting semaphores and the part of interrupt delivery that    *)
(* decides when they can interleave (threads/thread.cc, threads/synch.cc,  *)
(* machine/interrupt.cc).                                                  *)
(*                                                                         *)
(* Nachos runs on one simulated CPU.  The code of a thread is interrupted  *)
(* only while interrupts are enabled, so the body of each operation, which *)
(* disables them, is one action.  The thread that holds the CPU is a most  *)
(* general client: it may call any operation at any time, and may be made  *)
(* to Yield by a time slice between any two of them.                       *)
(***************************************************************************)
EXTENDS Scheduler, FiniteSets

CONSTANTS
  Sems,          \* the Semaphore objects
  InitialValue,  \* the value each was constructed with
  MaxValue       \* bound on the value V and the scheduled interrupts reach

ASSUME KernelAssumption ==
  /\ IsFiniteSet(Threads)
  /\ NULL \notin Sems
  /\ InitialValue \in [Sems -> Nat]
  /\ MaxValue \in Nat

VARIABLES
  value,    \* Semaphore::value
  queue,    \* Semaphore::queue
  inP,      \* the semaphore in whose P loop a thread is, or NULL
  pending,  \* device interrupts scheduled; each one will V its semaphore
  mode      \* "System": a thread or the dispatch loop runs; "Idle": Idle() is
            \* delivering interrupts; "Halted": Halt() was called

semVars == <<value, queue, inP>>
vars == <<schedVars, semVars, pending, mode>>

-----------------------------------------------------------------------------
Init ==
  /\ SchedInit
  /\ value = InitialValue
  /\ queue = [s \in Sems |-> <<>>]
  /\ inP = [t \in Threads |-> NULL]
  /\ pending = [s \in Sems |-> 0]
  /\ mode = "System"

\* The current thread executes its own code with interrupts enabled.
Running ==
  /\ mode = "System"
  /\ status[currentThread] = "RUNNING"
  /\ inP[currentThread] = NULL

\* The CPU is in the loop of Sleep that looks for a thread to run.
Sleeping ==
  /\ mode = "System"
  /\ status[currentThread] # "RUNNING"

\* Thread::Fork of a new thread with priority p.
Fork(t, p) ==
  /\ Running
  /\ status[t] = "JUST_CREATED"
  /\ priority' = [priority EXCEPT ![t] = p]
  /\ status' = [status EXCEPT ![t] = "READY"]
  /\ readyListP' = [readyListP EXCEPT ![p] = Append(@, t)]
  /\ fresh' = fresh \cup {t}
  /\ UNCHANGED <<currentThread, threadToBeDestroyed, destroyed, semVars,
                 pending, mode>>

\* Mutant: the yielding thread goes to the front of its ready list.
YieldPrepends ==
  /\ Running
  /\ ~NoneReady
  /\ status' = [status EXCEPT ![currentThread] = "READY",
                              ![FindNextToRun] = "RUNNING"]
  /\ readyListP' = [WithoutNext EXCEPT
                      ![priority[currentThread]] = <<currentThread>> \o @]
  /\ Run(FindNextToRun)
  /\ UNCHANGED <<priority, semVars, pending, mode>>

\* Thread::Yield, called by the thread itself or by OneTick after a time slice.
\* It changes nothing when no other thread is ready.
Yield ==
  /\ Running
  /\ ~NoneReady
  /\ status' = [status EXCEPT ![currentThread] = "READY",
                              ![FindNextToRun] = "RUNNING"]
  /\ readyListP' = Appended(WithoutNext, currentThread)
  /\ Run(FindNextToRun)
  /\ UNCHANGED <<priority, semVars, pending, mode>>

\* The loop body of P when the value is 0: enqueue and Sleep.
Block(s) ==
  /\ value[s] = 0
  /\ queue' = [queue EXCEPT ![s] = Append(@, currentThread)]
  /\ status' = [status EXCEPT ![currentThread] = "BLOCKED"]
  /\ inP' = [inP EXCEPT ![currentThread] = s]
  /\ UNCHANGED value

\* The exit of P's loop.
Take(s) ==
  /\ value[s] > 0
  /\ value' = [value EXCEPT ![s] = @ - 1]
  /\ inP' = [inP EXCEPT ![currentThread] = NULL]
  /\ UNCHANGED <<queue, status>>

\* Semaphore::P from its call to the first Sleep or to its return.
P(s) ==
  /\ Running
  /\ Block(s) \/ Take(s)
  /\ UNCHANGED <<readyListP, priority, currentThread, threadToBeDestroyed,
                 fresh, destroyed, pending, mode>>

\* Mutant: P tests the value once, with "if" in place of "while".
RetryOnce(s) ==
  /\ mode = "System"
  /\ status[currentThread] = "RUNNING"
  /\ inP[currentThread] = s
  /\ value' = [value EXCEPT ![s] = @ - 1]
  /\ inP' = [inP EXCEPT ![currentThread] = NULL]
  /\ UNCHANGED <<schedVars, queue, pending, mode>>

\* Sleep has returned inside P, interrupts still off: test the value again.
Retry(s) ==
  /\ mode = "System"
  /\ status[currentThread] = "RUNNING"
  /\ inP[currentThread] = s
  /\ Block(s) \/ Take(s)
  /\ UNCHANGED <<readyListP, priority, currentThread, threadToBeDestroyed,
                 fresh, destroyed, pending, mode>>

\* Mutant: V wakes a waiter only when the value was 0.
IncrementFromZero(s) ==
  /\ value' = [value EXCEPT ![s] = @ + 1]
  /\ IF queue[s] = <<>> \/ value[s] > 0
     THEN UNCHANGED <<queue, status, readyListP>>
     ELSE /\ queue' = [queue EXCEPT ![s] = Tail(@)]
          /\ ReadyToRun(Head(queue[s]))

\* The body of Semaphore::V.  Threads leave the queue in FIFO order and test
\* the value again when they run: the increment is not handed over.
Increment(s) ==
  /\ value' = [value EXCEPT ![s] = @ + 1]
  /\ IF queue[s] = <<>>
     THEN UNCHANGED <<queue, status, readyListP>>
     ELSE /\ queue' = [queue EXCEPT ![s] = Tail(@)]
          /\ ReadyToRun(Head(queue[s]))

V(s) ==
  /\ Running
  /\ value[s] + pending[s] < MaxValue
  /\ Increment(s)
  /\ UNCHANGED <<priority, currentThread, threadToBeDestroyed, fresh, destroyed,
                 inP, pending, mode>>

\* Thread::Finish.  When the thread can be joined, the Send on its join port
\* that precedes these lines is a sequence of P and V on the port's semaphores.
Finish ==
  /\ Running
  /\ threadToBeDestroyed' = currentThread
  /\ status' = [status EXCEPT ![currentThread] = "BLOCKED"]
  /\ UNCHANGED <<readyListP, priority, currentThread, fresh, destroyed, semVars,
                 pending, mode>>

\* The exit of Sleep's loop: a thread is ready, switch to it.
Dispatch ==
  /\ Sleeping
  /\ ~NoneReady
  /\ status' = [status EXCEPT ![FindNextToRun] = "RUNNING"]
  /\ readyListP' = WithoutNext
  /\ Run(FindNextToRun)
  /\ UNCHANGED <<priority, semVars, pending, mode>>

-----------------------------------------------------------------------------
\* Interrupt::Schedule by a device that the current thread starts; the device's
\* handler will V semaphore s.
Schedule(s) ==
  /\ Running
  /\ value[s] + pending[s] < MaxValue
  /\ pending' = [pending EXCEPT ![s] = @ + 1]
  /\ UNCHANGED <<schedVars, semVars, mode>>

\* A scheduled interrupt fires: in OneTick, with the current thread interrupted,
\* or in Idle, called from Sleep when no thread is ready.  Idle goes on firing
\* the interrupts that are due before it looks at the ready lists again.
Interrupt(s) ==
  /\ pending[s] > 0
  /\ \/ Running /\ UNCHANGED mode
     \/ Sleeping /\ NoneReady /\ mode' = "Idle"
     \/ mode = "Idle" /\ UNCHANGED mode
  /\ pending' = [pending EXCEPT ![s] = @ - 1]
  /\ Increment(s)
  /\ UNCHANGED <<priority, currentThread, threadToBeDestroyed, fresh, destroyed,
                 inP>>

\* Idle returns to Sleep's loop.
IdleReturn ==
  /\ mode = "Idle"
  /\ mode' = "System"
  /\ UNCHANGED <<schedVars, semVars, pending>>

\* Idle finds no pending interrupt.
Halt ==
  /\ Sleeping
  /\ NoneReady
  /\ \A s \in Sems : pending[s] = 0
  /\ mode' = "Halted"
  /\ UNCHANGED <<schedVars, semVars, pending>>

-----------------------------------------------------------------------------
Next ==
  \/ \E t \in Threads, p \in Priorities : Fork(t, p)
  \/ Yield
  \/ \E s \in Sems : P(s) \/ Retry(s) \/ V(s) \/ Schedule(s) \/ Interrupt(s)
  \/ Finish
  \/ Dispatch
  \/ IdleReturn
  \/ Halt

Spec == Init /\ [][Next]_vars

\* The time-slice timer makes the running thread Yield again and again (it is
\* started by -rs, and always in a build with user programs), simulated time
\* advances until a scheduled interrupt fires, and kernel code that runs with
\* interrupts off is not stopped.  Nothing is assumed of what threads call.
Fairness ==
  /\ WF_vars(Yield)
  /\ WF_vars(\E s \in Sems : Retry(s))
  /\ WF_vars(Dispatch)
  /\ WF_vars(\E s \in Sems : Interrupt(s))
  /\ WF_vars(IdleReturn)

FairSpec == Spec /\ Fairness

-----------------------------------------------------------------------------
(* Properties *)

TypeOK ==
  /\ readyListP \in [Priorities -> Seq(Threads)]
  /\ status \in [Threads -> ThreadStatus]
  /\ priority \in [Threads -> Priorities]
  /\ currentThread \in Threads
  /\ threadToBeDestroyed \in Threads \cup {NULL}
  /\ fresh \in SUBSET Threads
  /\ destroyed \in SUBSET Threads
  /\ value \in [Sems -> Nat]
  /\ queue \in [Sems -> Seq(Threads)]
  /\ inP \in [Threads -> Sems \cup {NULL}]
  /\ pending \in [Sems -> Nat]
  /\ mode \in {"System", "Idle", "Halted"}

\* A thread that called Finish has left the CPU for good.
Finished(t) == status[t] = "BLOCKED" /\ inP[t] = NULL

\* The threads V took off the queue of s that have not yet tested its value.
Woken(s) == {t \in Threads : inP[t] = s /\ t \notin Members(queue[s])}

\* A READY thread is exactly once in the ready list of its own priority, and
\* only READY threads are in the lists: the scheduler neither loses a thread
\* nor runs one twice (ReadyToRun, FindNextToRun, Yield, V).
ReadyIsListed ==
  /\ \A t \in Threads, p \in Priorities :
       t \in Members(readyListP[p]) <=> status[t] = "READY" /\ priority[t] = p
  /\ \A p \in Priorities : NoDuplicates(readyListP[p])

\* A thread blocked in P is exactly once in the queue of that semaphore and in
\* no other queue, so exactly one V will find it (Semaphore::P, Thread::Sleep).
BlockedIsQueued ==
  /\ \A t \in Threads, s \in Sems :
       t \in Members(queue[s]) <=> status[t] = "BLOCKED" /\ inP[t] = s
  /\ \A s \in Sems : NoDuplicates(queue[s])

\* No lost wakeup: while threads wait on s, every unit of its value belongs to a
\* thread that was woken and is going to test the value again.  So nobody is left
\* sleeping beside a positive semaphore, although V wakes one waiter only, the
\* waiter may find the unit gone, and interrupt handlers V at any time.
NoLostWakeup ==
  \A s \in Sems : queue[s] # <<>> => value[s] <= Cardinality(Woken(s))

\* Scheduler::Run deletes a Thread object only after its last use: no ready
\* list and no semaphore queue refers to a deleted thread.
DestroyedIsUnreachable ==
  \A t \in destroyed :
    /\ \A p \in Priorities : t \notin Members(readyListP[p])
    /\ \A s \in Sems : t \notin Members(queue[s])

\* Only threads that called Finish are deleted or about to be, and none is
\* deleted twice or while the CPU is on its stack (Finish, Run, ~Thread).
DestroyedIsFinished ==
  /\ \A t \in destroyed \cup ({threadToBeDestroyed} \ {NULL}) : Finished(t)
  /\ \A t \in destroyed : t # currentThread /\ t # threadToBeDestroyed

\* The inductive invariant.
KernelInv ==
  /\ TypeOK
  /\ ReadyIsListed
  /\ BlockedIsQueued
  /\ NoLostWakeup
  /\ DestroyedIsFinished

\* Whenever the CPU changes hands no thread of a higher priority is left ready,
\* except for the one that has just yielded (FindNextToRun).
HighestRuns ==
  [][currentThread' # currentThread =>
       \A t \in Threads \ {currentThread} :
         status'[t] = "READY" => priority[t] <= priority[currentThread']]_vars

\* A thread that keeps t from the CPU, whatever t does.
Overtakes(u, t) == status[u] \in {"READY", "RUNNING"} /\ priority[u] > priority[t]

\* A ready thread gets the CPU unless threads of a higher priority come: Yield puts the
\* thread "on the end of the ready list, so that it will eventually be re-scheduled".
\* (A lower list is served only when the higher ones are empty.)
ReadyRuns ==
  \A t \in Threads :
    status[t] = "READY" ~> (status[t] = "RUNNING" \/ \E u \in Threads : Overtakes(u, t))

\* Units and waiters do not coexist for ever: V wakes a thread that takes the unit,
\* unless threads of a higher priority keep it from running.
UnitsAreTaken ==
  \A s \in Sems :
    (queue[s] # <<>> /\ value[s] > 0)
      ~> \/ queue[s] = <<>> \/ value[s] = 0
         \/ Woken(s) # {} /\ \A t \in Woken(s) : \E u \in Threads : Overtakes(u, t)
==============================================================================
