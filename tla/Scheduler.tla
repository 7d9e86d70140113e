------------------------------ MODULE Scheduler ------------------------------
(***************************************************************************)
(* The thread dispatcher of threads/scheduler.cc: one FIFO ready list per  *)
(* priority, the thread that holds the CPU, and the thread object waiting  *)
(* to be deleted.  The operators below are the scheduler's functions; the  *)
(* modules that EXTEND this one call them inside their actions, which run  *)
(* with interrupts disabled and are therefore atomic.                      *)
(***************************************************************************)
EXTENDS Lists

CONSTANTS
  Threads,      \* the Thread objects
  Main,         \* the thread Initialize wraps around the boot stack
  MaxPriority,  \* number of ready lists (3 in the code)
  NULL          \* the null pointer

ASSUME SchedulerAssumption ==
  /\ Main \in Threads
  /\ NULL \notin Threads
  /\ MaxPriority \in Nat \ {0}

VARIABLES
  readyListP,           \* [Priorities -> Seq(Threads)]
  status,               \* [Threads -> ThreadStatus]
  priority,             \* [Threads -> Priorities]
  currentThread,        \* the thread whose stack the CPU is on
  threadToBeDestroyed,  \* a finished thread that Run has still to delete
  fresh,                \* forked threads whose first SWITCH is still to come
  destroyed             \* Thread objects that have been deleted

schedVars == <<readyListP, status, priority, currentThread,
               threadToBeDestroyed, fresh, destroyed>>

Priorities == 0 .. MaxPriority - 1

ThreadStatus == {"JUST_CREATED", "RUNNING", "READY", "BLOCKED"}

-----------------------------------------------------------------------------
\* Initialize: only the main thread exists, and it is running.
SchedInit ==
  /\ readyListP = [p \in Priorities |-> <<>>]
  /\ status = [t \in Threads |-> IF t = Main THEN "RUNNING" ELSE "JUST_CREATED"]
  /\ priority = [t \in Threads |-> 0]
  /\ currentThread = Main
  /\ threadToBeDestroyed = NULL
  /\ fresh = {}
  /\ destroyed = {}

NoneReady == \A p \in Priorities : readyListP[p] = <<>>

\* Mutant: the scan goes the other way.
NextPriorityUpwards ==
  CHOOSE p \in Priorities :
    /\ readyListP[p] # <<>>
    /\ \A q \in Priorities : q < p => readyListP[q] = <<>>

\* FindNextToRun scans from MaxPriority-1 down to 0 and stops at the first
\* list that is not empty.
NextPriority ==
  CHOOSE p \in Priorities :
    /\ readyListP[p] # <<>>
    /\ \A q \in Priorities : q > p => readyListP[q] = <<>>

\* The thread FindNextToRun returns, and the ready lists it leaves behind.
FindNextToRun == Head(readyListP[NextPriority])

WithoutNext == [readyListP EXCEPT ![NextPriority] = Tail(@)]

\* The ready lists once ReadyToRun has appended t to the list of its priority.
Appended(lists, t) == [lists EXCEPT ![priority[t]] = Append(@, t)]

ReadyToRun(t) ==
  /\ status' = [status EXCEPT ![t] = "READY"]
  /\ readyListP' = Appended(readyListP, t)

\* Mutant: the old thread is deleted without looking at threadToBeDestroyed.
RunDeletesOld(next) ==
  /\ currentThread' = next
  /\ fresh' = fresh \ {next}
  /\ destroyed' = destroyed \cup {currentThread}
  /\ UNCHANGED threadToBeDestroyed

\* Run after it has marked next RUNNING: SWITCH returns inside Run on the
\* stack of a thread that was switched out before, which then deletes the
\* finished thread.  A thread that never ran starts at ThreadRoot instead and
\* deletes nothing.
Run(next) ==
  /\ currentThread' = next
  /\ fresh' = fresh \ {next}
  /\ IF next \in fresh
     THEN UNCHANGED <<threadToBeDestroyed, destroyed>>
     ELSE /\ destroyed' = destroyed \cup ({threadToBeDestroyed} \ {NULL})
          /\ threadToBeDestroyed' = NULL
==============================================================================
