----------------------------- MODULE Interrupt ------------------------------
(***************************************************************************)
(* machine/interrupt.cc with simulated time, and machine/timer.cc: the     *)
(* sorted list of pending interrupts, OneTick, Idle and CheckIfDue.        *)
(* Kernel abstracts from the time at which an interrupt happens; here it   *)
(* is all that matters, and what handlers do is left out.  Disk puts the   *)
(* actions together.                                                       *)
(*                                                                         *)
(* Only differences of times are compared, so a pending interrupt has the  *)
(* time that is left until it is due, when - totalTicks.                   *)
(***************************************************************************)
EXTENDS Lists

CONSTANTS
  Devices,    \* those with one request at a time: disk, output, network output
  Polls,      \* those that poll: their handlers schedule them again
  timer,
  Delays,     \* the times that requests and polls take
  Ticks       \* SystemTick and UserTick

Sources == Devices \cup Polls \cup {timer}

ASSUME InterruptAssumption ==
  /\ Devices \cap Polls = {} /\ timer \notin Devices \cup Polls
  /\ Delays \subseteq Nat \ {0} /\ Ticks \subseteq Nat \ {0}

VARIABLES
  pending,         \* the sorted list: records of a source and the time left
  yieldOnReturn,
  place            \* "on": a program or the kernel runs; "tick": in OneTick's loop;
                   \* "idle", "more": in Idle before its first CheckIfDue and in its
                   \* loop; "halted"

vars == <<pending, yieldOnReturn, place>>

-----------------------------------------------------------------------------
PendingInterrupt(d, n) == [source |-> d, left |-> n]

\* Time goes on by n ticks.
After(s, n) == [k \in DOMAIN s |-> [s[k] EXCEPT !.left = @ - n]]

Pending(d) == \E k \in DOMAIN pending : pending[k].source = d

Init ==
  /\ pending = <<>>
  /\ yieldOnReturn = FALSE
  /\ place = "on"

\* A constructor starts the timer, the console or the network, which from then on
\* schedule themselves.
Start(d, n) ==
  /\ place = "on"
  /\ d \in Polls \cup {timer} /\ ~Pending(d)
  /\ pending' = SortedInsert(pending, PendingInterrupt(d, n))
  /\ UNCHANGED <<yieldOnReturn, place>>

\* A driver starts a device.
Schedule(d, n) ==
  /\ place = "on"
  /\ d \in Devices /\ ~Pending(d)
  /\ pending' = SortedInsert(pending, PendingInterrupt(d, n))
  /\ UNCHANGED <<yieldOnReturn, place>>

\* OneTick, when interrupts are enabled again or a user instruction was executed.
OneTick(n) ==
  /\ place = "on"
  /\ pending' = After(pending, n)
  /\ place' = "tick"
  /\ UNCHANGED yieldOnReturn

\* There is no thread to run: Idle.
Idle ==
  /\ place = "on"
  /\ place' = "idle"
  /\ UNCHANGED <<pending, yieldOnReturn>>

\* By how much CheckIfDue, if it may, advances the clock: to the first interrupt.
Advance ==
  IF place = "idle" /\ pending # <<>> /\ Head(pending).left > 0
  THEN Head(pending).left
  ELSE 0

\* The list by the clock that CheckIfDue finds or advances.
Clocked == After(pending, Advance)

\* The machine idles and the only interrupt is the timer's.
OnlyTimer ==
  place \in {"idle", "more"} /\ Len(pending) = 1 /\ Head(pending).source = timer

\* Mutant: an interrupt may be late by a tick.
IsDueLate == Clocked # <<>> /\ Head(Clocked).left < 0 /\ ~OnlyTimer

IsDue == Clocked # <<>> /\ Head(Clocked).left <= 0 /\ ~OnlyTimer

\* What the handler of source d schedules: the timer and the polls themselves.
Rescheduled(d, rest, n) ==
  IF d \in Devices THEN rest ELSE SortedInsert(rest, PendingInterrupt(d, n))

\* system.cc: the handler of the timer.  CheckIfDue has set the status to SystemMode,
\* so it asks for a Yield even in Idle, which forgets it.
TimerInterruptHandler(d) == yieldOnReturn' = (yieldOnReturn \/ d = timer)

\* CheckIfDue calls the handler of the first interrupt.
Fire(n) ==
  /\ place \in {"tick", "idle", "more"}
  /\ IsDue
  /\ pending' = Rescheduled(Head(Clocked).source, Tail(Clocked), n)
  /\ TimerInterruptHandler(Head(Clocked).source)
  /\ place' = IF place = "idle" THEN "more" ELSE place

\* Mutant: the interrupt that is not due is not put back.
NotDueForgets ==
  /\ place \in {"tick", "idle", "more"}
  /\ ~IsDue
  /\ pending' = IF Clocked = <<>> THEN <<>> ELSE Tail(Clocked)
  /\ yieldOnReturn' = FALSE
  /\ place' = IF place = "idle" THEN "halted" ELSE "on"

\* CheckIfDue finds nothing to do and puts back what it has taken.  OneTick yields if
\* the timer asked for it, Idle returns, or halts the machine if this was its first
\* call.
NotDue ==
  /\ place \in {"tick", "idle", "more"}
  /\ ~IsDue
  /\ pending' = IF Clocked = <<>> THEN <<>> ELSE SortedInsert(Tail(Clocked), Head(Clocked))
  /\ yieldOnReturn' = FALSE
  /\ place' = IF place = "idle" THEN "halted" ELSE "on"

-----------------------------------------------------------------------------
(* Properties *)

\* The list is sorted by time, so that its first element is the next interrupt.
PendingIsSorted ==
  \A i, j \in DOMAIN pending : i <= j => pending[i].left <= pending[j].left

\* While a program runs no interrupt is overdue, except for a timer interrupt that
\* Idle has put back because it was the only one: OneTick calls all the handlers whose
\* time has come.
NoneOverdue ==
  place = "on" =>
    \A k \in DOMAIN pending :
      pending[k].left > 0 \/ (pending[k].source = timer /\ pending[k].left = 0)

\* A source has at most one interrupt pending: putting back and scheduling again do
\* not double it.
OneEach ==
  \A i, j \in DOMAIN pending : pending[i].source = pending[j].source => i = j

\* While the machine idles the clock stands at the first interrupt or before it.
IdleIsOnTime ==
  place \in {"idle", "more"} => \A k \in DOMAIN pending : pending[k].left >= 0

\* The machine halts only when nothing but the timer is pending: no request of a
\* device is forgotten.
HaltsWhenDone ==
  place = "halted" => \A k \in DOMAIN pending : pending[k].source = timer

\* The list of pending interrupts is sound: sorted, with one interrupt of a source,
\* nothing overdue while a program runs, and nothing forgotten when the machine halts.
InterruptInv ==
  /\ pending \in Seq([source : Sources, left : Int])
  /\ yieldOnReturn \in BOOLEAN
  /\ place \in {"on", "tick", "idle", "more", "halted"}
  /\ PendingIsSorted /\ OneEach /\ NoneOverdue /\ IdleIsOnTime /\ HaltsWhenDone

\* The timer and the polls, once started, always have an interrupt pending, and that
\* of a device leaves the list no sooner than it is due, or than Idle advances the
\* clock to it.
LeavesWhenDue ==
  [][\A d \in Sources :
       Pending(d) /\ ~Pending(d)' =>
         \E k \in DOMAIN pending :
           /\ d \in Devices /\ pending[k].source = d
           /\ pending[k].left <= 0 \/ (place = "idle" /\ k = 1)]_vars

\* Every request of a device is answered.
RequestIsAnswered == \A d \in Devices : Pending(d) ~> ~Pending(d)
==============================================================================
