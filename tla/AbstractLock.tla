---------------------------- MODULE AbstractLock ----------------------------
(***************************************************************************)
(* What the comments of threads/synch.h promise of a Lock: it is free or   *)
(* held by one thread, Acquire waits until it is free and takes it, and    *)
(* only the thread that holds it releases it.                              *)
(***************************************************************************)
CONSTANTS Threads, NULL

VARIABLE holder   \* the thread that holds the lock, or NULL

Init == holder = NULL

Acquire(t) == holder = NULL /\ holder' = t

Release(t) == holder = t /\ holder' = NULL

Next == \E t \in Threads : Acquire(t) \/ Release(t)

Spec == Init /\ [][Next]_holder
==============================================================================
