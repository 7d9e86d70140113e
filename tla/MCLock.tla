------------------------------- MODULE MCLock -------------------------------
(* Instances of Lock for TLC. *)
EXTENDS Lock, TLC

CONSTANTS main, t1, t2, s3

MCThreads == {main, t1, t2}

\* The two semaphores of the lock, without and with one that threads use for
\* something else.
MCSems == {sem, semInvP}
MCMoreSems == {sem, semInvP, s3}

MCInitialValue == [s \in MCSems |-> 1]
MCMoreInitialValue == [s \in MCMoreSems |-> IF s = s3 THEN 0 ELSE 1]
==============================================================================
