------------------------------- MODULE MCKernel -------------------------------
(* Instances of Kernel for TLC: one semaphore starts taken, one available. *)
EXTENDS Kernel

CONSTANTS main, t1, t2, s1, s2

MCThreads == {main, t1, t2}
MCSems == {s1, s2}
MCInitialValue == [s \in MCSems |-> IF s = s1 THEN 0 ELSE 1]
==============================================================================
