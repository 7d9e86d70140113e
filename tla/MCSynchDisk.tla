---------------------------- MODULE MCSynchDisk -----------------------------
(* Instances of SynchDisk for TLC. *)
EXTENDS SynchDisk, TLC

CONSTANTS t1, t2, t3, a, b

ThreeThreads == {t1, t2, t3}
TwoData == {a, b}
==============================================================================
