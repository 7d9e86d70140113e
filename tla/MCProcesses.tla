---------------------------- MODULE MCProcesses -----------------------------
(* Instances of Processes for TLC. *)
EXTENDS Processes

CONSTANTS a, b, c

FourProcs == {main, a, b, c}
==============================================================================
