---------------------------- MODULE MCPostOffice ----------------------------
(* Instances of PostOffice for TLC. *)
EXTENDS PostOffice

CONSTANTS m1, s1, s2, r1, r2

TwoSenders == {s1, s2}
TwoReceivers == {r1, r2}

\* All threads are on one machine, which sends to itself.
Alone == [t \in Senders \cup Receivers |-> m1]
==============================================================================
