------------------------------- MODULE MCPort -------------------------------
(* Instances of Port and ListMemory for TLC. *)
EXTENDS ListMemory, TLC

CONSTANTS p1, p2, c1, c2, a, b

MCSenders == {p1, p2}
MCReceivers == {c1, c2}
MCMessages == {a, b}

ThreeItems == [name : {a, b}, left : {0}] \cup [name : {a}, left : {1}]
==============================================================================
