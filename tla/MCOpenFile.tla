----------------------------- MODULE MCOpenFile -----------------------------
(* Instances of OpenFile for TLC. *)
EXTENDS OpenFile, TLC

CONSTANTS h1, h2, x, y

TwoHandles == {h1, h2}
TwoValues == {x, y}

\* The sectors of a file in the order 2, 0, 1.
Scattered == [i \in FileSectors |-> (i + 2) % 3]

\* The model tells neither the handles nor the values apart.
Symmetry == Permutations(TwoHandles) \cup Permutations(TwoValues)
==============================================================================
