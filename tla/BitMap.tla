------------------------------- MODULE BitMap -------------------------------
(***************************************************************************)
(* userprog/bitmap.cc: bits kept in an array of words.  The value of the   *)
(* array is a function from the indices of words to words, and a word is   *)
(* the function from the positions in it to its bits, as Mark, Clear and   *)
(* Test reach them with 1 << (which % BitsInWord).                         *)
(***************************************************************************)
EXTENDS Integers, FiniteSets

CONSTANTS numBits, BitsInWord

numWords == (numBits + BitsInWord - 1) \div BitsInWord

Bits == 0 .. numBits - 1

BitMaps == [0 .. numWords - 1 -> [0 .. BitsInWord - 1 -> BOOLEAN]]

Test(map, which) == map[which \div BitsInWord][which % BitsInWord]

Mark(map, which) == [map EXCEPT ![which \div BitsInWord][which % BitsInWord] = TRUE]

\* Mutant: the bits after it in the word are cleared too.
ClearMore(map, which) ==
  [map EXCEPT ![which \div BitsInWord] =
     [b \in DOMAIN @ |-> @[b] /\ b < which % BitsInWord]]

Clear(map, which) == [map EXCEPT ![which \div BitsInWord][which % BitsInWord] = FALSE]

\* What the constructor makes: it clears the bits, and leaves the rest of the last
\* word as it was.
NewBitMap == {map \in BitMaps : \A i \in Bits : ~Test(map, i)}

NumClear(map) == Cardinality({i \in Bits : ~Test(map, i)})

\* Find returns i and marks it; it returns -1 if there is no such i.
Finds(map, i) == ~Test(map, i) /\ \A k \in 0 .. i - 1 : Test(map, k)

\* Loops that mark or clear the bits of a set one by one.
MarkAll(map, S) ==
  [w \in DOMAIN map |-> [b \in DOMAIN map[w] |-> map[w][b] \/ w * BitsInWord + b \in S]]

ClearAll(map, S) ==
  [w \in DOMAIN map |-> [b \in DOMAIN map[w] |-> map[w][b] /\ w * BitsInWord + b \notin S]]

\* The bits that are set.
Marked(map) == {i \in Bits : Test(map, i)}
==============================================================================
