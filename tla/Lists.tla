-------------------------------- MODULE Lists --------------------------------
(***************************************************************************)
(* List<T> of threads/list.h, as a sequence: Append adds at the end,       *)
(* Remove takes the head, Prepend is <<x>> \o list.                        *)
(***************************************************************************)
EXTENDS Integers, Sequences

\* The items in a list.
Members(list) == {list[i] : i \in 1 .. Len(list)}

\* No item occurs twice in the list.
NoDuplicates(list) ==
  \A i, j \in 1 .. Len(list) : list[i] = list[j] => i = j

\* The list with x taken out, wherever it is.
Without(list, x) ==
  IF x \in Members(list)
  THEN LET k == CHOOSE k \in 1 .. Len(list) : list[k] = x
       IN  SubSeq(list, 1, k - 1) \o SubSeq(list, k + 1, Len(list))
  ELSE list

\* SortedInsert: before the first element with a bigger key.  The list of pending
\* interrupts is the one that is kept sorted; its key is `when', here the time left.
SortedInsert(s, e) ==
  LET k == CHOOSE k \in 0 .. Len(s) :
             /\ \A n \in 1 .. k : s[n].left <= e.left
             /\ k < Len(s) => e.left < s[k + 1].left
  IN  SubSeq(s, 1, k) \o <<e>> \o SubSeq(s, k + 1, Len(s))
==============================================================================
