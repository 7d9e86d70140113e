----------------------------- MODULE ListMemory -----------------------------
(***************************************************************************)
(* The lists of semaphores of a Condition are Lists of threads/list.h.     *)
(* How a List is in memory, LinkedList, beside the sequence that stands    *)
(* for it in Port and in the other modules.                                *)
(***************************************************************************)
EXTENDS Port, Lists

CONSTANTS
  ListItems,  \* what is put in lists; the key it is sorted by is its field left
  MaxLength   \* bound on the length of the lists looked at

ASSUME ListMemoryAssumption ==
  /\ \A e \in ListItems : e.left \in Int
  /\ MaxLength \in Nat

List == INSTANCE LinkedList

\* Where the n elements of a list may be in memory, in the order of the list.
Layouts(n) ==
  {places \in [1 .. n -> 1 .. MaxLength + 1] : NoDuplicates(places)}

\* The list with the items of s at these places.
InMemory(places, s) ==
  LET n == Len(s)
      Behind(i) == IF i < n THEN places[i + 1] ELSE 0
      Index(a) == CHOOSE i \in 1 .. n : places[i] = a
  IN  [first    |-> Behind(0),
       last     |-> IF n = 0 THEN 0 ELSE places[n],
       elements |-> [a \in {places[i] : i \in 1 .. n} |->
                       [item |-> s[Index(a)], key |-> s[Index(a)].left, next |-> Behind(Index(a))]]]

\* l is the sequence s, somewhere in memory.
Holds(l, s) == \E places \in Layouts(Len(s)) : l = InMemory(places, s)

\* The list of threads/list.h behaves as the sequence that stands for it in Port and in
\* the other modules.  The ones that the constructor of Condition makes are the empty
\* sequence.  Of a list that holds a sequence, wherever its elements are in memory, the
\* pointers lead from first through the items in order, they end at last, and no element
\* is lost; and each operation leaves a list that holds what the operation makes of the
\* sequence.  A list that is not kept sorted has 0 for every key.
ListIsSequence ==
  Init =>
    /\ \A c \in DOMAIN semList : Holds(List!EmptyList, semList[c])
    /\ \A n \in 0 .. MaxLength : \A places \in Layouts(n), s \in [1 .. n -> ListItems] :
         LET l == InMemory(places, s)
         IN  /\ List!WellFormed(l) /\ List!Apply(l) = s
             /\ n > 0 => Holds(List!SortedRemove(l), Tail(s))
             /\ \A e \in ListItems :
                  /\ Holds(List!SortedInsert(l, e, e.left), SortedInsert(s, e))
                  /\ e.left = 0 => /\ Holds(List!Append(l, e), Append(s, e))
                                   /\ Holds(List!Prepend(l, e), <<e>> \o s)
=============================================================================
