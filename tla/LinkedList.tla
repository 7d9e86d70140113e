----------------------------- MODULE LinkedList -----------------------------
(***************************************************************************)
(* List<Item> of threads/list.h as it is in memory: elements at addresses, *)
(* each with a pointer to the next one, and the pointers first and last.   *)
(* The address 0 is NULL.  The other modules have sequences in its place.  *)
(***************************************************************************)
EXTENDS Integers, FiniteSets

EmptyList == [first |-> 0, last |-> 0, elements |-> [a \in {} |-> 0]]

IsEmpty(l) == l.first = 0

\* Where `new' puts the next element.
Address(l) ==
  CHOOSE a \in 1 .. Cardinality(DOMAIN l.elements) + 1 : a \notin DOMAIN l.elements

\* The list once an element has been made, in no place yet.
ListElement(l, item, key) ==
  [l EXCEPT !.elements =
     [a \in DOMAIN @ \cup {Address(l)} |->
        IF a = Address(l) THEN [item |-> item, key |-> key, next |-> 0] ELSE @[a]]]

\* The assignments that put the element at address a in front, behind the element at
\* ptr, and at the end.
InFront(l, a) ==
  IF IsEmpty(l) THEN [l EXCEPT !.first = a, !.last = a]
  ELSE [l EXCEPT !.elements[a].next = l.first, !.first = a]
Behind(l, a, ptr) ==
  [l EXCEPT !.elements[a].next = l.elements[ptr].next, !.elements[ptr].next = a]
AtEnd(l, a) ==
  IF IsEmpty(l) THEN [l EXCEPT !.first = a, !.last = a]
  ELSE [l EXCEPT !.elements[l.last].next = a, !.last = a]

Append(l, item) == AtEnd(ListElement(l, item, 0), Address(l))

Prepend(l, item) == InFront(ListElement(l, item, 0), Address(l))

\* The address after k steps along the list from first; 0 from its end on.
Pointer(l, k) ==
  LET ptr[n \in 0 .. k] ==
        IF n = 0 THEN l.first
        ELSE IF ptr[n - 1] = 0 THEN 0 ELSE l.elements[ptr[n - 1]].next
  IN  ptr[k]

\* The loop of SortedInsert stops after k steps.
Stops(l, sortKey, k) ==
  LET next == l.elements[Pointer(l, k)].next
  IN  next = 0 \/ sortKey < l.elements[next].key

\* Mutant: an element that goes to the end is put behind the last one like any other.
SortedInsertKeepsLast(l, item, sortKey) ==
  LET m == ListElement(l, item, sortKey)
      n == Cardinality(DOMAIN l.elements)
      k == CHOOSE k \in 0 .. n - 1 :
             Stops(l, sortKey, k) /\ \A i \in 0 .. k - 1 : ~Stops(l, sortKey, i)
  IN  IF IsEmpty(l) \/ sortKey < l.elements[l.first].key THEN InFront(m, Address(l))
      ELSE Behind(m, Address(l), Pointer(l, k))

SortedInsert(l, item, sortKey) ==
  LET m == ListElement(l, item, sortKey)
      n == Cardinality(DOMAIN l.elements)
      k == CHOOSE k \in 0 .. n - 1 :
             Stops(l, sortKey, k) /\ \A i \in 0 .. k - 1 : ~Stops(l, sortKey, i)
  IN  IF IsEmpty(l) \/ sortKey < l.elements[l.first].key THEN InFront(m, Address(l))
      ELSE IF l.elements[Pointer(l, k)].next = 0 THEN AtEnd(m, Address(l))
      ELSE Behind(m, Address(l), Pointer(l, k))

\* The list after SortedRemove of one that is not empty, which returns item and key of
\* its first element.
SortedRemove(l) ==
  [first    |-> IF l.first = l.last THEN 0 ELSE l.elements[l.first].next,
   last     |-> IF l.first = l.last THEN 0 ELSE l.last,
   elements |-> [a \in DOMAIN l.elements \ {l.first} |-> l.elements[a]]]

\* What Apply visits, in order.
Apply(l) ==
  LET steps == {k \in 0 .. Cardinality(DOMAIN l.elements) : Pointer(l, k) # 0}
  IN  [k \in {n + 1 : n \in steps} |-> l.elements[Pointer(l, k - 1)].item]

\* From first the pointers lead through all the elements that are allocated, and last
\* is the one where they end.
WellFormed(l) ==
  LET n == Cardinality(DOMAIN l.elements)
  IN  /\ Pointer(l, n) = 0
      /\ IF n = 0 THEN l.last = 0 ELSE Pointer(l, n - 1) = l.last /\ l.last # 0
==============================================================================
