----------------------------- MODULE DiskProofs -----------------------------
(***************************************************************************)
(* The list of pending interrupts and the simulated disk, for any devices, *)
(* delays and shape of the disk, and SynchDisk, which drives the disk, for *)
(* any threads, sectors and data.                                          *)
(*                                                                         *)
(* DiskInv is inductive.  What the operations of the list do to it is      *)
(* stated for the set of its elements, so that the places where elements   *)
(* are put matter to sortedness alone.                                     *)
(***************************************************************************)
EXTENDS Disk, SynchDisk, SequenceTheorems, WellFoundedInduction, TLAPS

-----------------------------------------------------------------------------
(* Sorted lists *)

Interrupts == [source : Sources, left : Int]

IsSorted(s) == \A i, j \in DOMAIN s : i <= j => s[i].left <= s[j].left
IsSingle(s) == \A i, j \in DOMAIN s : s[i].source = s[j].source => i = j

\* The lists that Interrupt has.
IsList(s) == s \in Seq(Interrupts) /\ IsSorted(s) /\ IsSingle(s)

Items(s) == {s[k] : k \in DOMAIN s}

LEMMA InterruptParts ==
  ASSUME NEW x \in Interrupts PROVE x.source \in Sources /\ x.left \in Int
BY DEF Interrupts

\* The elements of a list, by number.
LEMMA ListParts ==
  ASSUME NEW s \in Seq(Interrupts)
  PROVE  /\ Len(s) \in Nat /\ DOMAIN s = 1 .. Len(s)
         /\ \A i \in 1 .. Len(s) : s[i] \in Interrupts /\ s[i].left \in Int
<1>1. Len(s) \in Nat /\ DOMAIN s = 1 .. Len(s)
  BY LenProperties
<1>2. \A i \in 1 .. Len(s) : s[i] \in Interrupts
  BY ElementOfSeq
<1> QED BY <1>1, <1>2, InterruptParts

\* There is a place before the first element with a bigger key.
LEMMA PlaceExists ==
  ASSUME NEW s \in Seq(Interrupts), NEW e \in Interrupts
  PROVE  \E k \in 0 .. Len(s) : /\ \A n \in 1 .. k : s[n].left <= e.left
                                /\ k < Len(s) => e.left < s[k + 1].left
<1>0. PICK m \in Nat : m = Len(s) /\ \A n \in 1 .. m : s[n].left \in Int
  BY ListParts
<1> DEFINE Ends == {k \in 0 .. m : k = m \/ e.left < s[k + 1].left}
<1>1. Ends # {} /\ Ends \subseteq Nat
  <2>1. m \in Ends
    OBVIOUS
  <2>2. \A k \in Ends : k \in Nat
    OBVIOUS
  <2> HIDE DEF Ends
  <2> QED BY <2>1, <2>2
<1>2. PICK k \in Ends : \A n \in Ends : ~ (<<n, k>> \in OpToRel(<, Nat))
  <2> HIDE DEF Ends
  <2> QED BY <1>1, NatLessThanWellFounded, WFMin, Zenon
<1>3. \A n \in Ends : ~ (n < k)
  BY <1>1, <1>2, Zenon DEF OpToRel
<1>4. k \in 0 .. m /\ (k < m => e.left < s[k + 1].left)
  OBVIOUS
<1>5. ASSUME NEW n \in 1 .. k PROVE s[n].left <= e.left
  <2>1. n - 1 \in 0 .. m /\ n - 1 < k /\ n \in 1 .. m /\ n - 1 # m /\ (n - 1) + 1 = n
    BY <1>4
  <2>2. n - 1 \notin Ends
    BY <1>3, <2>1, Zenon
  <2>3. ~ (e.left < s[n].left)
    BY <2>1, <2>2
  <2> QED BY <1>0, <2>1, <2>3, InterruptParts
<1> QED BY <1>0, <1>4, <1>5

\* r is the list s of length m with e put behind its first k elements, as SortedInsert does.
Inserted(r, s, e, m, k) ==
  /\ r = SortedInsert(s, e) /\ Len(r) = m + 1
  /\ \A n \in 1 .. k : s[n].left <= e.left
  /\ k < m => e.left < s[k + 1].left
  /\ \A i \in 1 .. k : r[i] = s[i]
  /\ r[k + 1] = e
  /\ \A i \in k + 1 .. m : r[i + 1] = s[i]

\* Where SortedInsert puts an element.
LEMMA InsertIs ==
  ASSUME NEW s \in Seq(Interrupts), NEW e \in Interrupts, NEW m \in Nat, m = Len(s)
  PROVE  \E r \in Seq(Interrupts) : \E k \in 0 .. m : Inserted(r, s, e, m, k)
<1> DEFINE Here(k) == /\ \A n \in 1 .. k : s[n].left <= e.left
                      /\ k < Len(s) => e.left < s[k + 1].left
           c == CHOOSE k \in 0 .. Len(s) : Here(k)
<1>1. c \in 0 .. Len(s) /\ Here(c)
  BY PlaceExists, Zenon
<1>2. PICK k \in 0 .. m : k = c
  BY <1>1, SMTT(60)
<1>3. Here(k) /\ SortedInsert(s, e) = SubSeq(s, 1, k) \o <<e>> \o SubSeq(s, k + 1, Len(s))
  BY <1>1, <1>2 DEF SortedInsert
<1> HIDE DEF c
<1>4. /\ SubSeq(s, 1, k) \in Seq(Interrupts) /\ Len(SubSeq(s, 1, k)) = k
      /\ \A i \in 1 .. k : SubSeq(s, 1, k)[i] = s[i]
  OBVIOUS
<1>5. /\ SubSeq(s, k + 1, Len(s)) \in Seq(Interrupts) /\ Len(SubSeq(s, k + 1, Len(s))) = m - k
      /\ \A i \in 1 .. m - k : SubSeq(s, k + 1, Len(s))[i] = s[k + i]
  OBVIOUS
<1>6. m - k \in Nat /\ k \in Nat /\ k + (m - k) + 1 = m + 1
  OBVIOUS
<1>7. PICK r \in Seq(Interrupts) :
        /\ r = SortedInsert(s, e) /\ Len(r) = m + 1
        /\ \A i \in 1 .. k : r[i] = SubSeq(s, 1, k)[i]
        /\ r[k + 1] = e
        /\ \A i \in 1 .. m - k : r[k + 1 + i] = SubSeq(s, k + 1, Len(s))[i]
  <2>1. PICK a \in Seq(Interrupts) : a = SubSeq(s, 1, k) /\ k = Len(a)
    BY <1>4, Zenon
  <2>2. PICK b \in Seq(Interrupts) : b = SubSeq(s, k + 1, Len(s)) /\ m - k = Len(b)
    BY <1>5, Zenon
  <2>3. PICK l \in Nat : l = m - k
    BY <1>6, Zenon
  <2>7. l = Len(b) /\ k = Len(a) /\ k \in Nat
    BY <1>6, <2>1, <2>2, <2>3, Zenon
  <2>5. /\ a \o <<e>> \o b \in Seq(Interrupts) /\ Len(a \o <<e>> \o b) = k + l + 1
        /\ \A i \in 1 .. k : (a \o <<e>> \o b)[i] = a[i]
        /\ (a \o <<e>> \o b)[k + 1] = e
        /\ \A i \in 1 .. l : (a \o <<e>> \o b)[k + 1 + i] = b[i]
    <3>1. PICK d \in Seq(Interrupts) : /\ d = a \o <<e>> /\ Len(d) = k + 1
                                       /\ d[k + 1] = e /\ \A i \in 1 .. k : d[i] = a[i]
      <4>1. /\ a \o <<e>> \in Seq(Interrupts) /\ Len(a \o <<e>>) = k + 1
            /\ (a \o <<e>>)[k + 1] = e /\ \A i \in 1 .. k : (a \o <<e>>)[i] = a[i]
        BY <2>7
      <4> QED BY <4>1, Zenon
    <3>2. Len(d) = k + 1 /\ l = Len(b)
      BY <2>7, <3>1
    <3>3. d \o b \in Seq(Interrupts) /\ Len(d \o b) = k + l + 1
      BY <2>7, <3>2, SMTT(30)
    <3>4. \A i \in 1 .. k + 1 : (d \o b)[i] = d[i]
      BY <3>2
    <3>5. \A i \in 1 .. l : (d \o b)[k + 1 + i] = b[i]
      <4> SUFFICES ASSUME NEW i \in 1 .. l PROVE (d \o b)[k + 1 + i] = b[i]
        BY Zenon
      <4>1. k + 1 + i \in 1 .. Len(d) + Len(b) /\ k + 1 + i > Len(d) /\ (k + 1 + i) - Len(d) = i
        BY <3>2
      <4>2. (d \o b)[k + 1 + i] = IF k + 1 + i <= Len(d) THEN d[k + 1 + i] ELSE b[(k + 1 + i) - Len(d)]
        <5>1. \A j \in 1 .. Len(d) + Len(b) : (d \o b)[j] = IF j <= Len(d) THEN d[j] ELSE b[j - Len(d)]
          BY ConcatProperties
        <5> QED BY <4>1, <5>1, Zenon
      <4>3. ~ (k + 1 + i <= Len(d))
        BY <3>2
      <4> QED BY <4>1, <4>2, <4>3, Zenon
    <3>6. \A i \in 1 .. k : i \in 1 .. k + 1
      OBVIOUS
    <3>7. k + 1 \in 1 .. k + 1
      OBVIOUS
    <3> QED BY <3>1, <3>3, <3>4, <3>5, <3>6, <3>7, Zenon
  <2>4. SortedInsert(s, e) = a \o <<e>> \o b
    BY <1>3, <2>1, <2>2, Zenon
  <2>6. k + l + 1 = m + 1
    BY <2>3
  <2> HIDE DEF Here
  <2>8. PICK r \in Seq(Interrupts) : r = a \o <<e>> \o b
    BY <2>5, Zenon
  <2>9. r = SortedInsert(s, e) /\ Len(r) = m + 1 /\ r[k + 1] = e
    BY <2>4, <2>5, <2>6, <2>8, Zenon
  <2>10. \A i \in 1 .. k : r[i] = SubSeq(s, 1, k)[i]
    BY <2>1, <2>5, <2>8, Zenon
  <2>11. \A i \in 1 .. m - k : r[k + 1 + i] = SubSeq(s, k + 1, Len(s))[i]
    <3>1. \A i \in 1 .. l : r[k + 1 + i] = b[i]
      BY <2>5, <2>8, Zenon
    <3> QED BY <2>2, <2>3, <3>1, Zenon
  <2> QED BY <2>9, <2>10, <2>11, Zenon
<1>8. \A i \in 1 .. k : r[i] = s[i]
  BY <1>4, <1>7, Zenon
<1>9. ASSUME NEW i \in k + 1 .. m PROVE r[i + 1] = s[i]
  <2>1. i - k \in 1 .. m - k /\ k + 1 + (i - k) = i + 1 /\ k + (i - k) = i
    OBVIOUS
  <2>2. r[k + 1 + (i - k)] = s[k + (i - k)]
    BY <1>5, <1>7, <2>1, Zenon
  <2> QED BY <2>1, <2>2, Zenon
<1>10. k < m => e.left < s[k + 1].left
  BY <1>3
<1> QED BY <1>3, <1>7, <1>8, <1>9, <1>10, Zenon DEF Inserted

\* SortedInsert keeps a list sorted, adds its argument and nothing else.
LEMMA InsertKeeps ==
  ASSUME NEW s, IsList(s), NEW e \in Interrupts, \A x \in Items(s) : x.source # e.source
  PROVE  IsList(SortedInsert(s, e)) /\ Items(SortedInsert(s, e)) = Items(s) \cup {e}
<1>0. s \in Seq(Interrupts) /\ IsSorted(s) /\ IsSingle(s)
  BY DEF IsList
<1>1. PICK m \in Nat : m = Len(s) /\ DOMAIN s = 1 .. m /\ \A i \in 1 .. m : s[i].left \in Int
  BY <1>0, ListParts
<1> PICK r \in Seq(Interrupts) : \E k \in 0 .. m : Inserted(r, s, e, m, k)
  BY <1>0, <1>1, InsertIs, Zenon
<1>2. PICK k \in 0 .. m :
        /\ r = SortedInsert(s, e) /\ Len(r) = m + 1
        /\ \A n \in 1 .. k : s[n].left <= e.left
        /\ k < m => e.left < s[k + 1].left
        /\ \A i \in 1 .. k : r[i] = s[i]
        /\ r[k + 1] = e
        /\ \A i \in k + 1 .. m : r[i + 1] = s[i]
  BY Zenon DEF Inserted
<1>3. DOMAIN r = 1 .. m + 1
  BY <1>2
<1>4. ASSUME NEW i \in 1 .. m + 1
      PROVE  \/ i \in 1 .. k /\ i \in 1 .. m /\ r[i] = s[i]
             \/ i = k + 1 /\ r[i] = e
             \/ i - 1 \in k + 1 .. m /\ i - 1 \in 1 .. m /\ r[i] = s[i - 1]
  <2>1. CASE i <= k
    BY <1>2, <2>1
  <2>2. CASE i = k + 1
    BY <1>2, <2>2
  <2>3. CASE i > k + 1
    <3>1. i - 1 \in k + 1 .. m /\ i - 1 \in 1 .. m /\ (i - 1) + 1 = i
      BY <2>3
    <3> QED BY <1>2, <3>1
  <2> QED BY <2>1, <2>2, <2>3
<1>5. /\ \A i, j \in 1 .. m : i <= j => s[i].left <= s[j].left
      /\ \A i, j \in 1 .. m : s[i].source = s[j].source => i = j
  BY <1>0, <1>1, Zenon DEF IsSorted, IsSingle
<1>6. \A n \in k + 1 .. m : e.left <= s[n].left
  <2> SUFFICES ASSUME NEW n \in k + 1 .. m PROVE e.left <= s[n].left
    OBVIOUS
  <2>1. k < m /\ k + 1 \in 1 .. m /\ n \in 1 .. m /\ k + 1 <= n
    OBVIOUS
  <2>2. e.left < s[k + 1].left /\ s[k + 1].left <= s[n].left
    BY <1>2, <1>5, <2>1
  <2> QED BY <1>1, <2>1, <2>2, InterruptParts, SMTT(60)
<1>7. IsSorted(r)
  <2> SUFFICES ASSUME NEW i \in 1 .. m + 1, NEW j \in 1 .. m + 1, i <= j
               PROVE  r[i].left <= r[j].left
    BY <1>3 DEF IsSorted
  <2>1. CASE r[i] = e /\ i = k + 1
    <3>1. CASE j = k + 1
      BY <1>2, <2>1, <3>1, InterruptParts
    <3>2. CASE j - 1 \in k + 1 .. m /\ r[j] = s[j - 1]
      BY <1>6, <2>1, <3>2
    <3> QED BY <1>4, <2>1, <3>1, <3>2
  <2>2. CASE i \in 1 .. k /\ i \in 1 .. m /\ r[i] = s[i]
    <3>1. CASE j = k + 1 /\ r[j] = e
      BY <1>2, <2>2, <3>1
    <3>2. CASE j \in 1 .. m /\ r[j] = s[j]
      BY <1>5, <2>2, <3>2
    <3>3. CASE j - 1 \in k + 1 .. m /\ j - 1 \in 1 .. m /\ r[j] = s[j - 1]
      BY <1>5, <2>2, <3>3
    <3> QED BY <1>4, <3>1, <3>2, <3>3
  <2>3. CASE i - 1 \in k + 1 .. m /\ i - 1 \in 1 .. m /\ r[i] = s[i - 1]
    <3>1. j - 1 \in 1 .. m /\ r[j] = s[j - 1] /\ i - 1 <= j - 1
      BY <1>4, <2>3
    <3> QED BY <1>5, <2>3, <3>1
  <2> QED BY <1>4, <2>1, <2>2, <2>3
<1>8. \A n \in 1 .. m : s[n].source # e.source
  BY <1>1, SMTT(60) DEF Items
<1>9. IsSingle(r)
  <2> SUFFICES ASSUME NEW i \in 1 .. m + 1, NEW j \in 1 .. m + 1, r[i].source = r[j].source
               PROVE  i = j
    BY <1>3 DEF IsSingle
  <2>1. CASE i = k + 1 /\ r[i] = e
    BY <1>4, <1>8, <2>1, Zenon
  <2>2. CASE i \in 1 .. k /\ i \in 1 .. m /\ r[i] = s[i]
    <3>1. CASE j - 1 \in k + 1 .. m /\ j - 1 \in 1 .. m /\ r[j] = s[j - 1]
      <4>1. i = j - 1
        BY <1>5, <2>2, <3>1, SMTT(60)
      <4> QED BY <2>2, <3>1, <4>1, SMTT(60)
    <3> QED BY <1>4, <1>5, <1>8, <2>2, <3>1, SMTT(60)
  <2>3. CASE i - 1 \in k + 1 .. m /\ i - 1 \in 1 .. m /\ r[i] = s[i - 1]
    <3>1. CASE j \in 1 .. k /\ j \in 1 .. m /\ r[j] = s[j]
      <4>1. j = i - 1
        BY <1>5, <2>3, <3>1
      <4> QED BY <2>3, <3>1, <4>1
    <3>2. CASE j - 1 \in 1 .. m /\ r[j] = s[j - 1]
      <4>1. j - 1 = i - 1
        BY <1>5, <2>3, <3>2
      <4> QED BY <4>1
    <3> QED BY <1>4, <1>8, <2>3, <3>1, <3>2
  <2> QED BY <1>4, <2>1, <2>2, <2>3
<1>10. ASSUME NEW x \in Items(r) PROVE x \in Items(s) \cup {e}
  <2>1. PICK i \in 1 .. m + 1 : x = r[i]
    BY <1>3 DEF Items
  <2>2. r[i] = e \/ \E n \in 1 .. m : r[i] = s[n]
    BY <1>4
  <2>3. CASE r[i] = e
    BY <2>1, <2>3
  <2>4. ASSUME NEW n \in 1 .. m, r[i] = s[n] PROVE x \in Items(s)
    BY <1>1, <2>1, <2>4, Zenon DEF Items
  <2> QED BY <2>2, <2>3, <2>4, Zenon
<1>11. ASSUME NEW x \in Items(s) \cup {e} PROVE x \in Items(r)
  <2>1. CASE x = e
    <3>1. k + 1 \in 1 .. m + 1
      OBVIOUS
    <3> QED BY <1>2, <1>3, <2>1, <3>1, Zenon DEF Items
  <2>2. ASSUME NEW n \in 1 .. m, x = s[n] PROVE x \in Items(r)
    <3>1. \E i \in 1 .. m + 1 : r[i] = s[n]
      <4>1. CASE n <= k
        <5>1. n \in 1 .. k /\ n \in 1 .. m + 1
          BY <4>1
        <5> QED BY <1>2, <5>1
      <4>2. CASE n > k
        <5>1. n \in k + 1 .. m /\ n + 1 \in 1 .. m + 1
          BY <4>2
        <5> QED BY <1>2, <5>1
      <4> QED BY <4>1, <4>2, SMTT(60)
    <3> QED BY <1>3, <2>2, <3>1, Zenon DEF Items
  <2> QED BY <1>1, <2>1, <2>2, Zenon DEF Items
<1> QED BY <1>2, <1>7, <1>9, <1>10, <1>11 DEF IsList

\* The first element of a list, and what is left without it.
LEMMA TailKeeps ==
  ASSUME NEW s, IsList(s), s # <<>>
  PROVE  /\ IsList(Tail(s)) /\ Items(s) = Items(Tail(s)) \cup {Head(s)}
         /\ Head(s) \in Interrupts
         /\ \A x \in Items(Tail(s)) : x.source # Head(s).source
         /\ \A x \in Items(s) : Head(s).left <= x.left
<1>0. s \in Seq(Interrupts) /\ IsSorted(s) /\ IsSingle(s)
  BY DEF IsList
<1>1. PICK m \in Nat : /\ m = Len(s) /\ DOMAIN s = 1 .. m /\ 1 \in 1 .. m
                       /\ \A i \in 1 .. m : s[i] \in Interrupts /\ s[i].left \in Int
  <2>1. Len(s) # 0
    BY <1>0, EmptySeq
  <2> QED BY <1>0, <2>1, ListParts
<1>2. PICK r \in Seq(Interrupts) : /\ r = Tail(s) /\ DOMAIN r = 1 .. m - 1
                                   /\ \A i \in 1 .. m - 1 : r[i] = s[i + 1]
  <2>1. /\ Tail(s) \in Seq(Interrupts) /\ Len(Tail(s)) = m - 1
        /\ \A i \in 1 .. m - 1 : Tail(s)[i] = s[i + 1]
    BY <1>0, <1>1, HeadTailProperties
  <2>2. DOMAIN Tail(s) = 1 .. m - 1
    BY <2>1, LenProperties
  <2> QED BY <2>1, <2>2, Zenon
<1>3. Head(s) = s[1] /\ s[1] \in Interrupts
  BY <1>0, <1>1
<1>4. /\ \A i, j \in 1 .. m : i <= j => s[i].left <= s[j].left
      /\ \A i, j \in 1 .. m : s[i].source = s[j].source => i = j
  BY <1>0, <1>1, Zenon DEF IsSorted, IsSingle
<1>5. \A i \in 1 .. m - 1 : i + 1 \in 1 .. m /\ i + 1 # 1
  OBVIOUS
<1>6. IsSorted(r) /\ IsSingle(r)
  <2> SUFFICES ASSUME NEW i \in 1 .. m - 1, NEW j \in 1 .. m - 1
               PROVE  /\ i <= j => s[i + 1].left <= s[j + 1].left
                      /\ s[i + 1].source = s[j + 1].source => i = j
    BY <1>2, SMTT(30) DEF IsSorted, IsSingle
  <2>1. i + 1 \in 1 .. m /\ j + 1 \in 1 .. m /\ (i <= j => i + 1 <= j + 1) /\ (i + 1 = j + 1 => i = j)
    OBVIOUS
  <2> QED BY <1>4, <2>1
<1>7. \A x \in Items(r) : x \in Items(s) /\ x.source # s[1].source
  <2> SUFFICES ASSUME NEW i \in 1 .. m - 1 PROVE s[i + 1] \in Items(s) /\ s[i + 1].source # s[1].source
    BY <1>2 DEF Items
  <2> QED BY <1>1, <1>4, <1>5 DEF Items
<1>8. ASSUME NEW x \in Items(s) PROVE x \in Items(r) \cup {s[1]}
  <2>1. PICK i \in 1 .. m : x = s[i]
    BY <1>1 DEF Items
  <2>2. CASE i = 1
    BY <2>1, <2>2
  <2>3. CASE i # 1
    <3>1. i - 1 \in 1 .. m - 1 /\ (i - 1) + 1 = i
      BY <2>3
    <3>2. r[i - 1] = s[i]
      BY <1>2, <3>1
    <3> QED BY <1>2, <2>1, <3>1, <3>2, Zenon DEF Items
  <2> QED BY <2>2, <2>3
<1>9. s[1] \in Items(s) /\ \A x \in Items(s) : s[1].left <= x.left
  BY <1>1, <1>4 DEF Items
<1> QED BY <1>2, <1>3, <1>6, <1>7, <1>8, <1>9 DEF IsList

Later(x, n) == [source |-> x.source, left |-> x.left - n]

\* A list when time has gone on.
LEMMA AfterKeeps ==
  ASSUME NEW s, IsList(s), NEW n \in Int
  PROVE  /\ IsList(After(s, n)) /\ Items(After(s, n)) = {Later(x, n) : x \in Items(s)}
         /\ (After(s, n) = <<>> <=> s = <<>>) /\ Len(After(s, n)) = Len(s)
         /\ s # <<>> => Head(After(s, n)) = Later(Head(s), n)
<1>0. s \in Seq(Interrupts) /\ IsSorted(s) /\ IsSingle(s) /\ Len(s) \in Nat /\ DOMAIN s = 1 .. Len(s)
  BY LenProperties DEF IsList
<1>1. \A i \in 1 .. Len(s) : s[i] \in Interrupts
  BY <1>0, ElementOfSeq
<1>2. PICK r : r = After(s, n)
  OBVIOUS
<1>3. DOMAIN r = 1 .. Len(s) /\ \A i \in 1 .. Len(s) : r[i] = Later(s[i], n)
  BY <1>0, <1>1, <1>2, SMTT(60) DEF After, Later, Interrupts
<1>4. \A i \in 1 .. Len(s) : Later(s[i], n) \in Interrupts
  BY <1>1 DEF Later, Interrupts
<1>5. r \in Seq(Interrupts) /\ Len(r) = Len(s)
  <2>1. r = [i \in 1 .. Len(s) |-> Later(s[i], n)]
    BY <1>0, <1>1, <1>2 DEF After, Later, Interrupts
  <2> QED BY <1>0, <1>4, <2>1
<1>6. IsSorted(r)
  BY <1>0, <1>1, <1>3 DEF IsSorted, Later, Interrupts
<1>7. IsSingle(r)
  BY <1>0, <1>1, <1>3 DEF IsSingle, Later
<1>8. Items(r) = {Later(x, n) : x \in Items(s)}
  BY <1>0, <1>3 DEF Items
<1>9. r = <<>> <=> s = <<>>
  BY <1>0, <1>5, EmptySeq
<1>10. s # <<>> => Head(r) = Later(Head(s), n)
  BY <1>0, <1>3, <1>5, EmptySeq
<1> QED BY <1>2, <1>5, <1>6, <1>7, <1>8, <1>9, <1>10 DEF IsList

-----------------------------------------------------------------------------
(* The clock *)

LEMMA DiskConstants ==
  /\ SectorsPerTrack \in Nat \ {0} /\ SeekTime \in Nat \ {0} /\ RotationTime \in Nat \ {0}
  /\ Revolution \in Nat \ {0}
<1>1. SectorsPerTrack \in Nat \ {0} /\ SeekTime \in Nat \ {0} /\ RotationTime \in Nat \ {0}
  BY DiskAssumption
<1> QED BY <1>1 DEF Revolution

LEMMA ProductIsNat == \A a, b \in Nat : a * b \in Nat
OBVIOUS

LEMMA DivIsNat ==
  ASSUME NEW a \in Nat, NEW b \in Nat \ {0}
  PROVE  /\ a \div b \in Nat /\ (a \div b) * b \in Nat /\ (a \div b) * b <= a
         /\ a % b \in 0 .. b - 1 /\ a = (a \div b) * b + (a % b)
<1>1. a \div b \in Nat /\ a % b \in 0 .. b - 1
  BY Z3
<1>2. a = b * (a \div b) + (a % b)
  BY Z3
<1>3. b * (a \div b) \in Nat /\ b * (a \div b) = (a \div b) * b
  BY <1>1, Z3
<1> QED BY <1>1, <1>2, <1>3

LEMMA ProductIsMonotonic ==
  ASSUME NEW a \in Int, NEW b \in Int, NEW n \in Nat, a <= b
  PROVE  a * n <= b * n
<1>1. b - a \in Nat
  OBVIOUS
<1>2. (b - a) * n \in Nat
  BY <1>1
<1>3. (b - a) * n = b * n - a * n
  BY Z3
<1>4. a * n \in Int /\ b * n \in Int
  OBVIOUS
<1> QED BY <1>2, <1>3, <1>4

\* Quotient and rest are unique.
LEMMA DivIs ==
  ASSUME NEW q \in Nat, NEW b \in Nat \ {0}, NEW r \in 0 .. b - 1
  PROVE  q * b + r \in Nat /\ (q * b + r) \div b = q /\ (q * b + r) % b = r
<1>1. PICK a \in Nat : a = q * b + r
  <2>1. q * b \in Nat
    OBVIOUS
  <2> QED BY <2>1
<1>2. PICK d \in Nat : d = a \div b
  BY Z3
<1>3. PICK e \in 0 .. b - 1 : e = a % b
  BY Z3
<1>4. a = b * d + e
  BY <1>2, <1>3, Z3
<1>5. d * b \in Nat /\ q * b \in Nat /\ d * b = b * d
  BY Z3
<1>6. d * b + e = q * b + r
  BY <1>1, <1>4, <1>5
<1>7. ~ (d + 1 <= q)
  <2> SUFFICES ASSUME d + 1 <= q PROVE FALSE
    OBVIOUS
  <2>1. (d + 1) * b <= q * b
    BY ProductIsMonotonic
  <2>2. (d + 1) * b = d * b + b
    BY Z3
  <2> QED BY <1>5, <1>6, <2>1, <2>2
<1>8. ~ (q + 1 <= d)
  <2> SUFFICES ASSUME q + 1 <= d PROVE FALSE
    OBVIOUS
  <2>1. (q + 1) * b <= d * b
    BY ProductIsMonotonic
  <2>2. (q + 1) * b = q * b + b
    BY Z3
  <2> QED BY <1>5, <1>6, <2>1, <2>2
<1>9. d = q
  BY <1>7, <1>8
<1>10. e = r
  BY <1>5, <1>6, <1>9
<1> QED BY <1>1, <1>2, <1>3, <1>9, <1>10

LEMMA MultipleIs ==
  ASSUME NEW a \in Nat, NEW b \in Nat \ {0}
  PROVE  a % b = 0 <=> \E w \in Nat : a = w * b
<1>1. ASSUME a % b = 0 PROVE \E w \in Nat : a = w * b
  <2>1. a \div b \in Nat /\ (a \div b) * b \in Nat /\ a = (a \div b) * b + (a % b)
    BY DivIsNat
  <2>2. a = (a \div b) * b
    BY <1>1, <2>1
  <2> QED BY <2>1, <2>2, Zenon
<1>2. ASSUME NEW w \in Nat, a = w * b PROVE a % b = 0
  <2>1. w * b + 0 = a /\ 0 \in 0 .. b - 1
    BY <1>2
  <2>2. (w * b + 0) % b = 0
    BY <2>1, DivIs, Zenon
  <2> QED BY <2>1, <2>2, Zenon
<1> QED BY <1>1, <1>2, Zenon

\* Whole revolutions are whole sectors.
LEMMA RevolutionsAreSectors ==
  ASSUME NEW b \in Nat, NEW m \in Nat, b % RotationTime = 0, b - m * Revolution \in Nat
  PROVE  (b - m * Revolution) % RotationTime = 0
<1>1. PICK T \in Nat \ {0}, n \in Nat \ {0} : T = RotationTime /\ n = SectorsPerTrack
  BY DiskConstants
<1>2. PICK w \in Nat : b = w * T
  BY <1>1, MultipleIs, Zenon
<1>3. PICK x \in Nat : x = m * n
  BY ProductIsNat
<1>4. m * Revolution = x * T
  BY <1>1, <1>3, Z3 DEF Revolution
<1>5. w - x \in Int /\ (w - x) * T = w * T - x * T
  BY Z3
<1>6. w - x \in Nat
  <2> SUFFICES ASSUME w + 1 <= x PROVE FALSE
    OBVIOUS
  <2>1. (w + 1) * T <= x * T
    BY ProductIsMonotonic
  <2>2. (w + 1) * T = w * T + T
    BY Z3
  <2>3. w * T \in Nat /\ x * T \in Nat
    OBVIOUS
  <2> QED BY <1>2, <1>4, <2>1, <2>2, <2>3
<1>7. b - m * Revolution = (w - x) * T
  BY <1>2, <1>4, <1>5
<1> QED BY <1>1, <1>6, <1>7, MultipleIs, SMTT(60)

\* Leaving out revolutions keeps the times, and whether the head has come to its track
\* or when it will.
LEMMA ReducedIs ==
  ASSUME NEW t \in Nat, NEW b \in Nat
  PROVE  \E u, c \in Nat : /\ Reduced(t, b) = <<u, c>>
                           /\ b <= t => c <= u
                           /\ b > t => c - u = b - t
                           /\ b % RotationTime = 0 => c % RotationTime = 0
<1>1. PICK R \in Nat \ {0} : R = Revolution
  BY DiskConstants
<1>2. CASE b > t
  <2>1. PICK m \in Nat : m = t \div R /\ m * R \in Nat /\ m * R <= t
    BY DivIsNat
  <2>2. t - b < 2 * R /\ t < b
    BY <1>2
  <2>3. Reduced(t, b) = <<t - (m + 0) * R, b - m * R>>
    BY <1>1, <2>1, <2>2, Zenon DEF Reduced
  <2>4. (m + 0) * R = m * R
    OBVIOUS
  <2>5. t - m * R \in Nat /\ b - m * R \in Nat /\ (b - m * R) - (t - m * R) = b - t
    BY <1>2, <2>1
  <2>6. b % RotationTime = 0 => (b - m * R) % RotationTime = 0
    BY <1>1, <2>5, RevolutionsAreSectors
  <2> QED BY <1>2, <2>3, <2>4, <2>5, <2>6
<1>3. CASE b <= t
  <2>1. PICK m \in Nat : m = b \div R /\ m * R \in Nat /\ m * R <= b
    BY DivIsNat
  <2>2. b - m * R \in Nat /\ t - m * R \in Nat /\ b - m * R <= t - m * R
    BY <1>3, <2>1
  <2>3. (IF t < b THEN t ELSE b) \div R = m
    <3>1. CASE t < b
      BY <1>3, <3>1
    <3>2. CASE ~ (t < b)
      BY <2>1, <3>2, Zenon
    <3> QED BY <3>1, <3>2
  <2>6. b % RotationTime = 0 => (b - m * R) % RotationTime = 0
    BY <1>1, <2>2, RevolutionsAreSectors
  <2>4. CASE t - b < 2 * R
    <3>1. Reduced(t, b) = <<t - (m + 0) * R, b - m * R>>
      BY <1>1, <2>3, <2>4, Zenon DEF Reduced
    <3>2. (m + 0) * R = m * R
      OBVIOUS
    <3> QED BY <1>3, <2>2, <2>6, <3>1, <3>2
  <2>5. CASE ~ (t - b < 2 * R)
    <3>1. t - b \in Nat
      BY <1>3
    <3>2. PICK q \in Nat : q = (t - b) \div R /\ q * R \in Nat /\ q * R <= t - b
      BY <3>1, DivIsNat
    <3>3. Reduced(t, b) = <<t - (m + (q - 1)) * R, b - m * R>>
      BY <1>1, <2>3, <2>5, <3>2, Zenon DEF Reduced
    <3>4. (m + (q - 1)) * R = m * R + q * R - R
      BY Z3
    <3>5. /\ t - (m * R + q * R - R) \in Nat
          /\ b - m * R <= t - (m * R + q * R - R)
      <4> HIDE <1>1
      <4>1. PICK x \in Nat : x = m * R
        BY <2>1
      <4>2. PICK y \in Nat : y = q * R
        BY <3>2
      <4>3. x <= b /\ y <= t - b
        BY <2>1, <3>2, <4>1, <4>2
      <4>4. t - (x + y - R) \in Nat /\ b - x <= t - (x + y - R)
        BY <1>3, <4>3
      <4> QED BY <4>1, <4>2, <4>4
    <3> QED BY <1>3, <2>2, <2>6, <3>3, <3>4, <3>5, SMTT(60)
  <2> QED BY <2>4, <2>5
<1> QED BY <1>2, <1>3

\* The parts of ComputeLatency.
LEMMA LatencyParts ==
  ASSUME totalTicks \in Nat, lastTrack \in Nat, NEW s \in Nat
  PROVE  /\ Seek(s) \in Nat /\ Rotation(s) \in Nat /\ TimeAfter(s) \in Nat
         /\ TimeAfter(s) = totalTicks + Seek(s) + Rotation(s)
         /\ s \div SectorsPerTrack \in Nat
<1>1. s \div SectorsPerTrack \in Nat
  BY DiskConstants, DivIsNat
<1>2. Distance(s \div SectorsPerTrack, lastTrack) \in Nat
  BY <1>1 DEF Distance
<1>3. Seek(s) \in Nat
  BY <1>2, DiskConstants, ProductIsNat DEF Seek
<1>4. PICK x \in Nat : x = totalTicks + Seek(s)
  BY <1>3
<1>5. PICK over : over = x % RotationTime /\ over \in 0 .. RotationTime - 1
  BY DiskConstants, DivIsNat
<1>6. Rotation(s) = IF over > 0 THEN RotationTime - over ELSE 0
  BY <1>4, <1>5 DEF Rotation
<1>7. Rotation(s) \in Nat
  BY <1>5, <1>6, DiskConstants, SMTT(60)
<1> QED BY <1>1, <1>3, <1>7 DEF TimeAfter

\* ModuloDiff(s, a) is how far it is from a to the next number with the rest of s.
LEMMA ModuloDiffIsNext ==
  ASSUME NEW s \in Nat, NEW a \in Nat
  PROVE  /\ ModuloDiff(s, a) \in 0 .. SectorsPerTrack - 1
         /\ (a + ModuloDiff(s, a)) % SectorsPerTrack = s % SectorsPerTrack
         /\ \A k \in Nat : a <= k /\ k % SectorsPerTrack = s % SectorsPerTrack =>
                             a + ModuloDiff(s, a) <= k
<1>0. PICK n \in Nat \ {0} : n = SectorsPerTrack
  BY DiskConstants
<1>1. PICK x \in 0 .. n - 1 : x = s % n
  BY DivIsNat
<1>2. PICK c \in Nat, y \in 0 .. n - 1 : y = a % n /\ a = c * n + y /\ c * n \in Nat
  BY DivIsNat, Zenon
<1>3. ModuloDiff(s, a) = (x - y + n) % n
  BY <1>0, <1>1, <1>2, Zenon DEF ModuloDiff
<1>4. CASE x >= y
  <2>1. PICK m \in 0 .. n - 1 : m = x - y
    BY <1>4
  <2>2. x - y + n = 1 * n + m
    BY <2>1
  <2>3. ModuloDiff(s, a) = m
    <3>1. (1 * n + m) % n = m
      BY DivIs
    <3> QED BY <1>3, <2>2, <3>1, Zenon
  <2>4. a + m = c * n + x
    BY <1>2, <2>1
  <2>5. (a + m) % n = x
    <3>1. (c * n + x) % n = x
      BY DivIs
    <3> QED BY <2>4, <3>1, Zenon
  <2>6. ASSUME NEW k \in Nat, a <= k, k % n = x PROVE a + m <= k
    <3>1. PICK e \in Nat : k = e * n + x /\ e * n \in Nat
      BY <2>6, DivIsNat, Zenon
    <3>2. c <= e
      <4> SUFFICES ASSUME e + 1 <= c PROVE FALSE
        OBVIOUS
      <4>1. (e + 1) * n <= c * n
        BY ProductIsMonotonic
      <4>2. (e + 1) * n = e * n + n
        BY Z3
      <4> QED BY <1>2, <2>6, <3>1, <4>1, <4>2, SMTT(60)
    <3>3. c * n <= e * n
      BY <3>2, ProductIsMonotonic
    <3> QED BY <1>2, <2>4, <3>1, <3>3
  <2> QED BY <1>0, <1>1, <2>3, <2>5, <2>6
<1>5. CASE x < y
  <2>1. PICK m \in 0 .. n - 1 : m = x - y + n
    BY <1>5
  <2>2. x - y + n = 0 * n + m
    BY <2>1
  <2>3. ModuloDiff(s, a) = m
    <3>1. (0 * n + m) % n = m
      BY DivIs
    <3> QED BY <1>3, <2>2, <3>1, Zenon
  <2>4. (c + 1) * n = c * n + n
    BY Z3
  <2>5. a + m = (c + 1) * n + x
    BY <1>2, <2>1, <2>4, SMTT(60)
  <2>6. (a + m) % n = x
    <3>1. c + 1 \in Nat
      OBVIOUS
    <3>2. ((c + 1) * n + x) % n = x
      BY <3>1, DivIs
    <3> QED BY <2>5, <3>2, Zenon
  <2>7. ASSUME NEW k \in Nat, a <= k, k % n = x PROVE a + m <= k
    <3>1. PICK e \in Nat : k = e * n + x /\ e * n \in Nat
      BY <2>7, DivIsNat, Zenon
    <3>2. c + 1 <= e
      <4> SUFFICES ASSUME e <= c PROVE FALSE
        OBVIOUS
      <4>1. e * n <= c * n
        BY ProductIsMonotonic
      <4> QED BY <1>2, <1>5, <2>7, <3>1, <4>1
    <3>3. (c + 1) * n <= e * n
      BY <3>2, ProductIsMonotonic, SMTT(60)
    <3> QED BY <2>5, <3>1, <3>3, <2>4, <1>2, SMTT(60)
  <2> QED BY <1>0, <1>1, <2>3, <2>6, <2>7
<1> QED BY <1>4, <1>5

\* When the seek and the rotation are over the next sector begins.
LEMMA TimeAfterIs ==
  ASSUME totalTicks \in Nat, lastTrack \in Nat, NEW s \in Nat
  PROVE  \E q \in Nat : /\ TimeAfter(s) = q * RotationTime /\ q = TimeAfter(s) \div RotationTime
                        /\ totalTicks + Seek(s) <= q * RotationTime
                        /\ q * RotationTime < totalTicks + Seek(s) + RotationTime
<1>1. /\ Seek(s) \in Nat /\ Rotation(s) \in Nat
      /\ TimeAfter(s) = totalTicks + Seek(s) + Rotation(s)
  BY LatencyParts
<1>2. PICK T \in Nat \ {0} : T = RotationTime
  BY DiskConstants
<1>3. PICK x \in Nat : x = totalTicks + Seek(s)
  BY <1>1
<1>4. PICK w \in Nat, over \in 0 .. T - 1 : over = x % T /\ x = w * T + over /\ w * T \in Nat
  BY DivIsNat, Zenon
<1>5. Rotation(s) = IF over > 0 THEN T - over ELSE 0
  BY <1>2, <1>3, <1>4 DEF Rotation
<1>6. (w + 1) * T = w * T + T
  BY Z3
<1>7. PICK q \in Nat : x + Rotation(s) = q * T /\ x <= q * T /\ q * T < x + T
  <2>1. CASE over > 0
    <3>1. w + 1 \in Nat /\ x + Rotation(s) = (w + 1) * T /\ x <= (w + 1) * T /\ (w + 1) * T < x + T
      BY <1>4, <1>5, <1>6, <2>1, SMTT(30)
    <3> QED BY <3>1, Zenon
  <2>2. CASE over = 0
    BY <1>4, <1>5, <2>2
  <2> QED BY <2>1, <2>2
<1>8. TimeAfter(s) = q * T
  BY <1>1, <1>3, <1>7
<1>9. TimeAfter(s) \div T = q
  <2>1. q * T + 0 = q * T /\ 0 \in 0 .. T - 1
    OBVIOUS
  <2>2. (q * T + 0) \div T = q
    BY <2>1, DivIs
  <2> QED BY <1>8, <2>1, <2>2, Zenon
<1> QED BY <1>1, <1>2, <1>3, <1>7, <1>8, <1>9, SMTT(60)

\* A request takes time, and no less than its seek and rotation.
LEMMA LatencyIs ==
  ASSUME totalTicks \in Nat, lastTrack \in Nat, NEW s \in Nat, NEW writing \in BOOLEAN
  PROVE  /\ ComputeLatency(s, writing) \in Nat \ {0}
         /\ Seek(s) # 0 => Seek(s) + Rotation(s) <= ComputeLatency(s, writing)
<1>1. Seek(s) \in Nat /\ Rotation(s) \in Nat /\ TimeAfter(s) \in Nat
  BY LatencyParts
<1>2. TimeAfter(s) \div RotationTime \in Nat
  BY <1>1, DiskConstants, DivIsNat
<1>3. ModuloDiff(s, TimeAfter(s) \div RotationTime) \in Nat
  BY <1>2, ModuloDiffIsNext
<1>4. PICK w \in Nat : w = ModuloDiff(s, TimeAfter(s) \div RotationTime) * RotationTime
  BY <1>3, DiskConstants, ProductIsNat
<1>5. CASE InTrackBuffer(s, writing)
  <2>1. Seek(s) = 0
    BY <1>5 DEF InTrackBuffer
  <2>2. ComputeLatency(s, writing) = RotationTime
    BY <1>5 DEF ComputeLatency
  <2> QED BY <2>1, <2>2, DiskConstants
<1>6. CASE ~InTrackBuffer(s, writing)
  <2>1. ComputeLatency(s, writing) = Seek(s) + Rotation(s) + RotationTime + w
    BY <1>4, <1>6 DEF ComputeLatency
  <2> QED BY <1>1, <2>1, DiskConstants
<1> QED BY <1>5, <1>6

-----------------------------------------------------------------------------
(* The invariant, by the elements of the list *)

\* What NoneOverdue, IdleIsOnTime and HaltsWhenDone say of the set of elements.
OnTime(P, where) ==
  /\ where = "on" => \A x \in P : x.left > 0 \/ (x.source = timer /\ x.left = 0)
  /\ where \in {"idle", "more"} => \A x \in P : x.left >= 0
  /\ where = "halted" => \A x \in P : x.source = timer

Places == {"on", "tick", "idle", "more", "halted"}

LEMMA InterruptInvIs ==
  /\ InterruptInv <=> /\ IsList(pending) /\ OnTime(Items(pending), place)
                      /\ yieldOnReturn \in BOOLEAN /\ place \in Places
  /\ InterruptInv' <=> /\ IsList(pending') /\ OnTime(Items(pending'), place')
                       /\ yieldOnReturn' \in BOOLEAN /\ place' \in Places
BY Zenon DEF InterruptInv, IsList, IsSorted, IsSingle, OnTime, Items, Places, Interrupts,
             PendingIsSorted, OneEach, NoneOverdue, IdleIsOnTime, HaltsWhenDone

LEMMA PendingIs ==
  ASSUME NEW d
  PROVE  /\ Pending(d) <=> \E x \in Items(pending) : x.source = d
         /\ Pending(d)' <=> \E x \in Items(pending') : x.source = d
BY Zenon DEF Pending, Items

LEMMA ItemIsInterrupt ==
  ASSUME NEW s, IsList(s), NEW x \in Items(s)
  PROVE  x \in Interrupts /\ x.left \in Int
<1>1. s \in Seq(Interrupts)
  BY DEF IsList
<1> QED BY <1>1, ListParts DEF Items

LEMMA SourcesAre ==
  /\ \A d \in Devices : d \in Sources /\ d # timer
  /\ \A d \in Polls \cup {timer} : d \in Sources /\ d \notin Devices
  /\ disk \in Devices
BY InterruptAssumption, DiskAssumption DEF Sources

LEMMA DelaysAre == \A n \in Delays : n \in Nat \ {0}
BY InterruptAssumption

LEMMA TicksAre == \A n \in Ticks : n \in Nat \ {0}
BY InterruptAssumption

LEMMA PendingInterruptIs ==
  ASSUME NEW d \in Sources, NEW n \in Int
  PROVE  /\ PendingInterrupt(d, n) \in Interrupts
         /\ PendingInterrupt(d, n).source = d /\ PendingInterrupt(d, n).left = n
BY DEF PendingInterrupt, Interrupts

\* An interrupt is scheduled.
LEMMA ScheduleStep ==
  ASSUME InterruptInv, NEW d \in Sources, NEW n \in Nat \ {0}, place = "on", ~Pending(d),
         pending' = SortedInsert(pending, PendingInterrupt(d, n)),
         UNCHANGED <<yieldOnReturn, place>>
  PROVE  InterruptInv' /\ Items(pending') = Items(pending) \cup {PendingInterrupt(d, n)}
<1>1. PICK e \in Interrupts : e = PendingInterrupt(d, n) /\ e.source = d /\ e.left = n
  BY PendingInterruptIs
<1>2. \A x \in Items(pending) : x.source # e.source
  BY <1>1, PendingIs
<1>3. IsList(pending) /\ OnTime(Items(pending), place)
  BY InterruptInvIs
<1>4. IsList(pending') /\ Items(pending') = Items(pending) \cup {e}
  BY <1>1, <1>2, <1>3, InsertKeeps
<1>5. OnTime(Items(pending'), place')
  BY <1>1, <1>3, <1>4 DEF OnTime
<1> QED BY <1>1, <1>4, <1>5, InterruptInvIs

LEMMA OneTickStep ==
  ASSUME InterruptInv, NEW n \in Nat, OneTick(n)
  PROVE  InterruptInv' /\ Items(pending') = {Later(x, n) : x \in Items(pending)}
<1>1. IsList(pending)
  BY InterruptInvIs
<1>2. IsList(pending') /\ Items(pending') = {Later(x, n) : x \in Items(pending)}
  BY <1>1, AfterKeeps DEF OneTick
<1>3. OnTime(Items(pending'), place')
  BY DEF OneTick, OnTime
<1>4. yieldOnReturn' \in BOOLEAN /\ place' \in Places
  BY InterruptInvIs, Zenon DEF OneTick, Places
<1> QED BY <1>2, <1>3, <1>4, InterruptInvIs

LEMMA IdleStep ==
  ASSUME InterruptInv, Idle
  PROVE  InterruptInv'
<1>1. IsList(pending) /\ OnTime(Items(pending), place) /\ place = "on"
  BY InterruptInvIs DEF Idle
<1>2. \A x \in Items(pending) : x.left >= 0
  BY <1>1, ItemIsInterrupt DEF OnTime
<1>3. IsList(pending') /\ OnTime(Items(pending'), place')
  BY <1>1, <1>2 DEF Idle, OnTime
<1>4. yieldOnReturn' \in BOOLEAN /\ place' \in Places
  BY InterruptInvIs, Zenon DEF Idle, Places
<1> QED BY <1>3, <1>4, InterruptInvIs

\* The list by the clock that CheckIfDue finds or advances.
LEMMA ClockedIs ==
  ASSUME InterruptInv
  PROVE  /\ Advance \in Nat /\ IsList(Clocked)
         /\ Items(Clocked) = {Later(x, Advance) : x \in Items(pending)}
         /\ Clocked = <<>> <=> pending = <<>>
         /\ pending # <<>> => Head(Clocked) = Later(Head(pending), Advance)
         /\ place # "idle" => Advance = 0
         /\ place \in {"idle", "more"} => \A x \in Items(Clocked) : x.left >= 0
         /\ place = "idle" /\ pending # <<>> => Head(Clocked).left <= 0
<1>1. IsList(pending) /\ OnTime(Items(pending), place)
  BY InterruptInvIs
<1>2. pending # <<>> => /\ Head(pending) \in Interrupts /\ Head(pending).left \in Int
                        /\ \A x \in Items(pending) : Head(pending).left <= x.left
                        /\ Head(pending) \in Items(pending)
  BY <1>1, TailKeeps, InterruptParts
<1>3. Advance \in Nat /\ (place # "idle" => Advance = 0)
  BY <1>2 DEF Advance
<1>4. /\ IsList(Clocked) /\ Items(Clocked) = {Later(x, Advance) : x \in Items(pending)}
      /\ (Clocked = <<>> <=> pending = <<>>)
      /\ pending # <<>> => Head(Clocked) = Later(Head(pending), Advance)
  <2>1. PICK n \in Int : n = Advance
    BY <1>3
  <2>2. Clocked = After(pending, n)
    BY <2>1 DEF Clocked
  <2> QED BY <1>1, <2>1, <2>2, AfterKeeps
<1>5. ASSUME place \in {"idle", "more"}, NEW x \in Items(pending)
      PROVE  Later(x, Advance).left >= 0
  <2>1. pending # <<>>
    BY <1>5 DEF Items
  <2>2. x.left \in Int /\ x.left >= 0 /\ Head(pending).left <= x.left
    BY <1>1, <1>2, <1>5, <2>1, ItemIsInterrupt DEF OnTime
  <2>3. Advance = 0 \/ Advance = Head(pending).left
    BY DEF Advance
  <2> QED BY <1>2, <2>1, <2>2, <2>3 DEF Later
<1>6. ASSUME place = "idle", pending # <<>> PROVE Head(Clocked).left <= 0
  <2>1. Head(pending).left > 0 => Advance = Head(pending).left
    BY <1>6 DEF Advance
  <2>2. ~ (Head(pending).left > 0) => Advance = 0
    BY <1>6, Zenon DEF Advance
  <2> QED BY <1>2, <1>4, <1>6, <2>1, <2>2 DEF Later
<1> QED BY <1>3, <1>4, <1>5, <1>6

\* CheckIfDue calls a handler.  Of a device the interrupt is gone, another source has
\* its next one, and the others are as they were.
LEMMA FireStep ==
  ASSUME InterruptInv, NEW n \in Nat \ {0}, Fire(n)
  PROVE  /\ InterruptInv' /\ Clocked # <<>>
         /\ Head(Clocked) \in Items(Clocked) /\ Head(Clocked).left <= 0
         /\ \A x \in Items(pending') : \/ x \in Items(Clocked) /\ x.source # Head(Clocked).source
                                       \/ x.source = Head(Clocked).source /\ x.source \notin Devices
         /\ \A x \in Items(Clocked) : x.source # Head(Clocked).source => x \in Items(pending')
         /\ Head(Clocked).source \notin Devices =>
              \E x \in Items(pending') : x.source = Head(Clocked).source
<1>0. PICK c : c = Clocked
  OBVIOUS
<1>1. /\ IsList(c) /\ c # <<>> /\ Head(c).left <= 0
      /\ place \in {"idle", "more"} => \A x \in Items(c) : x.left >= 0
      /\ pending' = Rescheduled(Head(c).source, Tail(c), n)
  BY <1>0, ClockedIs DEF Fire, IsDue
<1>2. PICK r : r = Tail(c)
  BY Zenon
<1>3. PICK h \in Interrupts : h = Head(c)
  BY <1>1, TailKeeps
<1>4. /\ IsList(r) /\ Items(c) = Items(r) \cup {h}
      /\ \A x \in Items(r) : x.source # h.source
  BY <1>1, <1>2, <1>3, TailKeeps
<1>5. PICK e \in Interrupts : e = PendingInterrupt(h.source, n) /\ e.source = h.source /\ e.left = n
  <2>1. h.source \in Sources
    BY InterruptParts
  <2> QED BY <2>1, PendingInterruptIs
<1>6. pending' = IF h.source \in Devices THEN r ELSE SortedInsert(r, e)
  BY <1>1, <1>2, <1>3, <1>5 DEF Rescheduled
<1>7. IsList(SortedInsert(r, e)) /\ Items(SortedInsert(r, e)) = Items(r) \cup {e}
  BY <1>4, <1>5, InsertKeeps
<1>8. IsList(pending') /\ Items(pending') = Items(r) \cup IF h.source \in Devices THEN {} ELSE {e}
  BY <1>4, <1>6, <1>7, SMTT(60)
<1>9. place' \in {"tick", "more"} /\ (place' = "more" => place \in {"idle", "more"})
  BY DEF Fire
<1>10. OnTime(Items(pending'), place')
  <2>1. place' = "more" => \A x \in Items(r) : x.left >= 0
    BY <1>0, <1>1, <1>4, <1>9
  <2>2. e.left >= 0
    BY <1>5
  <2> QED BY <1>8, <1>9, <2>1, <2>2 DEF OnTime
<1>11. yieldOnReturn' \in BOOLEAN
  BY DEF Fire, TimerInterruptHandler
<1>12. InterruptInv'
  BY <1>8, <1>9, <1>10, <1>11, InterruptInvIs DEF Places
<1> QED BY <1>0, <1>1, <1>3, <1>4, <1>5, <1>8, <1>12, SMTT(60)

\* CheckIfDue finds nothing to do: the elements are as they were.
LEMMA NotDueStep ==
  ASSUME InterruptInv, NotDue
  PROVE  InterruptInv' /\ Items(pending') = Items(Clocked)
<1>0. PICK c : c = Clocked
  OBVIOUS
<1>1. /\ IsList(c) /\ (c = <<>> <=> pending = <<>>)
      /\ pending # <<>> => Head(c) = Later(Head(pending), Advance)
      /\ place \in {"idle", "more"} => \A x \in Items(c) : x.left >= 0
      /\ place = "idle" /\ pending # <<>> => Head(c).left <= 0
      /\ Items(c) = {Later(x, Advance) : x \in Items(pending)}
  BY <1>0, ClockedIs
<1>2. pending' = IF c = <<>> THEN <<>> ELSE SortedInsert(Tail(c), Head(c))
  BY <1>0 DEF NotDue
<1>3. IsList(pending') /\ Items(pending') = Items(c)
  <2>1. CASE c = <<>>
    BY <1>1, <1>2, <2>1, SMTT(60)
  <2>2. CASE c # <<>>
    BY <1>1, <1>2, <2>2, TailKeeps, InsertKeeps
  <2> QED BY <2>1, <2>2
<1>4. c # <<>> => OnlyTimer \/ ~ (Head(c).left <= 0)
  BY <1>0, SMTT(60) DEF NotDue, IsDue
<1>5. c # <<>> => /\ Head(c).left \in Int /\ \A x \in Items(c) : Head(c).left <= x.left
  BY <1>1, TailKeeps, InterruptParts, SMTT(60)
<1>6. ASSUME OnlyTimer PROVE \A x \in Items(c) : x.source = timer
  <2>1. pending \in Seq(Interrupts) /\ Len(pending) = 1 /\ Head(pending).source = timer
    BY <1>6, InterruptInvIs DEF OnlyTimer, IsList
  <2>2. \A x \in Items(pending) : x.source = timer
    BY <2>1, ListParts DEF Items
  <2> QED BY <1>1, <2>2 DEF Later
<1>7. place' \in {"on", "halted"} /\ place \in {"tick", "idle", "more"}
      /\ (place' = "halted" <=> place = "idle")
  BY DEF NotDue
<1>8. c = <<>> => Items(c) = {}
  BY DEF Items
<1>9. OnTime(Items(c), place')
  <2>1. CASE place = "idle"
    <3>1. c # <<>> => OnlyTimer
      BY <1>1, <1>4, <2>1
    <3> QED BY <1>6, <1>7, <1>8, <2>1, <3>1 DEF OnTime
  <2>2. CASE place = "more"
    <3>1. place' = "on"
      BY <1>7, <2>2
    <3>2. \A x \in Items(c) : x.left \in Int /\ x.left >= 0
      BY <1>1, <2>2, ItemIsInterrupt
    <3>3. CASE OnlyTimer
      BY <1>6, <3>1, <3>2, <3>3 DEF OnTime
    <3>4. CASE ~OnlyTimer
      BY <1>4, <1>5, <1>8, <3>1, <3>2, <3>4, SMTT(60) DEF OnTime
    <3> QED BY <3>3, <3>4
  <2>3. CASE place = "tick"
    <3>1. place' = "on" /\ ~OnlyTimer
      BY <1>7, <2>3 DEF OnlyTimer
    <3>2. \A x \in Items(c) : x.left \in Int
      BY <1>1, ItemIsInterrupt
    <3> QED BY <1>4, <1>5, <1>8, <3>1, <3>2, SMTT(60) DEF OnTime
  <2> QED BY <1>7, <2>1, <2>2, <2>3, SMTT(60)
<1>10. yieldOnReturn' \in BOOLEAN /\ place' \in Places
  BY <1>7, Zenon DEF NotDue, Places
<1> QED BY <1>0, <1>3, <1>9, <1>10, InterruptInvIs

-----------------------------------------------------------------------------
(* The disk *)

\* What SeekEnds says of the set of elements.
Arrives(P, act, t, b) ==
  /\ ~act => b <= t
  /\ \A x \in P : x.source = disk => b <= t \/ b <= t + x.left

LEMMA DiskInvIs ==
  /\ DiskInv <=> /\ InterruptInv
                 /\ totalTicks \in Nat /\ bufferInit \in Nat /\ lastTrack \in Nat /\ active \in BOOLEAN
                 /\ active <=> Pending(disk)
                 /\ Arrives(Items(pending), active, totalTicks, bufferInit)
                 /\ bufferInit % RotationTime = 0
  /\ DiskInv' <=> /\ InterruptInv'
                  /\ totalTicks' \in Nat /\ bufferInit' \in Nat /\ lastTrack' \in Nat
                  /\ active' \in BOOLEAN
                  /\ active' <=> Pending(disk)'
                  /\ Arrives(Items(pending'), active', totalTicks', bufferInit')
                  /\ bufferInit' % RotationTime = 0
BY Zenon DEF DiskInv, SeekEnds, SeekEndsOnSector, Arrives, Items

\* Time passes: the head is where it was, or will be.
LEMMA PassesStep ==
  ASSUME DiskInv, NEW n \in Nat, Passes(n)
  PROVE  /\ totalTicks' \in Nat /\ bufferInit' \in Nat /\ lastTrack' \in Nat
         /\ bufferInit' % RotationTime = 0
         /\ bufferInit <= totalTicks + n => bufferInit' <= totalTicks'
         /\ \A l \in Int : bufferInit <= totalTicks + l =>
                             bufferInit' <= totalTicks' \/ bufferInit' <= totalTicks' + (l - n)
<1>1. totalTicks \in Nat /\ bufferInit \in Nat /\ lastTrack \in Nat /\ bufferInit % RotationTime = 0
  BY DEF DiskInv, SeekEndsOnSector
<1>2. PICK t \in Nat : t = totalTicks + n
  BY <1>1
<1>3. PICK u \in Nat, c \in Nat : /\ Reduced(t, bufferInit) = <<u, c>>
                                  /\ bufferInit <= t => c <= u
                                  /\ bufferInit > t => c - u = bufferInit - t
                                  /\ bufferInit % RotationTime = 0 => c % RotationTime = 0
  BY <1>1, ReducedIs, Zenon
<1>4. totalTicks' = u /\ bufferInit' = c /\ lastTrack' = lastTrack
  BY <1>2, <1>3 DEF Passes, Clock
<1> QED BY <1>1, <1>2, <1>3, <1>4

LEMMA RequestStep ==
  ASSUME DiskInv, NEW s \in 0 .. NumSectors - 1, NEW writing \in BOOLEAN, Request(s, writing)
  PROVE  DiskInv'
<1>1. /\ InterruptInv /\ totalTicks \in Nat /\ bufferInit \in Nat /\ lastTrack \in Nat
      /\ (active <=> Pending(disk)) /\ Arrives(Items(pending), active, totalTicks, bufferInit)
      /\ bufferInit % RotationTime = 0
  BY DiskInvIs
<1>2. s \in Nat
  OBVIOUS
<1>3. /\ Seek(s) \in Nat /\ Rotation(s) \in Nat /\ TimeAfter(s) \in Nat
      /\ TimeAfter(s) = totalTicks + Seek(s) + Rotation(s) /\ s \div SectorsPerTrack \in Nat
  BY <1>1, <1>2, LatencyParts, SMTT(60)
<1>4. PICK n \in Nat \ {0} : /\ n = ComputeLatency(s, writing)
                             /\ Seek(s) # 0 => Seek(s) + Rotation(s) <= n
  BY <1>1, <1>2, LatencyIs
<1>5. InterruptInv' /\ Items(pending') = Items(pending) \cup {PendingInterrupt(disk, n)}
  BY <1>1, <1>4, ScheduleStep, SourcesAre, Zenon DEF Request, Schedule
<1>6. PICK e : e = PendingInterrupt(disk, n) /\ e.source = disk /\ e.left = n
  BY SourcesAre, PendingInterruptIs
<1>7. active' = TRUE /\ lastTrack' \in Nat
  BY <1>3 DEF Request, UpdateLast
<1>8. Pending(disk)'
  BY <1>5, <1>6, PendingIs, SMTT(60)
<1>9. ASSUME NEW x \in Items(pending'), x.source = disk PROVE x = e
  BY <1>1, <1>5, <1>6, <1>9, PendingIs, SMTT(60) DEF Request
<1>10. PICK b \in Nat : /\ b = IF Seek(s) # 0 THEN TimeAfter(s) ELSE bufferInit
                        /\ b <= totalTicks + n /\ b % RotationTime = 0
  <2>1. bufferInit <= totalTicks
    BY <1>1 DEF Request, Arrives
  <2>2. TimeAfter(s) % RotationTime = 0
    <3>1. PICK q \in Nat : TimeAfter(s) = q * RotationTime
      BY <1>1, <1>2, TimeAfterIs, SMTT(60)
    <3> QED BY <1>3, <3>1, MultipleIs, DiskConstants, Zenon
  <2> QED BY <1>1, <1>3, <1>4, <2>1, <2>2, SMTT(60)
<1>11. totalTicks' \in Nat /\ bufferInit' \in Nat /\ bufferInit' % RotationTime = 0
       /\ (bufferInit' <= totalTicks' \/ bufferInit' <= totalTicks' + n)
  <2>1. totalTicks + 0 = totalTicks
    BY <1>1
  <2>2. PICK u \in Nat, c \in Nat : /\ Reduced(totalTicks, b) = <<u, c>>
                                    /\ b <= totalTicks => c <= u
                                    /\ b > totalTicks => c - u = b - totalTicks
                                    /\ b % RotationTime = 0 => c % RotationTime = 0
    BY <1>1, ReducedIs, ZenonT(60)
  <2>3. totalTicks' = u /\ bufferInit' = c
    BY <1>10, <2>1, <2>2 DEF Request, UpdateLast, Clock
  <2> QED BY <1>1, <1>10, <2>2, <2>3, SMTT(60)
<1>12. Arrives(Items(pending'), active', totalTicks', bufferInit')
  BY <1>6, <1>7, <1>9, <1>11, ZenonT(60) DEF Arrives
<1> QED BY <1>5, <1>7, <1>8, <1>11, <1>12, DiskInvIs, Zenon

LEMMA OthersStep ==
  ASSUME DiskInv, Others
  PROVE  DiskInv'
<1>1. /\ InterruptInv /\ totalTicks \in Nat /\ bufferInit \in Nat /\ lastTrack \in Nat
      /\ active \in BOOLEAN /\ bufferInit % RotationTime = 0
      /\ (active <=> Pending(disk)) /\ Arrives(Items(pending), active, totalTicks, bufferInit)
  BY DiskInvIs, SMTT(60)
<1>2. PICK d \in Sources, n \in Delays :
        /\ d # disk /\ place = "on" /\ ~Pending(d)
        /\ pending' = SortedInsert(pending, PendingInterrupt(d, n))
        /\ UNCHANGED <<yieldOnReturn, place>>
  BY SourcesAre, SMTT(60) DEF Others, Start, Schedule
<1>3. InterruptInv' /\ Items(pending') = Items(pending) \cup {PendingInterrupt(d, n)}
  BY <1>1, <1>2, ScheduleStep, DelaysAre, SMTT(60)
<1>4. PendingInterrupt(d, n).source # disk
  BY <1>2 DEF PendingInterrupt
<1>5. UNCHANGED <<totalTicks, active, lastTrack, bufferInit>>
  BY DEF Others, diskVars
<1>6. Pending(disk)' <=> Pending(disk)
  BY <1>3, <1>4, PendingIs, SMTT(60)
<1>7. Arrives(Items(pending'), active', totalTicks', bufferInit')
  BY <1>1, <1>3, <1>4, <1>5, SMTT(60) DEF Arrives
<1> QED BY <1>1, <1>3, <1>5, <1>6, <1>7, DiskInvIs, SMTT(60)

\* Time passes and no handler is called.
LEMMA TimePasses ==
  ASSUME DiskInv, InterruptInv', NEW n \in Nat, Passes(n), UNCHANGED active,
         Items(pending') = {Later(x, n) : x \in Items(pending)}
  PROVE  DiskInv'
<1>1. /\ InterruptInv /\ active \in BOOLEAN /\ totalTicks \in Nat /\ bufferInit \in Nat
      /\ (active <=> Pending(disk)) /\ Arrives(Items(pending), active, totalTicks, bufferInit)
  BY DiskInvIs
<1>2. /\ totalTicks' \in Nat /\ bufferInit' \in Nat /\ lastTrack' \in Nat
      /\ bufferInit' % RotationTime = 0
      /\ bufferInit <= totalTicks + n => bufferInit' <= totalTicks'
      /\ \A l \in Int : bufferInit <= totalTicks + l =>
                          bufferInit' <= totalTicks' \/ bufferInit' <= totalTicks' + (l - n)
  BY PassesStep
<1>3. Pending(disk)' <=> Pending(disk)
  <2>1. \A x \in Items(pending) : Later(x, n) \in Items(pending') /\ Later(x, n).source = x.source
    BY DEF Later
  <2>2. \A y \in Items(pending') : \E x \in Items(pending) : y.source = x.source
    BY DEF Later
  <2> QED BY <2>1, <2>2, PendingIs, SMTT(60)
<1>4. ~active' => bufferInit' <= totalTicks'
  BY <1>1, <1>2 DEF Arrives
<1>5. ASSUME NEW x \in Items(pending'), x.source = disk
      PROVE  bufferInit' <= totalTicks' \/ bufferInit' <= totalTicks' + x.left
  <2>1. PICK y \in Items(pending) : x.source = y.source /\ x.left = y.left - n
    BY DEF Later
  <2>2. y.left \in Int
    BY <1>1, InterruptInvIs, ItemIsInterrupt
  <2>3. bufferInit <= totalTicks \/ bufferInit <= totalTicks + y.left
    BY <1>1, <1>5, <2>1 DEF Arrives
  <2>4. CASE bufferInit <= totalTicks
    <3>1. bufferInit <= totalTicks + n
      BY <1>1, <2>4
    <3> QED BY <1>2, <3>1
  <2>5. CASE bufferInit <= totalTicks + y.left
    BY <1>2, <2>1, <2>2, <2>5, Zenon
  <2> QED BY <2>3, <2>4, <2>5, SMTT(60)
<1>6. Arrives(Items(pending'), active', totalTicks', bufferInit')
  BY <1>4, <1>5 DEF Arrives
<1> QED BY <1>1, <1>2, <1>3, <1>6, DiskInvIs, SMTT(60)

LEMMA WorksStep ==
  ASSUME DiskInv, Works
  PROVE  DiskInv'
<1>0. InterruptInv
  BY DEF DiskInv
<1>1. ASSUME NEW n \in Ticks, OneTick(n), Passes(n)
      PROVE  DiskInv'
  <2>1. n \in Nat
    BY TicksAre
  <2>2. InterruptInv' /\ Items(pending') = {Later(x, n) : x \in Items(pending)}
    BY <1>0, <1>1, <2>1, OneTickStep, SMTT(60)
  <2> QED BY <1>1, <2>1, <2>2, TimePasses DEF Works
<1>2. ASSUME Idle, UNCHANGED <<totalTicks, lastTrack, bufferInit>>
      PROVE  DiskInv'
  <2>1. InterruptInv'
    BY <1>0, <1>2, IdleStep
  <2>2. UNCHANGED <<pending, active, totalTicks, lastTrack, bufferInit>>
    BY <1>2 DEF Idle, Works
  <2>3. Pending(disk)' <=> Pending(disk)
    BY <2>2, PendingIs
  <2> QED BY <2>1, <2>2, <2>3, DiskInvIs
<1> QED BY <1>1, <1>2 DEF Works

LEMMA CheckIfDueStep ==
  ASSUME DiskInv, CheckIfDue
  PROVE  DiskInv'
<1>0. /\ InterruptInv /\ active \in BOOLEAN /\ totalTicks \in Nat /\ bufferInit \in Nat
      /\ (active <=> Pending(disk)) /\ Arrives(Items(pending), active, totalTicks, bufferInit)
  BY DiskInvIs
<1>1. PICK n \in Nat : n = Advance /\ Passes(n)
  BY <1>0, ClockedIs DEF CheckIfDue
<1>2. Items(Clocked) = {Later(x, n) : x \in Items(pending)}
  BY <1>0, <1>1, ClockedIs
<1>3. ASSUME NotDue, UNCHANGED active
      PROVE  DiskInv'
  BY <1>0, <1>1, <1>2, <1>3, NotDueStep, TimePasses, Zenon
<1>4. ASSUME NEW delay \in Delays, Fire(delay), HandleInterrupt
      PROVE  DiskInv'
  <2>1. /\ InterruptInv'
        /\ Head(Clocked) \in Items(Clocked) /\ Head(Clocked).left <= 0
        /\ \A x \in Items(pending') : \/ x \in Items(Clocked) /\ x.source # Head(Clocked).source
                                      \/ x.source = Head(Clocked).source /\ x.source \notin Devices
        /\ \A x \in Items(Clocked) : x.source # Head(Clocked).source => x \in Items(pending')
    BY <1>0, <1>4, DelaysAre, FireStep, Zenon
  <2>2. PICK h : h = Head(Clocked)
    OBVIOUS
  <2>3. disk \in Devices
    BY SourcesAre
  <2>4. /\ totalTicks' \in Nat /\ bufferInit' \in Nat /\ lastTrack' \in Nat
        /\ bufferInit' % RotationTime = 0
        /\ bufferInit <= totalTicks + n => bufferInit' <= totalTicks'
        /\ \A l \in Int : bufferInit <= totalTicks + l =>
                            bufferInit' <= totalTicks' \/ bufferInit' <= totalTicks' + (l - n)
    BY <1>1, PassesStep
  <2>5. active' = (active /\ h.source # disk)
    BY <1>4, <2>2 DEF HandleInterrupt
  \* The interrupts of the disk before the step, by the new clock.
  <2>6. ASSUME NEW x \in Items(Clocked)
        PROVE  \E y \in Items(pending) :
                 y.source = x.source /\ y.left \in Int /\ x.left = y.left - n
    <3>1. PICK y \in Items(pending) : x = Later(y, n)
      BY <1>2
    <3>2. y.left \in Int
      BY <1>0, InterruptInvIs, ItemIsInterrupt
    <3> QED BY <3>1, <3>2 DEF Later
  <2>7. Pending(disk) <=> \E x \in Items(Clocked) : x.source = disk
    <3>1. \A x \in Items(pending) : Later(x, n) \in Items(Clocked) /\ Later(x, n).source = x.source
      BY <1>2, Zenon DEF Later
    <3> QED BY <2>6, <3>1, PendingIs
  <2>8. Pending(disk)' <=> Pending(disk) /\ h.source # disk
    BY <2>1, <2>2, <2>3, <2>7, PendingIs, Zenon
  <2>9. ASSUME NEW x \in Items(Clocked), x.source = disk
        PROVE  bufferInit' <= totalTicks' \/ bufferInit' <= totalTicks' + x.left
    <3>1. PICK y \in Items(pending) : y.source = x.source /\ y.left \in Int /\ x.left = y.left - n
      BY <2>6
    <3>2. bufferInit <= totalTicks \/ bufferInit <= totalTicks + y.left
      BY <1>0, <2>9, <3>1 DEF Arrives
    <3>3. CASE bufferInit <= totalTicks
      <4>1. bufferInit <= totalTicks + n
        BY <1>0, <3>3
      <4> QED BY <2>4, <4>1
    <3>4. CASE bufferInit <= totalTicks + y.left
      BY <2>4, <3>1, <3>4, Zenon
    <3> QED BY <3>2, <3>3, <3>4
  <2>10. ~active' => bufferInit' <= totalTicks'
    <3>1. CASE ~active
      <4>1. bufferInit <= totalTicks + n
        BY <1>0, <3>1 DEF Arrives
      <4> QED BY <2>4, <4>1
    <3>2. CASE h.source = disk
      <4>1. h.left \in Int /\ h.left <= 0
        BY <2>1, <2>2, <2>6
      <4>2. bufferInit' <= totalTicks' \/ bufferInit' <= totalTicks' + h.left
        BY <2>1, <2>2, <2>9, <3>2, Zenon
      <4> QED BY <2>4, <4>1, <4>2, SMTT(60)
    <3> QED BY <2>5, <3>1, <3>2, Zenon
  <2>11. Arrives(Items(pending'), active', totalTicks', bufferInit')
    BY <2>1, <2>3, <2>9, <2>10 DEF Arrives
  <2> QED BY <1>0, <2>1, <2>4, <2>5, <2>8, <2>11, DiskInvIs, Zenon
<1> QED BY <1>3, <1>4 DEF CheckIfDue

LEMMA DiskStep ==
  ASSUME DiskInv, [Next]_allVars
  PROVE  DiskInv'
<1>1. CASE Next
  BY <1>1, RequestStep, OthersStep, WorksStep, CheckIfDueStep, Zenon DEF Next
<1>2. CASE UNCHANGED allVars
  <2>1. UNCHANGED <<pending, yieldOnReturn, place, totalTicks, active, lastTrack, bufferInit>>
    BY <1>2, SMTT(60) DEF allVars, vars, diskVars
  <2>2. InterruptInv'
    BY <2>1, InterruptInvIs DEF DiskInv
  <2>3. Pending(disk)' <=> Pending(disk)
    BY <2>1, PendingIs
  <2> QED BY <2>1, <2>2, <2>3, DiskInvIs
<1> QED BY <1>1, <1>2

LEMMA DiskStarts == DiskInit => DiskInv
<1> SUFFICES ASSUME DiskInit PROVE DiskInv
  OBVIOUS
<1>1. pending = <<>> /\ Items(pending) = {} /\ IsList(pending)
  BY DEF DiskInit, Init, Items, IsList, IsSorted, IsSingle
<1>2. InterruptInv
  BY <1>1, InterruptInvIs, Zenon DEF DiskInit, Init, OnTime, Places
<1>3. ~Pending(disk)
  BY <1>1, PendingIs
<1>4. totalTicks = 0 /\ bufferInit = 0 /\ lastTrack = 0 /\ active = FALSE
  BY DEF DiskInit
<1>5. Arrives(Items(pending), active, totalTicks, bufferInit)
  BY <1>1, <1>4 DEF Arrives
<1>6. 0 % RotationTime = 0
  BY DiskConstants, Z3
<1> QED BY <1>2, <1>3, <1>4, <1>5, <1>6, DiskInvIs, Zenon

\* The list of pending interrupts stays sorted, with one interrupt of a source and none
\* overdue while a program runs, Idle halts the machine only when nothing but the timer
\* is pending, the disk is active exactly while its interrupt is pending, and no request
\* meets a head that is still seeking, for any devices, delays and shape of the disk.
THEOREM DiskIsSound == Spec => []DiskInv
<1>1. DiskInv /\ [Next]_allVars => DiskInv'
  BY DiskStep
<1> QED BY <1>1, DiskStarts, PTL DEF Spec

\* What LeavesWhenDue says of a step and a source.
MayLeave(d) ==
  \E k \in DOMAIN pending : /\ d \in Devices /\ pending[k].source = d
                            /\ pending[k].left <= 0 \/ (place = "idle" /\ k = 1)

LEMMA LeaveStep ==
  ASSUME DiskInv, Next, NEW d \in Sources, Pending(d), ~Pending(d)'
  PROVE  MayLeave(d)
<1>0. InterruptInv
  BY DEF DiskInv
<1>1. ASSUME NEW s \in 0 .. NumSectors - 1, NEW writing \in BOOLEAN, Request(s, writing)
      PROVE  FALSE
  <2>1. s \in Nat /\ totalTicks \in Nat /\ lastTrack \in Nat
    BY DEF DiskInv
  <2>2. ComputeLatency(s, writing) \in Nat \ {0}
    BY <2>1, LatencyIs, Zenon
  <2>3. Items(pending') = Items(pending) \cup {PendingInterrupt(disk, ComputeLatency(s, writing))}
    BY <1>0, <1>1, <2>2, ScheduleStep, SourcesAre, Zenon DEF Request, Schedule
  <2> QED BY <2>3, PendingIs
<1>2. CASE Others
  <2>1. PICK c \in Sources, n \in Delays :
          /\ place = "on" /\ ~Pending(c)
          /\ pending' = SortedInsert(pending, PendingInterrupt(c, n))
          /\ UNCHANGED <<yieldOnReturn, place>>
    BY <1>2, SourcesAre, SMTT(60) DEF Others, Start, Schedule
  <2>2. Items(pending') = Items(pending) \cup {PendingInterrupt(c, n)}
    BY <1>0, <2>1, ScheduleStep, DelaysAre
  <2> QED BY <2>2, PendingIs, Zenon
<1>3. PICK x \in Items(pending) : x.source = d
  BY PendingIs
\* Where only time passes, the sources stay.
<1>4. ASSUME NEW n, Items(pending') = {Later(y, n) : y \in Items(pending)} PROVE FALSE
  <2>1. Later(x, n) \in Items(pending') /\ Later(x, n).source = d
    BY <1>3, <1>4 DEF Later
  <2> QED BY <2>1, PendingIs
<1>5. CASE Works
  <2>1. ASSUME NEW n \in Ticks, OneTick(n) PROVE FALSE
    BY <1>0, <1>4, <2>1, OneTickStep, TicksAre, Zenon
  <2>2. CASE Idle
    BY <2>2, PendingIs DEF Idle
  <2> QED BY <1>5, <2>1, <2>2 DEF Works
<1>6. CASE CheckIfDue
  <2>1. Items(Clocked) = {Later(y, Advance) : y \in Items(pending)}
    BY <1>0, ClockedIs
  <2>2. CASE NotDue
    BY <1>0, <1>4, <2>1, <2>2, NotDueStep, Zenon
  <2>3. ASSUME NEW n \in Delays, Fire(n) PROVE MayLeave(d)
    <3>1. /\ Clocked # <<>> /\ Head(Clocked).left <= 0
          /\ \A y \in Items(Clocked) : y.source # Head(Clocked).source => y \in Items(pending')
          /\ Head(Clocked).source \notin Devices =>
               \E y \in Items(pending') : y.source = Head(Clocked).source
      BY <1>0, <2>3, DelaysAre, FireStep, Zenon
    <3>2. Later(x, Advance) \in Items(Clocked) /\ Later(x, Advance).source = d
      BY <1>3, <2>1, Zenon DEF Later
    <3>3. Head(Clocked).source = d /\ d \in Devices
      BY <3>1, <3>2, PendingIs, Zenon
    <3>4. /\ pending # <<>> /\ Head(Clocked) = Later(Head(pending), Advance)
          /\ (place # "idle" => Advance = 0)
      BY <1>0, <3>1, ClockedIs, ZenonT(60)
    <3>5. 1 \in DOMAIN pending /\ Head(pending) = pending[1] /\ Head(pending).left \in Int
      <4>1. pending \in Seq(Interrupts)
        BY <1>0, InterruptInvIs DEF IsList
      <4>2. Len(pending) # 0
        BY <3>4, <4>1, EmptySeq, ZenonT(60)
      <4>3. Len(pending) \in Nat /\ DOMAIN pending = 1 .. Len(pending)
        BY <4>1, ListParts
      <4>4. 1 \in 1 .. Len(pending)
        BY <4>2, <4>3
      <4> QED BY <4>1, <4>3, <4>4, ListParts
    <3>6. pending[1].source = d /\ Head(Clocked).left = pending[1].left - Advance
      BY <3>3, <3>4, <3>5, SMTT(30) DEF Later
    <3>7. place # "idle" => pending[1].left <= 0
      BY <3>1, <3>4, <3>5, <3>6
    <3> QED BY <3>3, <3>5, <3>6, <3>7, Zenon DEF MayLeave
  <2> QED BY <1>6, <2>2, <2>3, Zenon DEF CheckIfDue
<1> QED BY <1>1, <1>2, <1>5, <1>6 DEF Next

\* An interrupt of the timer or of a poll is never lost, and that of a device leaves the
\* list no sooner than it is due, or than Idle advances the clock to it, for any devices
\* and delays.
THEOREM InterruptsLeaveWhenDue == Spec => LeavesWhenDue
<1> DEFINE Leaving == \A d \in Sources :
                        Pending(d) /\ ~Pending(d)' =>
                          \E k \in DOMAIN pending :
                            /\ d \in Devices /\ pending[k].source = d
                            /\ pending[k].left <= 0 \/ (place = "idle" /\ k = 1)
<1>1. DiskInv /\ [Next]_allVars => [Leaving]_vars
  <2> SUFFICES ASSUME DiskInv, [Next]_allVars, ~ UNCHANGED vars PROVE Leaving
    OBVIOUS
  <2>1. Next
    BY DEF allVars
  <2> QED BY <2>1, LeaveStep, Zenon DEF MayLeave
<1>2. Spec => [][Leaving]_vars
  <2> HIDE DEF Leaving
  <2> QED BY <1>1, DiskIsSound, PTL DEF Spec
<1> QED BY <1>2 DEF LeavesWhenDue

-----------------------------------------------------------------------------
(* How long a request takes *)

\* The numbers of the sectors, counted from time 0, that begin at time v or later, up to
\* e, and are sector s of the track.
Round(v, e, s) == {k \in 0 .. e : /\ v <= k * RotationTime
                                  /\ k % SectorsPerTrack = s % SectorsPerTrack}

First(v, e, s) == CHOOSE k \in Round(v, e, s) : \A l \in Round(v, e, s) : k <= l

\* If q is the first sector that begins at time v or later, the first one with number s
\* is ModuloDiff(s, q) further on.
LEMMA FirstIs ==
  ASSUME NEW s \in Nat, NEW v \in Nat, NEW q \in Nat,
         v <= q * RotationTime, q * RotationTime < v + RotationTime,
         NEW e \in Nat, NEW f \in Nat, f = q + ModuloDiff(s, q), f <= e
  PROVE  /\ First(v, e, s) = f
         /\ v <= f * RotationTime
<1>0. PICK T \in Nat \ {0} : T = RotationTime
  BY DiskConstants
<1>1. q <= f /\ f % SectorsPerTrack = s % SectorsPerTrack
  BY ModuloDiffIsNext
<1>2. q * T <= f * T /\ q * T \in Nat /\ f * T \in Nat
  BY <1>1, ProductIsMonotonic
<1>3. v <= f * T
  BY <1>0, <1>2, SMTT(60)
<1>4. f \in Round(v, e, s)
  BY <1>0, <1>1, <1>3, SMTT(60) DEF Round
<1>5. ASSUME NEW k \in Round(v, e, s) PROVE f <= k
  <2>1. k \in Nat /\ v <= k * T /\ k % SectorsPerTrack = s % SectorsPerTrack /\ k * T \in Nat
    BY <1>0 DEF Round
  <2>2. q <= k
    <3> SUFFICES ASSUME k + 1 <= q PROVE FALSE
      BY <2>1
    <3>1. (k + 1) * T <= q * T
      BY <2>1, ProductIsMonotonic, SMTT(60)
    <3>2. (k + 1) * T = k * T + T
      BY <2>1, Z3
    <3> QED BY <1>0, <1>2, <2>1, <3>1, <3>2, SMTT(60)
  <2> QED BY <2>1, <2>2, ModuloDiffIsNext, SMTT(60)
<1>6. PICK g : g = CHOOSE k \in Round(v, e, s) : \A l \in Round(v, e, s) : k <= l
  OBVIOUS
<1>7. g \in Round(v, e, s) /\ \A l \in Round(v, e, s) : g <= l
  BY <1>4, <1>5, <1>6, Zenon
<1>8. g \in Nat /\ g <= f /\ f <= g
  BY <1>4, <1>5, <1>7 DEF Round
<1>9. g = f
  BY <1>8
<1> QED BY <1>0, <1>3, <1>6, <1>9 DEF First

\* If f is that sector, EndsPast is a matter of the end of f.
LEMMA EndsPastIs ==
  ASSUME totalTicks \in Nat, NEW s \in Nat, NEW v \in Nat, NEW q \in Nat,
         v <= q * RotationTime, q * RotationTime < v + RotationTime,
         NEW e \in Nat, NEW f \in Nat, f = q + ModuloDiff(s, q), f <= e,
         e = IF (f + 1) * RotationTime < totalTicks + RotationTime
             THEN totalTicks + RotationTime
             ELSE (f + 1) * RotationTime
  PROVE  EndsPast(v, e, s)
<1>1. PICK g \in Nat : g = e + Revolution /\ f <= g
  BY DiskConstants
<1>2. First(v, g, s) = f
  BY <1>1, FirstIs
<1> QED BY <1>1, <1>2, Zenon DEF EndsPast, First, Round

\* A request that seeks, and a write: when the seek is over and the sector has passed.
LEMMA SeekLatency ==
  ASSUME DiskInv, NEW s \in Nat, NEW writing \in BOOLEAN, writing \/ Seek(s) # 0
  PROVE  EndsPast(totalTicks + Seek(s), totalTicks + ComputeLatency(s, writing), s)
<1>1. totalTicks \in Nat /\ lastTrack \in Nat
  BY DEF DiskInv
<1>2. /\ Seek(s) \in Nat /\ Rotation(s) \in Nat
      /\ TimeAfter(s) = totalTicks + Seek(s) + Rotation(s)
  BY <1>1, LatencyParts
<1>3. PICK T \in Nat \ {0} : T = RotationTime
  BY DiskConstants
<1>4. PICK q \in Nat : /\ TimeAfter(s) = q * T /\ q = TimeAfter(s) \div T
                       /\ totalTicks + Seek(s) <= q * T /\ q * T < totalTicks + Seek(s) + T
  BY <1>1, <1>3, TimeAfterIs, Zenon
<1>5. PICK m \in Nat : m = ModuloDiff(s, q)
  BY ModuloDiffIsNext, DiskConstants, SMTT(30)
<1>6. ComputeLatency(s, writing) = Seek(s) + Rotation(s) + T + m * T
  BY <1>3, <1>4, <1>5 DEF ComputeLatency, InTrackBuffer
<1>7. PICK v \in Nat : v = totalTicks + Seek(s)
  BY <1>1, <1>2
<1>8. q * T \in Nat /\ m * T \in Nat
  BY ProductIsNat
<1>9. PICK f \in Nat : f = q + m
  OBVIOUS
<1>10. (f + 1) * T = q * T + m * T + T
  BY <1>9, Z3T(60)
<1>11. PICK e \in Nat : e = totalTicks + ComputeLatency(s, writing) /\ e = (f + 1) * T
  BY <1>1, <1>2, <1>4, <1>6, <1>8, <1>10, SMTT(60)
<1>12. f <= e
  <2>1. (f + 1) * 1 <= (f + 1) * T
    BY Z3
  <2> QED BY <1>11, <2>1
<1>13. ~ ((f + 1) * T < totalTicks + T)
  BY <1>1, <1>2, <1>4, <1>8, <1>10, SMTT(30)
<1>14. EndsPast(v, e, s)
  BY <1>1, <1>3, <1>4, <1>5, <1>7, <1>9, <1>11, <1>12, <1>13, EndsPastIs, Zenon
<1> QED BY <1>7, <1>11, <1>14

\* A read on the same track: the sectors since the head came there are in the buffer.
LEMMA BufferLatency ==
  ASSUME DiskInv, ~active, NEW s \in Nat, NEW writing \in BOOLEAN,
         ~writing, Seek(s) = 0
  PROVE  EndsPast(bufferInit, totalTicks + ComputeLatency(s, writing), s)
<1>1. /\ totalTicks \in Nat /\ lastTrack \in Nat /\ bufferInit \in Nat
      /\ bufferInit <= totalTicks /\ bufferInit % RotationTime = 0
  BY DiskInvIs DEF Arrives
<1>2. /\ Seek(s) \in Nat /\ Rotation(s) \in Nat
      /\ TimeAfter(s) = totalTicks + Seek(s) + Rotation(s)
  BY <1>1, LatencyParts
<1>3. PICK T \in Nat \ {0} : T = RotationTime
  BY DiskConstants, Zenon
<1>4. PICK q \in Nat : /\ TimeAfter(s) = q * T /\ q = TimeAfter(s) \div T
                       /\ totalTicks + Seek(s) <= q * T /\ q * T < totalTicks + Seek(s) + T
  BY <1>1, <1>3, TimeAfterIs, Zenon
<1>5. PICK w \in Nat : bufferInit = w * T
  BY <1>1, <1>3, MultipleIs, Zenon
<1>6. q * T \in Nat /\ w * T \in Nat
  BY ProductIsNat
<1>7. w <= q
  <2>1. w * T <= q * T
    BY <1>1, <1>2, <1>4, <1>5, <1>6, SMTT(60)
  <2> QED BY <2>1, Z3T(60)
<1>8. PICK d \in Nat : d = q - w /\ q = w + d
  BY <1>7
<1>9. bufferInit \div T = w
  <2>1. (w * T + 0) \div T = w
    BY DivIs
  <2> QED BY <1>5, <1>6, <2>1
<1>10. (TimeAfter(s) - bufferInit) \div T = d
  <2>1. (d * T + 0) \div T = d
    BY DivIs
  <2>2. q * T - w * T = d * T + 0
    BY <1>8, Z3T(60)
  <2> QED BY <1>4, <1>5, <2>1, <2>2, Zenon
<1>11. PICK m \in Nat : m = ModuloDiff(s, w)
  BY ModuloDiffIsNext, DiskConstants
<1>12. PICK f \in Nat : f = w + m
  OBVIOUS
<1>13. /\ f % SectorsPerTrack = s % SectorsPerTrack
       /\ \A k \in Nat : w <= k /\ k % SectorsPerTrack = s % SectorsPerTrack => f <= k
  BY <1>11, <1>12, ModuloDiffIsNext, SMTT(60)
<1>14. InTrackBuffer(s, writing) <=> f + 1 <= q
  <2>1. InTrackBuffer(s, writing) <=> d > m
    BY <1>3, <1>9, <1>10, <1>11, Zenon DEF InTrackBuffer
  <2> QED BY <1>8, <1>12, <2>1
<1>15. w * T < w * T + T
  BY <1>6
<1>16. ASSUME NEW e \in Nat, f <= e,
              e = IF (f + 1) * T < totalTicks + T THEN totalTicks + T ELSE (f + 1) * T
       PROVE  EndsPast(bufferInit, e, s)
  <2>1. bufferInit <= w * RotationTime /\ w * RotationTime < bufferInit + RotationTime
    BY <1>3, <1>5, <1>6, <1>15, SMTT(60)
  <2>2. f = w + ModuloDiff(s, w)
    BY <1>11, <1>12
  <2>3. e = IF (f + 1) * RotationTime < totalTicks + RotationTime
            THEN totalTicks + RotationTime
            ELSE (f + 1) * RotationTime
    BY <1>3, <1>16, SMTT(60)
  <2> QED BY <1>1, <1>16, <2>1, <2>2, <2>3, EndsPastIs, Zenon
<1>17. CASE InTrackBuffer(s, writing)
  <2>1. ComputeLatency(s, writing) = T
    BY <1>3, <1>17 DEF ComputeLatency
  <2>2. PICK e \in Nat : e = totalTicks + T /\ e = totalTicks + ComputeLatency(s, writing)
    BY <1>1, <2>1, SMTT(60)
  <2>3. (f + 1) * T <= q * T /\ (f + 1) * T \in Nat
    BY <1>14, <1>17, ProductIsMonotonic, ProductIsNat, SMTT(60)
  <2>4. (f + 1) * 1 <= (f + 1) * T
    BY Z3T(60)
  <2>5. f <= e /\ (f + 1) * T < totalTicks + T
    BY <1>1, <1>2, <1>4, <1>6, <2>2, <2>3, <2>4, SMTT(30)
  <2>6. EndsPast(bufferInit, e, s)
    BY <1>16, <2>2, <2>5, Zenon
  <2> QED BY <2>2, <2>6
<1>18. CASE ~InTrackBuffer(s, writing)
  <2>1. q <= f
    BY <1>14, <1>18, SMTT(30)
  <2>2. PICK n \in Nat : n = ModuloDiff(s, q)
    BY ModuloDiffIsNext, DiskConstants, SMTT(30)
  <2>3. f = q + n
    <3>1. q + n <= f
      BY <1>13, <2>1, <2>2, ModuloDiffIsNext, Zenon
    <3>2. (q + n) % SectorsPerTrack = s % SectorsPerTrack
      BY <2>2, ModuloDiffIsNext, Zenon
    <3>3. w <= q + n /\ q + n \in Nat
      BY <1>7
    <3>4. f <= q + n
      BY <1>13, <3>2, <3>3, Zenon
    <3> QED BY <3>1, <3>4
  <2>4. ComputeLatency(s, writing) = Seek(s) + Rotation(s) + T + n * T
    BY <1>3, <1>4, <1>18, <2>2, Zenon DEF ComputeLatency
  <2>5. (f + 1) * T = q * T + n * T + T
    BY <2>3, Z3
  <2>6. n * T \in Nat
    BY ProductIsNat, Zenon
  <2>7. PICK e \in Nat : e = totalTicks + ComputeLatency(s, writing) /\ e = (f + 1) * T
    BY <1>1, <1>2, <1>4, <1>6, <2>4, <2>5, <2>6, SMTT(30)
  <2>8. (f + 1) * 1 <= (f + 1) * T
    BY Z3T(60)
  <2>9. f <= e /\ ~ ((f + 1) * T < totalTicks + T)
    BY <1>1, <1>2, <1>4, <1>6, <2>5, <2>6, <2>7, <2>8, SMTT(30)
  <2>10. EndsPast(bufferInit, e, s)
    BY <1>16, <2>7, <2>9, ZenonT(60)
  <2> QED BY <2>7, <2>10
<1> QED BY <1>17, <1>18, Zenon

\* The step of EndsPastSector.
LEMMA EndsPastStep ==
  ASSUME DiskInv, NEW s \in 0 .. NumSectors - 1, NEW writing \in BOOLEAN, Request(s, writing)
  PROVE  EndsPast(IF writing \/ Seek(s) # 0 THEN totalTicks + Seek(s) ELSE bufferInit,
                  totalTicks + (CHOOSE p \in Items(pending') : p.source = disk).left, s)
<1>1. s \in Nat /\ InterruptInv /\ totalTicks \in Nat /\ lastTrack \in Nat
  BY DEF DiskInv
<1>2. ~active /\ ~Pending(disk)
  BY DEF DiskInv, Request
<1>3. PICK n \in Nat \ {0} : n = ComputeLatency(s, writing)
  BY <1>1, LatencyIs, Zenon
<1>4. Items(pending') = Items(pending) \cup {PendingInterrupt(disk, n)}
  BY <1>1, <1>2, <1>3, ScheduleStep, SourcesAre, Zenon DEF Request, Schedule
<1>5. PICK e : e = PendingInterrupt(disk, n) /\ e.source = disk /\ e.left = n
  BY SourcesAre, PendingInterruptIs
<1>6. ASSUME NEW x \in Items(pending'), x.source = disk PROVE x = e
  BY <1>2, <1>4, <1>5, <1>6, PendingIs, Zenon
<1>7. (CHOOSE p \in Items(pending') : p.source = disk) = e
  <2>1. e \in Items(pending') /\ e.source = disk
    BY <1>4, <1>5
  <2> QED BY <1>6, <2>1, Zenon
<1>8. totalTicks + (CHOOSE p \in Items(pending') : p.source = disk).left
        = totalTicks + ComputeLatency(s, writing)
  BY <1>3, <1>5, <1>7, Zenon
<1>9. CASE writing \/ Seek(s) # 0
  <2>1. EndsPast(totalTicks + Seek(s), totalTicks + ComputeLatency(s, writing), s)
    BY <1>1, <1>9, SeekLatency
  <2> QED BY <1>8, <1>9, <2>1, SMTT(60)
<1>10. CASE ~writing /\ Seek(s) = 0
  <2>1. EndsPast(bufferInit, totalTicks + ComputeLatency(s, writing), s)
    BY <1>1, <1>2, <1>10, BufferLatency, SMTT(60)
  <2> QED BY <1>8, <1>10, <2>1, Zenon
<1> QED BY <1>9, <1>10

\* A request ends when the head has rotated completely past its sector for the first time
\* since a write's own seek, or since the head came to the track of a read, and not
\* before the transfer is done: what the comments of ComputeLatency promise is what its
\* arithmetic gives, for every size of a track and every speed of the disk.
THEOREM RequestsEndPastSector == Spec => EndsPastSector
<1> DEFINE Ending ==
             \A s \in 0 .. NumSectors - 1, writing \in BOOLEAN :
               Request(s, writing) =>
                 EndsPast(IF writing \/ Seek(s) # 0 THEN totalTicks + Seek(s) ELSE bufferInit,
                          totalTicks + (CHOOSE p \in {pending'[k] : k \in DOMAIN pending'} :
                                          p.source = disk).left,
                          s)
<1>1. DiskInv => [Ending]_allVars
  BY EndsPastStep, Zenon DEF Items
<1>2. Spec => [][Ending]_allVars
  <2> HIDE DEF Ending
  <2> QED BY <1>1, DiskIsSound, PTL
<1> QED BY <1>2, Zenon DEF EndsPastSector

-----------------------------------------------------------------------------
(* SynchDisk, which turns the requests of the disk into calls *)

\* The initial states satisfy the invariant.
LEMMA DriverStarts ==
  ASSUME SynchDiskInit
  PROVE  SynchDiskInv
<1> USE SynchDiskAssumption
<1>1. TypeOK /\ HolderIsInside /\ OwnCompletion /\ WaiterSeesSector /\ ReturnsTheSector
  BY Zenon DEF SynchDiskInit, L!Init, TypeOK, HolderIsInside, OwnCompletion,
       WaiterSeesSector, ReturnsTheSector
<1>2. ~ \E t \in Threads : pc[t] = "wait"
  BY DEF SynchDiskInit
<1>3. OneCompletion
  BY <1>2 DEF SynchDiskInit, OneCompletion
<1> QED
  BY <1>1, <1>3, Zenon DEF SynchDiskInv

\* A step of a thread or of the disk keeps it.
LEMMA DriverStep ==
  ASSUME SynchDiskInv, [SynchDiskNext]_synchDiskVars
  PROVE  SynchDiskInv'
<1> USE SynchDiskAssumption
<1>1. ASSUME NEW t \in Threads, NEW c \in Calls, NEW d \in Data, Call(t, c, d)
      PROVE  SynchDiskInv'
  BY <1>1, ZenonT(60) DEF Call, Goto, SynchDiskInv, TypeOK, HolderIsInside, OneCompletion,
       OwnCompletion, WaiterSeesSector, ReturnsTheSector
<1>2. ASSUME NEW t \in Threads, Acquire(t)
      PROVE  SynchDiskInv'
  BY <1>2 DEF Acquire, L!Acquire, Goto, SynchDiskInv, TypeOK, HolderIsInside,
       OneCompletion, OwnCompletion, WaiterSeesSector, ReturnsTheSector
<1>3. ASSUME NEW t \in Threads, DiskRequest(t)
      PROVE  SynchDiskInv'
  <2>1. TypeOK'
    BY <1>3, SMTT(30) DEF DiskRequest, Goto, SynchDiskInv, TypeOK, Calls
  <2>2. holder = t /\ \A u \in Threads : pc[u] \in {"request", "wait", "release"} => u = t
    BY <1>3, ZenonT(60) DEF DiskRequest, SynchDiskInv, HolderIsInside
  <2>3. HolderIsInside' /\ OwnCompletion' /\ WaiterSeesSector' /\ ReturnsTheSector'
    BY <1>3, <2>2, SMTT(30) DEF DiskRequest, Goto, SynchDiskInv, TypeOK, Calls, HolderIsInside,
         OwnCompletion, WaiterSeesSector, ReturnsTheSector
  <2>4. scheduled = 0 /\ semaphore = 0
    BY <1>3, <2>2, SMTT(30) DEF DiskRequest, SynchDiskInv, TypeOK, OneCompletion
  <2>5. pc'[t] = "wait"
    BY <1>3, Zenon DEF DiskRequest, Goto, SynchDiskInv, TypeOK
  <2>6. OneCompletion'
    BY <1>3, <2>4, <2>5, SMTT(60) DEF DiskRequest, OneCompletion
  <2> QED
    BY <2>1, <2>3, <2>6, Zenon DEF SynchDiskInv
<1>4. ASSUME NEW t \in Threads, Wait(t)
      PROVE  SynchDiskInv'
  <2>1. TypeOK' /\ HolderIsInside' /\ OwnCompletion' /\ WaiterSeesSector'
    BY <1>4 DEF Wait, Goto, SynchDiskInv, TypeOK, HolderIsInside, OwnCompletion,
         WaiterSeesSector
  <2>2. \A u \in Threads : pc[u] = "wait" => u = t
    BY <1>4 DEF Wait, SynchDiskInv, HolderIsInside
  <2>3. ~ \E u \in Threads : pc'[u] = "wait"
    BY <1>4, <2>2, Zenon DEF Wait, Goto, SynchDiskInv, TypeOK
  <2>4. semaphore = 1 /\ scheduled = 0 /\ ~diskActive
    BY <1>4, SMTT(30) DEF Wait, SynchDiskInv, OneCompletion, TypeOK
  <2>5. OneCompletion'
    BY <1>4, <2>3, <2>4, SMTT(30) DEF Wait, OneCompletion
  <2>6. ReturnsTheSector'
    BY <1>4, <2>2, <2>4, Zenon DEF Wait, Goto, SynchDiskInv, TypeOK, HolderIsInside,
         WaiterSeesSector, ReturnsTheSector
  <2> QED
    BY <2>1, <2>5, <2>6, ZenonT(60) DEF SynchDiskInv
<1>5. ASSUME NEW t \in Threads, Release(t)
      PROVE  SynchDiskInv'
  <2>1. TypeOK' /\ HolderIsInside' /\ OwnCompletion' /\ WaiterSeesSector'
          /\ ReturnsTheSector'
    BY <1>5, ZenonT(60) DEF Release, L!Release, Goto, SynchDiskInv, TypeOK, HolderIsInside,
         OwnCompletion, WaiterSeesSector, ReturnsTheSector
  <2>2. (\E u \in Threads : pc'[u] = "wait") <=> (\E u \in Threads : pc[u] = "wait")
    BY <1>5, Zenon DEF Release, Goto, SynchDiskInv, TypeOK
  <2>3. OneCompletion'
    BY <1>5, <2>2 DEF Release, SynchDiskInv, OneCompletion
  <2> QED
    BY <2>1, <2>3, Zenon DEF SynchDiskInv
<1>6. CASE RequestDone
  <2>1. HolderIsInside' /\ OwnCompletion' /\ WaiterSeesSector' /\ ReturnsTheSector'
    BY <1>6 DEF RequestDone, SynchDiskInv, HolderIsInside, OwnCompletion,
         WaiterSeesSector, ReturnsTheSector
  <2>4. TypeOK'
    <3>1. semaphore \in Nat /\ scheduled \in Nat
      BY DEF SynchDiskInv, TypeOK
    <3>2. semaphore' \in Nat /\ scheduled' \in Nat
      BY <1>6, <3>1, SMTT(60) DEF RequestDone
    <3> QED
      BY <1>6, <3>2, Zenon DEF RequestDone, SynchDiskInv, TypeOK
  <2>2. (\E u \in Threads : pc[u] = "wait") /\ scheduled = 1 /\ semaphore = 0
    BY <1>6 DEF RequestDone, SynchDiskInv, TypeOK, OneCompletion
  <2>3. OneCompletion'
    BY <1>6, <2>2, SMTT(30) DEF RequestDone, OneCompletion
  <2> QED
    BY <2>1, <2>3, <2>4, SMTT(30) DEF SynchDiskInv
<1>7. CASE UNCHANGED synchDiskVars
  BY <1>7 DEF synchDiskVars, SynchDiskInv, TypeOK, HolderIsInside, OneCompletion,
       OwnCompletion, WaiterSeesSector, ReturnsTheSector
<1> QED
  BY <1>1, <1>2, <1>3, <1>4, <1>5, <1>6, <1>7, SMTT(60) DEF SynchDiskNext, Step

\* While the lock serialises ReadSector and WriteSector there is one request, and
\* one interrupt or one unit of the semaphore for it.
THEOREM SynchDiskIsInvariant == SynchDiskSpec => []SynchDiskInv
<1>1. SynchDiskInit => SynchDiskInv
  BY DriverStarts
<1>2. SynchDiskInv /\ [SynchDiskNext]_synchDiskVars => SynchDiskInv'
  BY DriverStep
<1> QED
  BY <1>1, <1>2, PTL DEF SynchDiskSpec

\* The ASSERT(!active) of Disk::ReadRequest and Disk::WriteRequest never fails.
THEOREM DiskIsIdleWhenAsked == SynchDiskSpec => []DiskIsIdle
<1>1. SynchDiskInv => DiskIsIdle
  BY DEF SynchDiskInv, TypeOK, HolderIsInside, OneCompletion, DiskIsIdle
<1> QED
  BY <1>1, SynchDiskIsInvariant, PTL

\* ReadSector and WriteSector return when the sector has been read or written.
THEOREM SectorIsTransferred == SynchDiskSpec => []ReturnsTheSector
<1>1. SynchDiskInv => ReturnsTheSector
  BY DEF SynchDiskInv
<1> QED
  BY <1>1, SynchDiskIsInvariant, PTL
==============================================================================
