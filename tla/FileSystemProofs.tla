-------------------------- MODULE FileSystemProofs --------------------------
(***************************************************************************)
(* Proofs about FileSystem, for one caller at a time (filesys.cc: "there   *)
(* is no synchronization for concurrent accesses").                        *)
(***************************************************************************)
EXTENDS FileSystem, FiniteSetTheorems, TLAPS

-----------------------------------------------------------------------------
(* The bitmap *)

\* Every bit has a place of its own in the array of words.
LEMMA PlaceOfBit ==
  ASSUME NEW i \in BM!Bits
  PROVE  /\ i \div BitsInWord \in 0 .. BM!numWords - 1
         /\ i % BitsInWord \in 0 .. BitsInWord - 1
         /\ i = (i \div BitsInWord) * BitsInWord + (i % BitsInWord)
<1>1. /\ BitsInWord \in Nat \ {0} /\ NumSectors \in Nat \ {0}
      /\ i \in Nat /\ i < NumSectors
  BY FileSystemAssumption DEF BM!Bits
<1>2. /\ i % BitsInWord \in 0 .. BitsInWord - 1
      /\ i = (i \div BitsInWord) * BitsInWord + (i % BitsInWord)
      /\ i \div BitsInWord \in Nat
  BY <1>1, Z3
<1>3. i \div BitsInWord < (NumSectors + BitsInWord - 1) \div BitsInWord
  BY <1>1, Z3
<1> QED
  BY <1>1, <1>2, <1>3 DEF BM!numWords

\* Two bits with the same place are the same bit.
LEMMA PlacesDiffer ==
  ASSUME NEW i \in BM!Bits, NEW k \in BM!Bits,
         i \div BitsInWord = k \div BitsInWord, i % BitsInWord = k % BitsInWord
  PROVE  i = k
  BY PlaceOfBit

\* Mark sets its bit and no other.
LEMMA MarkSets ==
  ASSUME NEW m \in BM!BitMaps, NEW i \in BM!Bits
  PROVE  /\ BM!Mark(m, i) \in BM!BitMaps
         /\ BM!Marked(BM!Mark(m, i)) = BM!Marked(m) \cup {i}
<1>1. BM!Mark(m, i) \in BM!BitMaps
  BY PlaceOfBit DEF BM!Mark, BM!BitMaps
<1>2. ASSUME NEW k \in BM!Bits
      PROVE  BM!Test(BM!Mark(m, i), k) <=> k = i \/ BM!Test(m, k)
  BY PlaceOfBit, PlacesDiffer, Zenon DEF BM!Mark, BM!Test, BM!BitMaps
<1> QED
  BY <1>1, <1>2 DEF BM!Marked

\* Clear clears its bit and no other.
LEMMA ClearClears ==
  ASSUME NEW m \in BM!BitMaps, NEW i \in BM!Bits
  PROVE  /\ BM!Clear(m, i) \in BM!BitMaps
         /\ BM!Marked(BM!Clear(m, i)) = BM!Marked(m) \ {i}
<1>1. BM!Clear(m, i) \in BM!BitMaps
  BY PlaceOfBit DEF BM!Clear, BM!BitMaps
<1>2. ASSUME NEW k \in BM!Bits
      PROVE  BM!Test(BM!Clear(m, i), k) <=> k # i /\ BM!Test(m, k)
  BY PlaceOfBit, PlacesDiffer, Zenon DEF BM!Clear, BM!Test, BM!BitMaps
<1> QED
  BY <1>1, <1>2 DEF BM!Marked

\* The loop of Allocate sets the bits of a set and no other.
LEMMA MarkAllSets ==
  ASSUME NEW m \in BM!BitMaps, NEW S \in SUBSET BM!Bits
  PROVE  /\ BM!MarkAll(m, S) \in BM!BitMaps
         /\ BM!Marked(BM!MarkAll(m, S)) = BM!Marked(m) \cup S
<1>1. BM!MarkAll(m, S) \in BM!BitMaps
  BY DEF BM!MarkAll, BM!BitMaps
<1>2. ASSUME NEW k \in BM!Bits
      PROVE  BM!Test(BM!MarkAll(m, S), k) <=> k \in S \/ BM!Test(m, k)
  BY PlaceOfBit, Zenon DEF BM!MarkAll, BM!Test, BM!BitMaps
<1> QED
  BY <1>1, <1>2 DEF BM!Marked

\* The loop of Deallocate clears the bits of a set and no other.
LEMMA ClearAllClears ==
  ASSUME NEW m \in BM!BitMaps, NEW S \in SUBSET BM!Bits
  PROVE  /\ BM!ClearAll(m, S) \in BM!BitMaps
         /\ BM!Marked(BM!ClearAll(m, S)) = BM!Marked(m) \ S
<1>1. BM!ClearAll(m, S) \in BM!BitMaps
  BY DEF BM!ClearAll, BM!BitMaps
<1>2. ASSUME NEW k \in BM!Bits
      PROVE  BM!Test(BM!ClearAll(m, S), k) <=> k \notin S /\ BM!Test(m, k)
  BY PlaceOfBit, Zenon DEF BM!ClearAll, BM!Test, BM!BitMaps
<1> QED
  BY <1>1, <1>2 DEF BM!Marked

-----------------------------------------------------------------------------
(* The loop of FileHeader::Allocate *)

\* Before the loop nothing is found or marked.
LEMMA LoopBegins ==
  ASSUME NEW m \in BM!BitMaps
  PROVE  FirstClear(m, 0, {}) /\ BM!MarkAll(m, {}) = m
<1>1. FirstClear(m, 0, {})
  BY FS_EmptySet DEF FirstClear
<1>2. BM!MarkAll(m, {}) = m
  BY Zenon DEF BM!MarkAll, BM!BitMaps
<1> QED
  BY <1>1, <1>2

\* A turn of the loop calls Find on the map as the turns before have left it: FirstClear
\* and MarkAll say what the whole loop of FileHeader::Allocate finds and leaves.
LEMMA LoopContinues ==
  ASSUME NEW m \in BM!BitMaps, NEW n \in Nat, NEW data, NEW i \in AllSectors,
         FirstClear(m, n, data), BM!Finds(BM!MarkAll(m, data), i)
  PROVE  /\ FirstClear(m, n + 1, data \cup {i})
         /\ BM!MarkAll(m, data \cup {i}) = BM!Mark(BM!MarkAll(m, data), i)
<1>1. /\ AllSectors = BM!Bits /\ NumSectors \in Nat /\ data \in SUBSET BM!Bits
  BY FileSystemAssumption DEF AllSectors, BM!Bits, FirstClear
<1>2. BM!Marked(BM!MarkAll(m, data)) = BM!Marked(m) \cup data
  BY <1>1, MarkAllSets
<1>3. /\ i \notin BM!Marked(m) \cup data
      /\ \A k \in AllSectors : k < i => k \in BM!Marked(m) \cup data
  <2>1. /\ i \notin BM!Marked(BM!MarkAll(m, data))
        /\ \A k \in AllSectors : k < i => k \in BM!Marked(BM!MarkAll(m, data))
    BY <1>1 DEF BM!Finds, BM!Marked, AllSectors
  <2> QED
    BY <1>2, <2>1
<1>4. FirstClear(m, n + 1, data \cup {i})
  <2>1. Cardinality(data \cup {i}) = n + 1
    <3>1. IsFiniteSet(data)
      <4>1. IsFiniteSet(AllSectors)
        BY FileSystemAssumption, FS_Interval DEF AllSectors
      <4> QED
        BY <1>1, <4>1, FS_Subset
    <3> QED
      BY <1>3, <3>1, FS_AddElement, Zenon DEF FirstClear
  <2>2. \A s \in data \cup {i}, t \in AllSectors \ (BM!Marked(m) \cup data \cup {i}) : s < t
    BY <1>1, <1>3 DEF FirstClear, AllSectors
  <2> QED
    BY <1>1, <1>3, <2>1, <2>2 DEF FirstClear
<1>5. BM!MarkAll(m, data \cup {i}) = BM!Mark(BM!MarkAll(m, data), i)
  <2>1. ASSUME NEW w \in 0 .. BM!numWords - 1, NEW b \in 0 .. BitsInWord - 1
        PROVE  w * BitsInWord + b = i <=> w = i \div BitsInWord /\ b = i % BitsInWord
    <3>1. BitsInWord \in Nat \ {0} /\ i \in Nat
      BY <1>1, FileSystemAssumption DEF AllSectors
    <3>2. w \in Nat /\ b \in Nat /\ b < BitsInWord
      BY <3>1
    <3>3. (w * BitsInWord + b) \div BitsInWord = w /\ (w * BitsInWord + b) % BitsInWord = b
      BY <3>1, <3>2, Z3
    <3> QED
      BY <1>1, <3>3, PlaceOfBit
  <2> QED
    BY <1>1, <2>1, PlaceOfBit, ZenonT(30) DEF BM!MarkAll, BM!Mark, BM!BitMaps
<1> QED
  BY <1>4, <1>5

-----------------------------------------------------------------------------
(* The disk *)

LEMMA BitsAreSectors == BM!Bits = AllSectors
  BY DEF BM!Bits, AllSectors

\* The sectors in use, one by one.
LEMMA UsedIs ==
  \A s : s \in Used <=> s \in SystemSectors \/ \E i \in InUse : s \in Owned(i)
  BY DEF Used

\* Files that stay in the directory and keep their sectors use the same sectors.
LEMMA UsedIsKept ==
  ASSUME InUse' = InUse, \A i \in InUse : Owned(i)' = Owned(i)
  PROVE  Used' = Used
<1>1. {Owned(i) : i \in InUse}' = {Owned(i) : i \in InUse}
  OBVIOUS
<1> QED
  BY <1>1 DEF Used

\* A step that writes neither the directory nor a header leaves every file as it is.
LEMMA DiskIsKept ==
  ASSUME UNCHANGED <<directory, header>>
  PROVE  /\ InUse' = InUse
         /\ Used' = Used
         /\ \A i : Owned(i)' = Owned(i)
         /\ NamesAreUnique => NamesAreUnique'
         /\ FilesAreDisjoint => FilesAreDisjoint'
<1>1. InUse' = InUse /\ \A i : Owned(i)' = Owned(i)
  BY DEF InUse, Owned
<1>2. Used' = Used
  BY <1>1, UsedIsKept
<1>3. NamesAreUnique => NamesAreUnique'
  BY <1>1 DEF NamesAreUnique
<1>4. FilesAreDisjoint => FilesAreDisjoint'
  BY <1>1 DEF FilesAreDisjoint
<1> QED
  BY <1>1, <1>2, <1>3, <1>4

\* Remove has read the header of its file, whose sectors are marked.
LEMMA RemoveFindsMarked ==
  ASSUME NEW c, Clients = {c}, TypeOK, Progress(c)
  PROVE  DeallocateFindsMarked
<1> SUFFICES ASSUME pc[c] = "fetchMap", call[c].op = "Remove"
             PROVE  CanDeallocate(freeMap, hdr[c])
  BY DEF DeallocateFindsMarked
<1>1. Found(c) /\ hdr[c] = header[sector[c]]
  BY DEF Progress
<1>2. PICK i \in InUse : sector[c] = directory[i].sector
  BY <1>1 DEF Found, InHand
<1>3. hdr[c].data \subseteq BM!Marked(freeMap)
  BY <1>1, <1>2, UsedIs DEF Found, Owned
<1> QED
  BY <1>3 DEF CanDeallocate, BM!Marked

\* FileSystemInv for the one client c, without what follows from the rest.
Consistent(c) == TypeOK /\ NamesAreUnique /\ FilesAreDisjoint /\ Progress(c)

LEMMA ConsistentIsInv ==
  ASSUME NEW c, Clients = {c}
  PROVE  Consistent(c) <=> FileSystemInv
  BY RemoveFindsMarked DEF Consistent, FileSystemInv

LEMMA InitIsConsistent ==
  ASSUME NEW c, Clients = {c}, Init
  PROVE  Consistent(c)
<1>1. PICK m \in BM!NewBitMap : freeMap = BM!MarkAll(m, SystemSectors)
  BY DEF Init
<1>2. m \in BM!BitMaps /\ BM!Marked(m) = {} /\ SystemSectors \in SUBSET BM!Bits
  BY BitsAreSectors, FileSystemAssumption DEF BM!NewBitMap, BM!Marked
<1>3. freeMap \in BM!BitMaps /\ BM!Marked(freeMap) = SystemSectors
  BY <1>1, <1>2, MarkAllSets
<1>4. PICK name \in Names : directory = EmptyDirectory(name)
  BY DEF Init
<1>5. 0 \in AllSectors
  BY FileSystemAssumption DEF AllSectors
<1>6. directory \in Directories /\ InUse = {}
  BY <1>4, <1>5 DEF EmptyDirectory, Directories, InUse
<1>7. TypeOK
  <2>1. NoHeader \in Headers
    BY DEF NoHeader, Headers
  <2>2. call \in [Clients -> Calls]
    BY DEF Init, Calls
  <2> QED
    BY <1>3, <1>5, <1>6, <2>1, <2>2 DEF Init, TypeOK, Places
<1>8. NamesAreUnique /\ FilesAreDisjoint
  BY <1>6 DEF NamesAreUnique, FilesAreDisjoint
<1>9. Progress(c)
  BY <1>3, <1>6, UsedIs, Zenon DEF Progress, Init
<1> QED
  BY <1>7, <1>8, <1>9 DEF Consistent

-----------------------------------------------------------------------------
(* The steps of an operation *)

LEMMA SizesAreNat == Sizes \subseteq Nat
<1>1. NumDirect \in Nat /\ SectorSize \in Nat
  BY FileSystemAssumption
<1>2. PICK n : n = NumDirect * SectorSize
  OBVIOUS
<1>3. n \in Nat
  BY <1>1, <1>2
<1>4. Sizes \subseteq 0 .. n
  BY ONLY <1>2, FileSystemAssumption, Zenon
<1>5. 0 .. n \subseteq Nat
  BY <1>3
<1> QED
  BY <1>4, <1>5, Zenon

LEMMA CallStep ==
  ASSUME NEW c, Clients = {c}, Consistent(c),
         NEW op, NEW name, NEW size, [op |-> op, name |-> name, size |-> size] \in Calls,
         Call(c, op, name, size)
  PROVE  Consistent(c)'
<1>1. UNCHANGED <<freeMap, directory, header, dir, map, hdr, sector>>
  BY DEF Call, disk
<1>2. TypeOK'
  BY <1>1 DEF Consistent, TypeOK, Call, Goto, Places
<1>3. Progress(c)'
  <2>1. BM!Marked(freeMap) = Used
    BY DEF Call, Consistent, Progress
  <2>2. pc'[c] = "fetchDirectory"
    BY DEF Call, Goto, Consistent, TypeOK
  <2> QED
    BY <1>1, <2>1, <2>2, DiskIsKept, SMTT(60) DEF Progress
<1> QED
  BY <1>1, <1>2, <1>3, DiskIsKept DEF Consistent

LEMMA FetchDirectoryStep ==
  ASSUME NEW c, Clients = {c}, Consistent(c), FetchDirectory(c)
  PROVE  Consistent(c)'
<1>1. UNCHANGED <<freeMap, directory, header, call, map, hdr>>
  BY DEF FetchDirectory, disk
<1>2. /\ c \in Clients /\ dir \in [Clients -> Directories] /\ directory \in Directories
      /\ sector \in [Clients -> AllSectors] /\ pc \in [Clients -> Places]
      /\ call[c] \in Calls
  BY DEF Consistent, TypeOK
<1>3. dir' \in [Clients -> Directories] /\ dir'[c] = directory
  BY <1>2, SMTT(60) DEF FetchDirectory
<1>4. BM!Marked(freeMap) = Used
  BY DEF Consistent, Progress, FetchDirectory
<1>5. CASE call[c].op = "Create" <=> Listed(directory, call[c].name)
  <2>1. Goto(c, "idle") /\ UNCHANGED sector
    BY <1>5 DEF FetchDirectory
  <2>2. pc' \in [Clients -> Places] /\ pc'[c] = "idle"
    BY <1>2, <2>1 DEF Goto, Places
  <2>3. TypeOK'
    BY <1>1, <1>3, <2>1, <2>2, Zenon DEF Consistent, TypeOK
  <2>4. Progress(c)'
    BY <1>1, <1>4, <2>2, DiskIsKept, Zenon DEF Progress
  <2> QED
    BY <1>1, <2>3, <2>4, DiskIsKept, SMTT(60) DEF Consistent
<1>6. CASE call[c].op = "Create" /\ ~Listed(directory, call[c].name)
  <2>1. Goto(c, "fetchMap") /\ UNCHANGED sector
    BY <1>6 DEF FetchDirectory
  <2>2. pc' \in [Clients -> Places] /\ pc'[c] = "fetchMap"
    BY <1>2, <2>1 DEF Goto, Places
  <2>3. TypeOK'
    BY <1>1, <1>3, <2>1, <2>2 DEF Consistent, TypeOK
  <2>4. Lacking(c)'
    BY <1>1, <1>3, <1>4, <1>6, DiskIsKept, Zenon DEF Lacking, Listed
  <2>5. Progress(c)'
    BY <1>1, <1>6, <2>2, <2>4 DEF Progress
  <2> QED
    BY <1>1, <2>3, <2>5, DiskIsKept DEF Consistent
<1>7. CASE call[c].op # "Create" /\ Listed(directory, call[c].name)
  <2>1. Goto(c, "fetchHeader")
    BY <1>7 DEF FetchDirectory
  <2>2. pc' \in [Clients -> Places] /\ pc'[c] = "fetchHeader"
    BY <1>2, <2>1, SMTT(60) DEF Goto, Places
  <2>3. PICK i \in Entries : /\ IsIndex(directory, call[c].name, i)
                             /\ sector' = [sector EXCEPT ![c] = directory[i].sector]
    BY <1>7 DEF FetchDirectory
  <2>4. directory[i].sector \in AllSectors
    BY <1>2 DEF Directories
  <2>5. sector' \in [Clients -> AllSectors] /\ sector'[c] = directory[i].sector
    BY <1>2, <2>3, <2>4
  <2>6. TypeOK'
    BY <1>1, <1>3, <2>5, <2>2, SMTT(60) DEF Consistent, TypeOK
  <2>7. InHand(c, i)'
    BY <1>1, <2>3 DEF IsIndex, InHand, InUse
  <2>8. Found(c)'
    BY <1>1, <1>3, <1>4, <2>5, <2>7, DiskIsKept, ZenonT(60) DEF Found
  <2>9. Progress(c)'
    BY <1>1, <1>7, <2>2, <2>8 DEF Progress
  <2> QED
    BY <1>1, <2>6, <2>9, DiskIsKept DEF Consistent
<1> QED
  BY <1>5, <1>6, <1>7, Zenon

LEMMA FetchHeaderStep ==
  ASSUME NEW c, Clients = {c}, Consistent(c), FetchHeader(c)
  PROVE  Consistent(c)'
<1>1. UNCHANGED <<freeMap, directory, header, call, dir, map, sector>>
  BY DEF FetchHeader, disk
<1>2. /\ c \in Clients /\ hdr \in [Clients -> Headers] /\ pc \in [Clients -> Places]
      /\ sector[c] \in AllSectors /\ header \in [AllSectors -> Headers]
      /\ call[c] \in Calls
  BY DEF Consistent, TypeOK
<1>3. hdr' \in [Clients -> Headers] /\ hdr'[c] = header[sector[c]]
  BY <1>2 DEF FetchHeader
<1>4. /\ pc' \in [Clients -> Places]
      /\ pc'[c] = IF call[c].op = "Open" THEN "idle" ELSE "fetchMap"
  BY <1>2 DEF FetchHeader, Goto, Places
<1>5. TypeOK'
  BY <1>1, <1>3, <1>4, ZenonT(60) DEF Consistent, TypeOK
<1>6. Found(c) /\ call[c].op \in {"Open", "Remove"}
  BY <1>2, SMTT(30) DEF Consistent, Progress, FetchHeader, Calls
<1>7. Found(c)'
  BY <1>1, <1>6, DiskIsKept DEF Found, InHand
<1>8. Progress(c)'
  <2>1. CASE call[c].op = "Open"
    BY <1>1, <1>4, <1>7, <2>1, ZenonT(60) DEF Progress, Found
  <2>2. CASE call[c].op = "Remove"
    BY <1>1, <1>3, <1>4, <1>7, <2>2, SMTT(60) DEF Progress
  <2> QED
    BY <1>6, <2>1, <2>2, Zenon
<1> QED
  BY <1>1, <1>5, <1>8, DiskIsKept DEF Consistent

LEMMA CreateFailsStep ==
  ASSUME NEW c, Clients = {c}, Consistent(c), CreateFails(c)
  PROVE  Consistent(c)'
<1>1. UNCHANGED <<freeMap, directory, header, call, dir, map, hdr, sector>>
  BY DEF CreateFails, disk
<1>2. pc' \in [Clients -> Places] /\ pc'[c] = "idle"
  BY DEF CreateFails, Goto, Places, Consistent, TypeOK
<1>3. TypeOK'
  BY <1>1, <1>2, Zenon DEF Consistent, TypeOK
<1>4. BM!Marked(freeMap) = Used
  BY ZenonT(60) DEF CreateFails, Consistent, Progress, Lacking
<1>5. Progress(c)'
  BY <1>1, <1>2, <1>4, DiskIsKept, SMTT(60) DEF Progress
<1> QED
  BY <1>1, <1>3, <1>5, DiskIsKept DEF Consistent

LEMMA CreateFileStep ==
  ASSUME NEW c, Clients = {c}, Consistent(c), CreateFile(c)
  PROVE  Consistent(c)'
<1>1. PICK s \in AllSectors, i \in Entries, data \in SUBSET AllSectors :
        CreateFileWith(c, BM!Mark(freeMap, s), s, data, i)
  BY SMTT(60) DEF CreateFile
<1>2. UNCHANGED <<freeMap, directory, header, call>>
  BY <1>1, SMTT(60) DEF CreateFileWith, disk
<1>3. /\ c \in Clients /\ freeMap \in BM!BitMaps /\ directory \in Directories
      /\ pc \in [Clients -> Places] /\ call[c] \in Calls
      /\ dir \in [Clients -> Directories] /\ map \in [Clients -> BM!BitMaps]
      /\ hdr \in [Clients -> Headers] /\ sector \in [Clients -> AllSectors]
  BY SMTT(60) DEF Consistent, TypeOK
<1>4. Lacking(c) /\ call[c].op = "Create"
  BY <1>1 DEF CreateFileWith, Consistent, Progress
<1>5. /\ call[c].name \in Names /\ call[c].size \in Nat
  <2>1. call[c].name \in Names /\ call[c].size \in Sizes
    BY <1>3, <1>4, ZenonT(60) DEF Calls
  <2> QED
    BY ONLY <2>1, SizesAreNat, Zenon
<1>6. pc' \in [Clients -> Places] /\ pc'[c] = "writeHeader"
  BY <1>1, <1>3 DEF CreateFileWith, Goto, Places
<1>7. /\ dir' \in [Clients -> Directories]
      /\ dir'[c] = [directory EXCEPT
                      ![i] = [inUse |-> TRUE, name |-> call[c].name, sector |-> s]]
  <2>1. PICK d : d = [directory EXCEPT
                        ![i] = [inUse |-> TRUE, name |-> call[c].name, sector |-> s]]
    BY Zenon
  <2>2. d \in Directories
    BY <1>3, <1>5, <2>1, SMTT(30) DEF Directories
  <2>3. dir' = [dir EXCEPT ![c] = d]
    BY <1>1, <1>3, <1>4, <2>1 DEF CreateFileWith, Lacking
  <2> QED
    BY <1>3, <2>1, <2>2, <2>3
<1>8. /\ hdr' \in [Clients -> Headers]
      /\ hdr'[c] = [numBytes |-> call[c].size, data |-> data]
  BY <1>1, <1>3, <1>5, Zenon DEF CreateFileWith, Headers
<1>9. sector' \in [Clients -> AllSectors] /\ sector'[c] = s
  BY <1>1, <1>3, Zenon DEF CreateFileWith
<1>10. /\ BM!Mark(freeMap, s) \in BM!BitMaps
       /\ BM!Marked(BM!Mark(freeMap, s)) = Used \cup {s}
  BY <1>3, <1>4, BitsAreSectors, MarkSets, Zenon DEF Lacking
<1>11. data \cap (Used \cup {s}) = {}
  BY <1>1, <1>10, SMTT(60) DEF CreateFileWith, Allocates, FirstClear
<1>12. s \notin Used
  BY <1>1, <1>4, BitsAreSectors DEF CreateFileWith, Lacking, BM!Finds, BM!Marked
<1>13. /\ map' \in [Clients -> BM!BitMaps]
       /\ BM!Marked(map'[c]) = Used \cup {s} \cup data
  <2>1. /\ BM!MarkAll(BM!Mark(freeMap, s), data) \in BM!BitMaps
        /\ BM!Marked(BM!MarkAll(BM!Mark(freeMap, s), data)) = Used \cup {s} \cup data
    BY <1>10, BitsAreSectors, MarkAllSets, SMTT(60)
  <2>2. map' = [map EXCEPT ![c] = BM!MarkAll(BM!Mark(freeMap, s), data)]
    BY <1>1 DEF CreateFileWith
  <2> QED
    BY <1>3, <2>1, <2>2
<1>14. TypeOK'
  BY <1>2, <1>6, <1>7, <1>8, <1>9, <1>13, ZenonT(60) DEF Consistent, TypeOK
<1>15. i \in Entries \ InUse
  BY <1>1, <1>4 DEF CreateFileWith, IsFreeEntry, Lacking, InUse
<1>16. Used' = Used /\ InUse' = InUse
  BY <1>2, DiskIsKept, Zenon
<1>17. Creating(c)'
  <2>1. BM!Marked(freeMap)' = Used' /\ ~Listed(directory, call[c].name)'
    BY <1>2, <1>4, <1>16 DEF Lacking, Listed
  <2>2. \E k \in Entries \ InUse' :
          dir'[c] = [directory' EXCEPT
                       ![k] = [inUse |-> TRUE, name |-> call'[c].name, sector |-> sector'[c]]]
    BY <1>2, <1>7, <1>9, <1>15, <1>16, Zenon
  <2>3. /\ ({sector'[c]} \cup hdr'[c].data) \cap Used' = {}
        /\ sector'[c] \notin hdr'[c].data
    BY <1>8, <1>9, <1>11, <1>12, <1>16, SMTT(60)
  <2>4. /\ BM!Marked(map'[c]) = Used' \cup {sector'[c]} \cup hdr'[c].data
        /\ hdr'[c].numBytes = call'[c].size
    BY <1>2, <1>8, <1>9, <1>13, <1>16, SMTT(30)
  <2> QED
    BY <2>1, <2>2, <2>3, <2>4, Zenon DEF Creating
<1>18. Progress(c)'
  BY <1>2, <1>4, <1>6, <1>17 DEF Progress
<1> QED
  BY <1>2, <1>14, <1>18, DiskIsKept DEF Consistent

\* A file in the directory is the only one of its name, so Directory::Remove takes the
\* entry out that FindIndex has found.
LEMMA RemovesOne ==
  ASSUME NamesAreUnique, directory \in Directories, NEW i \in InUse
  PROVE  Removed(directory, directory[i].name) = [directory EXCEPT ![i].inUse = FALSE]
<1>1. i \in Entries /\ NumDirEntries \in Nat
  BY FileSystemAssumption DEF InUse
<1>2. ASSUME NEW j \in Entries
      PROVE  IsIndex(directory, directory[i].name, j) <=> j = i
  BY <1>1, SMTT(30) DEF IsIndex, NamesAreUnique, InUse, Entries
<1> QED
  BY <1>1, <1>2, Zenon DEF Removed, Directories

LEMMA RemoveFileStep ==
  ASSUME NEW c, Clients = {c}, Consistent(c), RemoveFile(c)
  PROVE  Consistent(c)'
<1>1. UNCHANGED <<freeMap, directory, header, call, hdr, sector>>
  BY DEF RemoveFile, disk
<1>2. /\ c \in Clients /\ freeMap \in BM!BitMaps /\ directory \in Directories
      /\ pc \in [Clients -> Places] /\ hdr[c] \in Headers /\ sector[c] \in AllSectors
      /\ dir \in [Clients -> Directories] /\ map \in [Clients -> BM!BitMaps]
  BY DEF Consistent, TypeOK
<1>3. Found(c) /\ hdr[c] = header[sector[c]] /\ call[c].op = "Remove"
  BY Zenon DEF RemoveFile, Consistent, Progress
<1>4. PICK i \in Entries : InHand(c, i) /\ sector[c] = directory[i].sector
  BY <1>3, Zenon DEF Found
<1>5. Owned(i) = {sector[c]} \cup hdr[c].data
  BY <1>3, <1>4, Zenon DEF Owned
<1>6. pc' \in [Clients -> Places] /\ pc'[c] = "writeMap"
  BY <1>2 DEF RemoveFile, Goto, Places
<1>7. /\ dir' \in [Clients -> Directories]
      /\ dir'[c] = [directory EXCEPT ![i].inUse = FALSE]
  <2>1. Removed(dir[c], call[c].name) = [directory EXCEPT ![i].inUse = FALSE]
    BY <1>2, <1>3, <1>4, RemovesOne, Zenon DEF Found, InHand, Consistent
  <2>2. [directory EXCEPT ![i].inUse = FALSE] \in Directories
    BY <1>2, ZenonT(60) DEF Directories
  <2>3. dir' = [dir EXCEPT ![c] = Removed(dir[c], call[c].name)]
    BY SMTT(60) DEF RemoveFile
  <2> QED
    BY <1>2, <2>1, <2>2, <2>3, Zenon
<1>8. map' \in [Clients -> BM!BitMaps] /\ BM!Marked(map'[c]) = Used \ Owned(i)
  <2>1. hdr[c].data \in SUBSET BM!Bits
    BY <1>2, BitsAreSectors, SMTT(30) DEF Headers
  <2>2. /\ BM!ClearAll(freeMap, hdr[c].data) \in BM!BitMaps
        /\ BM!Marked(BM!ClearAll(freeMap, hdr[c].data)) = Used \ hdr[c].data
    BY <1>2, <1>3, <2>1, ClearAllClears, SMTT(60) DEF Found
  <2>3. PICK m : m = BM!Clear(BM!ClearAll(freeMap, hdr[c].data), sector[c])
    OBVIOUS
  <2>4. m \in BM!BitMaps /\ BM!Marked(m) = (Used \ hdr[c].data) \ {sector[c]}
    BY <1>2, <2>2, <2>3, BitsAreSectors, ClearClears, SMTT(30)
  <2>5. map' = [map EXCEPT ![c] = m]
    BY <2>3 DEF RemoveFile, Deallocated
  <2> QED
    BY <1>2, <1>5, <2>4, <2>5, SMTT(60)
<1>9. TypeOK'
  BY <1>1, <1>6, <1>7, <1>8, SMTT(60) DEF Consistent, TypeOK
<1>10. Removing(c, map[c])' /\ BM!Marked(freeMap)' = Used'
  <2>1. InHand(c, i)' /\ Owned(i)' = Owned(i) /\ Used' = Used
    BY <1>1, <1>4, DiskIsKept, SMTT(30) DEF InHand
  <2> QED
    BY <1>1, <1>3, <1>7, <1>8, <2>1, ZenonT(60) DEF Removing, Found
<1>11. Progress(c)'
  BY <1>1, <1>3, <1>6, <1>10 DEF Progress
<1> QED
  BY <1>1, <1>9, <1>11, DiskIsKept DEF Consistent

\* The header that Create writes is in a sector of no file.
LEMMA WriteHeaderStep ==
  ASSUME NEW c, Clients = {c}, Consistent(c), WriteHeader(c)
  PROVE  Consistent(c)'
<1>1. UNCHANGED <<freeMap, directory, call, dir, map, hdr, sector>>
  BY DEF WriteHeader
<1>2. /\ c \in Clients /\ header \in [AllSectors -> Headers] /\ hdr[c] \in Headers
      /\ sector[c] \in AllSectors /\ pc \in [Clients -> Places] /\ directory \in Directories
  BY Zenon DEF Consistent, TypeOK
<1>3. Creating(c) /\ call[c].op = "Create"
  BY Zenon DEF WriteHeader, Consistent, Progress
<1>4. /\ header' \in [AllSectors -> Headers] /\ header'[sector[c]] = hdr[c]
      /\ \A s \in AllSectors : s # sector[c] => header'[s] = header[s]
  BY <1>2 DEF WriteHeader
<1>5. pc' \in [Clients -> Places] /\ pc'[c] = "writeDirectory"
  BY <1>2 DEF WriteHeader, Goto, Places
<1>6. TypeOK'
  BY <1>1, <1>4, <1>5 DEF Consistent, TypeOK
<1>7. InUse' = InUse
  BY <1>1, SMTT(60) DEF InUse
<1>8. ASSUME NEW i \in InUse
      PROVE  header'[directory[i].sector] = header[directory[i].sector]
  <2>1. directory[i].sector \in Used
    BY UsedIs DEF Owned
  <2>2. directory[i].sector \in AllSectors
    BY <1>2 DEF InUse, Directories
  <2> QED
    BY <1>3, <1>4, <2>1, <2>2 DEF Creating
<1>9. \A i \in InUse : Owned(i)' = Owned(i)
  BY <1>1, <1>8 DEF Owned
<1>10. Used' = Used
  BY <1>7, <1>9, UsedIsKept
<1>11. NamesAreUnique'
  BY <1>1, <1>7 DEF Consistent, NamesAreUnique
<1>12. FilesAreDisjoint'
  BY <1>1, <1>7, <1>8, <1>9, Zenon DEF Consistent, FilesAreDisjoint
<1>13. Creating(c)'
  BY <1>1, <1>3, <1>7, <1>10, Zenon DEF Creating, Listed
<1>14. Progress(c)'
  BY <1>1, <1>3, <1>4, <1>5, <1>13, Zenon DEF Progress
<1> QED
  BY <1>6, <1>11, <1>12, <1>14 DEF Consistent

LEMMA WriteMapStep ==
  ASSUME NEW c, Clients = {c}, Consistent(c), WriteMap(c)
  PROVE  Consistent(c)'
<1>1. UNCHANGED <<directory, header, call, dir, map, hdr, sector>>
  BY DEF WriteMap
<1>2. /\ c \in Clients /\ map[c] \in BM!BitMaps /\ pc \in [Clients -> Places]
      /\ freeMap' = map[c]
  BY Zenon DEF Consistent, TypeOK, WriteMap
<1>3. /\ pc' \in [Clients -> Places]
      /\ pc'[c] = IF call[c].op = "Create" THEN "idle" ELSE "writeDirectory"
  BY <1>2, Zenon DEF WriteMap, Goto, Places
<1>4. TypeOK'
  BY <1>1, <1>2, <1>3, Zenon DEF Consistent, TypeOK
<1>5. Progress(c)'
  <2>1. CASE call[c].op = "Create" /\ Created(c)
    BY <1>1, <1>2, <1>3, <2>1, DiskIsKept, Zenon DEF Created, Progress
  <2>2. CASE call[c].op = "Remove" /\ Removing(c, map[c])
    <3>1. Removing(c, freeMap)'
      BY <1>1, <1>2, <2>2, DiskIsKept, Zenon DEF Removing, InHand
    <3> QED
      BY <1>1, <1>3, <2>2, <3>1, Zenon DEF Progress
  <2> QED
    BY <2>1, <2>2, Zenon DEF Consistent, Progress, WriteMap
<1> QED
  BY <1>1, <1>4, <1>5, DiskIsKept, Zenon DEF Consistent

\* The directory with the new file: entry i is that of the file.
LEMMA DirectoryGains ==
  ASSUME NEW c, Clients = {c}, Consistent(c), WriteDirectory(c), call[c].op = "Create"
  PROVE  \E i \in Entries \ InUse :
           /\ InUse' = InUse \cup {i}
           /\ directory' \in Directories
           /\ directory'[i].name = call[c].name
           /\ directory'[i].sector = sector[c]
           /\ \A j \in InUse : directory'[j] = directory[j] /\ Owned(j)' = Owned(j)
           /\ Owned(i)' = {sector[c]} \cup hdr[c].data
           /\ Used' = Used \cup {sector[c]} \cup hdr[c].data
<1>1. /\ Creating(c) /\ header[sector[c]] = hdr[c]
      /\ directory' = dir[c] /\ header' = header
  BY DEF WriteDirectory, Consistent, Progress
<1>2. PICK i \in Entries \ InUse :
        dir[c] = [directory EXCEPT
                    ![i] = [inUse |-> TRUE, name |-> call[c].name, sector |-> sector[c]]]
  BY <1>1, Zenon DEF Creating
<1>3. directory \in Directories /\ dir[c] \in Directories
  BY SMTT(30) DEF Consistent, TypeOK
<1>4. /\ directory'[i] = [inUse |-> TRUE, name |-> call[c].name, sector |-> sector[c]]
      /\ \A j \in Entries : j # i => directory'[j] = directory[j]
  BY <1>1, <1>2, <1>3, SMTT(30) DEF Directories
<1>5. InUse' = InUse \cup {i}
  BY <1>2, <1>4, SMTT(30) DEF InUse
<1>6. \A j \in InUse : directory'[j] = directory[j] /\ Owned(j)' = Owned(j)
  BY <1>1, <1>2, <1>4, Zenon DEF InUse, Owned
<1>7. Owned(i)' = {sector[c]} \cup hdr[c].data
  BY <1>1, <1>4 DEF Owned
<1>8. Used' = Used \cup {sector[c]} \cup hdr[c].data
  <2>1. \A s : s \in Used' <=> s \in SystemSectors \/ \E j \in InUse' : s \in Owned(j)'
    BY DEF Used
  <2>2. \A s : s \in Used' <=> s \in Used \/ s \in Owned(i)'
    BY <1>5, <1>6, <2>1, UsedIs, SMTT(30)
  <2> QED
    BY <1>7, <2>2
<1>9. /\ directory' \in Directories
      /\ directory'[i].name = call[c].name /\ directory'[i].sector = sector[c]
  BY <1>1, <1>3, <1>4
<1> QED
  BY <1>2, <1>5, <1>6, <1>7, <1>8, <1>9, ZenonT(60)

\* The directory without the file, which was in entry i.
LEMMA DirectoryLoses ==
  ASSUME NEW c, Clients = {c}, Consistent(c), WriteDirectory(c), call[c].op # "Create"
  PROVE  \E i \in InUse :
           /\ InUse' = InUse \ {i}
           /\ directory' \in Directories
           /\ directory[i].name = call[c].name
           /\ \A j \in InUse' : directory'[j] = directory[j] /\ Owned(j)' = Owned(j)
           /\ Used' = Used \ Owned(i)
           /\ BM!Marked(freeMap) = Used'
<1>1. Removing(c, freeMap) /\ directory' = dir[c] /\ header' = header
  BY DEF WriteDirectory, Consistent, Progress
<1>2. PICK i \in Entries : /\ InHand(c, i)
                           /\ dir[c] = [directory EXCEPT ![i].inUse = FALSE]
                           /\ BM!Marked(freeMap) = Used \ Owned(i)
  BY <1>1, Zenon DEF Removing
<1>3. directory \in Directories /\ dir[c] \in Directories /\ FilesAreDisjoint
  BY DEF Consistent, TypeOK
<1>4. /\ ~directory'[i].inUse
      /\ \A j \in Entries : j # i => directory'[j] = directory[j]
  BY <1>1, <1>2, <1>3 DEF Directories
<1>5. i \in InUse /\ InUse' = InUse \ {i}
  BY <1>2, <1>4, SMTT(30) DEF InUse, InHand
<1>6. \A j \in InUse' : directory'[j] = directory[j] /\ Owned(j)' = Owned(j)
  BY <1>1, <1>4, <1>5, SMTT(30) DEF InUse, Owned
<1>7. Used' = Used \ Owned(i)
  <2>1. \A s : s \in Used' <=> s \in SystemSectors \/ \E j \in InUse' : s \in Owned(j)'
    BY DEF Used
  <2>2. /\ Owned(i) \cap SystemSectors = {}
        /\ \A j \in InUse' : Owned(i) \cap Owned(j) = {}
    BY <1>3, <1>5 DEF FilesAreDisjoint
  <2> QED
    BY <1>5, <1>6, <2>1, <2>2, UsedIs, SMTT(60)
<1> QED
  BY <1>1, <1>2, <1>3, <1>5, <1>6, <1>7, SMTT(30) DEF InHand

LEMMA WriteDirectoryStep ==
  ASSUME NEW c, Clients = {c}, Consistent(c), WriteDirectory(c)
  PROVE  Consistent(c)'
<1>1. UNCHANGED <<freeMap, header, call, dir, map, hdr, sector>>
  BY DEF WriteDirectory
<1>2. /\ c \in Clients /\ pc \in [Clients -> Places] /\ dir[c] \in Directories
      /\ directory' = dir[c]
  BY Zenon DEF Consistent, TypeOK, WriteDirectory
<1>3. /\ pc' \in [Clients -> Places]
      /\ pc'[c] = IF call[c].op = "Create" THEN "writeMap" ELSE "idle"
  BY <1>2, ZenonT(60) DEF WriteDirectory, Goto, Places
<1>4. TypeOK'
  BY <1>1, <1>2, <1>3 DEF Consistent, TypeOK
<1>5. NamesAreUnique /\ FilesAreDisjoint
  BY DEF Consistent
<1>6. CASE call[c].op = "Create"
  <2>1. Creating(c) /\ header[sector[c]] = hdr[c]
    BY <1>6, Zenon DEF WriteDirectory, Consistent, Progress
  <2>2. PICK i \in Entries \ InUse :
           /\ InUse' = InUse \cup {i}
           /\ directory'[i].name = call[c].name
           /\ directory'[i].sector = sector[c]
           /\ \A j \in InUse : directory'[j] = directory[j] /\ Owned(j)' = Owned(j)
           /\ Owned(i)' = {sector[c]} \cup hdr[c].data
           /\ Used' = Used \cup {sector[c]} \cup hdr[c].data
    BY <1>6, DirectoryGains, Zenon
  <2>3. \A j \in InUse : directory[j].name # call[c].name
    BY <2>1, ZenonT(60) DEF Creating, Listed, InUse
  <2>4. NamesAreUnique'
    BY <1>5, <2>2, <2>3, SMTT(30) DEF NamesAreUnique
  <2>5. FilesAreDisjoint'
    <3>1. /\ Owned(i)' \cap SystemSectors = {}
          /\ \A j \in InUse : Owned(i)' \cap Owned(j) = {}
      BY <2>1, <2>2, UsedIs, Zenon DEF Creating
    <3>2. directory'[i].sector \notin header'[directory'[i].sector].data
      BY <1>1, <2>1, <2>2, Zenon DEF Creating
    <3>3. \A j \in InUse : /\ Owned(j)' \cap SystemSectors = {}
                           /\ directory'[j].sector \notin header'[directory'[j].sector].data
                           /\ \A k \in InUse : j # k => Owned(j)' \cap Owned(k)' = {}
      BY <1>1, <1>5, <2>2, Zenon DEF FilesAreDisjoint
    <3>4. \A j \in InUse : i # j /\ Owned(j)' = Owned(j)
      BY <2>2
    <3> QED
      BY <2>2, <3>1, <3>2, <3>3, <3>4, SMTT(30) DEF FilesAreDisjoint
  <2>6. Created(c)'
    <3>1. BM!Marked(map'[c]) = Used'
      BY <1>1, <2>1, <2>2, Zenon DEF Creating
    <3>2. \A j \in InUse' : ~InHand(c, j)' => j \in InUse
      BY <1>1, <2>2, Zenon DEF InHand
    <3>3. \A j \in InUse : Owned(j)' \subseteq BM!Marked(freeMap')
      <4>1. \A j \in InUse : Owned(j) \subseteq Used
        BY UsedIs, Zenon
      <4>2. BM!Marked(freeMap') = Used
        BY <1>1, <2>1, Zenon DEF Creating
      <4> QED
        BY <2>2, <4>1, <4>2, Zenon
    <3> QED
      BY <3>1, <3>2, <3>3, Zenon DEF Created
  <2>7. Progress(c)'
    BY <1>1, <1>3, <1>6, <2>6, Zenon DEF Progress
  <2> QED
    BY <1>4, <2>4, <2>5, <2>7, Zenon DEF Consistent
<1>7. CASE call[c].op # "Create"
  <2>1. PICK i \in InUse :
           /\ InUse' = InUse \ {i}
           /\ \A j \in InUse' : directory'[j] = directory[j] /\ Owned(j)' = Owned(j)
           /\ BM!Marked(freeMap) = Used'
    BY <1>7, DirectoryLoses, SMTT(60)
  <2>2. NamesAreUnique'
    BY <1>5, <2>1 DEF NamesAreUnique
  <2>3. FilesAreDisjoint'
    BY <1>1, <1>5, <2>1, Zenon DEF FilesAreDisjoint
  <2>4. Progress(c)'
    BY <1>1, <1>3, <1>7, <2>1, Zenon DEF Progress
  <2> QED
    BY <1>4, <2>2, <2>3, <2>4, SMTT(30) DEF Consistent
<1> QED
  BY <1>6, <1>7

LEMMA StutteringStep ==
  ASSUME NEW c, Consistent(c), UNCHANGED vars
  PROVE  Consistent(c)'
<1>1. UNCHANGED <<freeMap, directory, header, pc, call, dir, map, hdr, sector>>
  BY DEF vars
<1>2. TypeOK'
  BY <1>1, Zenon DEF Consistent, TypeOK
<1>3. Found(c) => Found(c)'
  BY <1>1, DiskIsKept, Zenon DEF Found, InHand
<1>4. Lacking(c) => Lacking(c)'
  BY <1>1, DiskIsKept, Zenon DEF Lacking, Listed
<1>5. Creating(c) => Creating(c)'
  BY <1>1, DiskIsKept, Zenon DEF Creating, Listed
<1>6. Created(c) => Created(c)'
  BY <1>1, DiskIsKept DEF Created, InHand
<1>7. /\ Removing(c, map[c]) => Removing(c, map[c])'
      /\ Removing(c, freeMap) => Removing(c, freeMap)'
  BY <1>1, DiskIsKept, Zenon DEF Removing, InHand
<1>8. Progress(c)'
  BY <1>1, <1>3, <1>4, <1>5, <1>6, <1>7, DiskIsKept, Zenon DEF Consistent, Progress
<1> QED
  BY <1>1, <1>2, <1>8, DiskIsKept, SMTT(60) DEF Consistent

LEMMA NextIsConsistent ==
  ASSUME NEW c, Clients = {c}, Consistent(c), [Next]_vars
  PROVE  Consistent(c)'
<1>1. ASSUME NEW name \in Names, NEW size \in Sizes, Call(c, "Create", name, size)
      PROVE  Consistent(c)'
  BY <1>1, CallStep, Zenon DEF Calls
<1>2. ASSUME NEW name \in Names, NEW op \in {"Open", "Remove"}, Call(c, op, name, 0)
      PROVE  Consistent(c)'
  BY <1>2, CallStep DEF Calls
<1> QED
  BY <1>1, <1>2, FetchDirectoryStep, FetchHeaderStep, CreateFileStep, CreateFailsStep,
     RemoveFileStep, WriteHeaderStep, WriteDirectoryStep, WriteMapStep, StutteringStep, Zenon
     DEF Next

-----------------------------------------------------------------------------
(* What holds for one caller at a time *)

\* FileSystemInv is an invariant of Create, Open and Remove: names and sectors belong to
\* one file, the ASSERT of Deallocate holds, and what an operation has yet to write
\* matches what is on the disk.
THEOREM FileSystemIsConsistent ==
  ASSUME NEW c, Clients = {c}
  PROVE  Spec => []FileSystemInv
<1>1. Init => FileSystemInv
  BY InitIsConsistent, ConsistentIsInv
<1>2. FileSystemInv /\ [Next]_vars => FileSystemInv'
  <2> SUFFICES ASSUME FileSystemInv, [Next]_vars
               PROVE  FileSystemInv'
    OBVIOUS
  <2>1. Consistent(c)'
    BY ConsistentIsInv, NextIsConsistent
  <2>2. Consistent(c)' => FileSystemInv'
    <3>1. TypeOK' /\ Progress(c)' => DeallocateFindsMarked'
      BY RemoveFindsMarked, PTL
    <3> QED
      BY <3>1 DEF Consistent, FileSystemInv
  <2> QED
    BY <2>1, <2>2
<1> QED
  BY <1>1, <1>2, PTL DEF Spec

\* MapIsExact: between operations the bitmap on the disk says exactly which sectors are
\* used, so that none leaks and none is given to two files (BitMap, FileHeader::Allocate
\* and Deallocate).
THEOREM MapOnDiskIsExact ==
  ASSUME NEW c, Clients = {c}
  PROVE  Spec => []MapIsExact
<1>1. FileSystemInv => MapIsExact
  BY Zenon DEF FileSystemInv, Progress, MapIsExact
<1> QED
  BY <1>1, FileSystemIsConsistent, PTL

\* StopSparesOthers: wherever Nachos stops, the files that no operation is working on
\* are on the disk with their sectors marked, by the order of the writes in Create and
\* Remove.
THEOREM StopHarmsNoOtherFile ==
  ASSUME NEW c, Clients = {c}
  PROVE  Spec => []StopSparesOthers
<1>1. FileSystemInv => StopSparesOthers
  <2> SUFFICES ASSUME FileSystemInv, NEW i \in InUse,
                      pc[c] # "idle" => call[c].name # directory[i].name
               PROVE  Owned(i) \subseteq BM!Marked(freeMap)
    BY DEF StopSparesOthers
  <2>1. Owned(i) \subseteq Used
    BY UsedIs
  <2>2. CASE BM!Marked(freeMap) = Used
    BY <2>1, <2>2
  <2>3. CASE pc[c] = "writeMap" /\ Created(c)
    BY <2>3, Zenon DEF Created, InHand
  <2>4. CASE pc[c] = "writeDirectory" /\ Removing(c, freeMap)
    <3>1. PICK j \in InUse : InHand(c, j) /\ BM!Marked(freeMap) = Used \ Owned(j)
      BY <2>4, Zenon DEF Removing, InHand
    <3>2. j # i
      BY <2>4, <3>1, Zenon DEF InHand
    <3> QED
      BY <2>1, <3>1, <3>2, Zenon DEF FileSystemInv, FilesAreDisjoint
  <2> QED
    BY <2>2, <2>3, <2>4, Zenon DEF FileSystemInv, Progress, Found, Lacking, Creating
<1> QED
  BY <1>1, FileSystemIsConsistent, PTL

-----------------------------------------------------------------------------
(* The abstract file system *)

\* What a reader of directory d and headers h sees, if its names are unique.
LEMMA ReaderSees ==
  ASSUME NEW d, NEW h, NEW U, \A i, j \in U : d[i].name = d[j].name => i = j,
         NEW f, f = [n \in {d[i].name : i \in U} |->
                       h[d[CHOOSE i \in U : d[i].name = n].sector].numBytes]
  PROVE  /\ DOMAIN f = {d[i].name : i \in U}
         /\ \A i \in U : f[d[i].name] = h[d[i].sector].numBytes
<1>1. ASSUME NEW i \in U
      PROVE  f[d[i].name] = h[d[i].sector].numBytes
  <2>1. (CHOOSE k \in U : d[k].name = d[i].name) = i
    BY Zenon
  <2> QED
    BY <2>1, Zenon
<1> QED
  BY <1>1, Zenon

\* The same of the disk, before and after a step.
LEMMA FilesBefore ==
  ASSUME NamesAreUnique
  PROVE  /\ DOMAIN FilesOnDisk = {directory[i].name : i \in InUse}
         /\ \A i \in InUse :
              FilesOnDisk[directory[i].name] = header[directory[i].sector].numBytes
  BY ReaderSees, Zenon DEF NamesAreUnique, FilesOnDisk

LEMMA FilesAfter ==
  ASSUME NamesAreUnique'
  PROVE  /\ DOMAIN FilesOnDisk' = {directory'[i].name : i \in InUse'}
         /\ \A i \in InUse' :
              FilesOnDisk'[directory'[i].name] = header'[directory'[i].sector].numBytes
  BY ReaderSees, Zenon DEF NamesAreUnique, FilesOnDisk

\* Two sets of files are the same if they have the same names and sizes.
LEMMA SameFiles ==
  ASSUME NEW g, DOMAIN FilesOnDisk' = DOMAIN g, g = [n \in DOMAIN g |-> g[n]],
         \A n \in DOMAIN g : FilesOnDisk'[n] = g[n]
  PROVE  FilesOnDisk' = g
<1>1. FilesOnDisk' = [n \in DOMAIN FilesOnDisk' |-> FilesOnDisk'[n]]
  BY DEF FilesOnDisk
<1> QED
  BY <1>1, SMTT(30)

LEMMA FilesAreKept ==
  ASSUME NamesAreUnique, NamesAreUnique', InUse' = InUse,
         \A i \in InUse : /\ directory'[i] = directory[i]
                          /\ header'[directory[i].sector] = header[directory[i].sector]
  PROVE  FilesOnDisk' = FilesOnDisk
<1>1. FilesOnDisk = [n \in DOMAIN FilesOnDisk |-> FilesOnDisk[n]]
  BY SMTT(30) DEF FilesOnDisk
<1>2. DOMAIN FilesOnDisk' = DOMAIN FilesOnDisk
  BY FilesBefore, FilesAfter, SMTT(30)
<1>3. ASSUME NEW n \in DOMAIN FilesOnDisk
      PROVE  FilesOnDisk'[n] = FilesOnDisk[n]
  <2>1. PICK i \in InUse : n = directory[i].name
    BY FilesBefore
  <2> QED
    BY <2>1, FilesBefore, FilesAfter, SMTT(60)
<1> QED
  BY <1>1, <1>2, <1>3, SameFiles, ZenonT(60)

\* The file appears when Create writes the directory.
LEMMA CreateAppears ==
  ASSUME NEW c, Clients = {c}, Consistent(c), Consistent(c)',
         WriteDirectory(c), call[c].op = "Create"
  PROVE  AFS!Next
<1>1. PICK i \in Entries \ InUse :
         /\ InUse' = InUse \cup {i}
         /\ directory'[i].name = call[c].name
         /\ directory'[i].sector = sector[c]
         /\ \A j \in InUse : directory'[j] = directory[j]
  BY DirectoryGains, Zenon
<1>2. /\ Creating(c) /\ header[sector[c]] = hdr[c] /\ header' = header
      /\ NamesAreUnique /\ NamesAreUnique'
  BY Zenon DEF WriteDirectory, Consistent, Progress
<1>3. call[c].name \in Names /\ call[c].size \in Sizes
  <2>1. call[c] \in Calls
    BY Zenon DEF Consistent, TypeOK
  <2> QED
    BY <2>1 DEF Calls
<1>4. call[c].name \notin DOMAIN FilesOnDisk
  <2>1. \A j \in InUse : directory[j].name # call[c].name
    BY <1>2, Zenon DEF Creating, Listed, InUse
  <2>2. DOMAIN FilesOnDisk = {directory[j].name : j \in InUse}
    BY <1>2, FilesBefore, Zenon
  <2> QED
    BY <2>1, <2>2, Zenon
<1>5. PICK g : g = [n \in DOMAIN FilesOnDisk \cup {call[c].name} |->
                      IF n = call[c].name THEN call[c].size ELSE FilesOnDisk[n]]
  BY Zenon
<1>6. DOMAIN FilesOnDisk' = DOMAIN FilesOnDisk \cup {call[c].name}
  BY <1>1, <1>2, FilesBefore, FilesAfter
<1>7. ASSUME NEW n \in DOMAIN g
      PROVE  FilesOnDisk'[n] = g[n]
  <2>1. CASE n = call[c].name
    <3>1. FilesOnDisk'[n] = header[sector[c]].numBytes
      <4>1. i \in InUse'
        BY <1>1, Zenon
      <4>2. FilesOnDisk'[directory'[i].name] = header'[directory'[i].sector].numBytes
        BY <1>2, <4>1, FilesAfter, Zenon
      <4> QED
        BY <1>1, <1>2, <2>1, <4>2, Zenon
    <3>2. header[sector[c]].numBytes = call[c].size
      BY <1>2, Zenon DEF Creating
    <3>3. g[n] = call[c].size
      BY <1>5, <2>1, SMTT(60)
    <3> QED
      BY <3>1, <3>2, <3>3, Zenon
  <2>2. CASE n # call[c].name
    <3>1. PICK j \in InUse : n = directory[j].name
      BY <1>2, <1>5, <2>2, FilesBefore, Zenon
    <3>2. FilesOnDisk'[n] = header[directory[j].sector].numBytes
      BY <1>1, <1>2, <3>1, FilesAfter, Zenon
    <3>3. FilesOnDisk[n] = header[directory[j].sector].numBytes
      BY <1>2, <3>1, FilesBefore, Zenon
    <3> QED
      BY <1>5, <2>2, <3>2, <3>3
  <2> QED
    BY <2>1, <2>2, Zenon
<1>8. FilesOnDisk' = g
  BY <1>5, <1>6, <1>7, SameFiles, SMTT(30)
<1>9. AFS!Create(call[c].name, call[c].size)
  BY <1>4, <1>5, <1>8, Zenon DEF AFS!Create
<1> QED
  BY <1>3, <1>9, Zenon DEF AFS!Next

\* The file goes when Remove writes the directory.
LEMMA RemoveTakesAway ==
  ASSUME NEW c, Clients = {c}, Consistent(c), Consistent(c)',
         WriteDirectory(c), call[c].op # "Create"
  PROVE  AFS!Next
<1>1. PICK i \in InUse :
         /\ InUse' = InUse \ {i}
         /\ directory[i].name = call[c].name
         /\ \A j \in InUse' : directory'[j] = directory[j]
  BY DirectoryLoses, Zenon
<1>2. header' = header /\ NamesAreUnique /\ NamesAreUnique'
  BY Zenon DEF WriteDirectory, Consistent
<1>3. call[c].name \in Names
  <2>1. call[c] \in Calls
    BY Zenon DEF Consistent, TypeOK
  <2> QED
    BY <2>1 DEF Calls
<1>4. call[c].name \in DOMAIN FilesOnDisk
  BY <1>1, <1>2, FilesBefore, Zenon
<1>5. PICK g : g = [n \in DOMAIN FilesOnDisk \ {call[c].name} |-> FilesOnDisk[n]]
  BY ZenonT(60)
<1>6. DOMAIN FilesOnDisk' = DOMAIN FilesOnDisk \ {call[c].name}
  <2>1. \A j \in InUse' : directory[j].name # call[c].name
    BY <1>1, <1>2 DEF NamesAreUnique
  <2> QED
    BY <1>1, <1>2, <2>1, FilesBefore, FilesAfter, SMTT(30)
<1>7. ASSUME NEW n \in DOMAIN g
      PROVE  FilesOnDisk'[n] = g[n]
  <2>1. PICK j \in InUse' : n = directory[j].name
    BY <1>1, <1>2, <1>5, FilesBefore, Zenon
  <2>2. FilesOnDisk'[n] = header[directory[j].sector].numBytes
    BY <1>1, <1>2, <2>1, FilesAfter, Zenon
  <2>3. FilesOnDisk[n] = header[directory[j].sector].numBytes
    BY <1>1, <1>2, <2>1, FilesBefore, Zenon
  <2> QED
    BY <1>5, <2>2, <2>3, Zenon
<1>8. FilesOnDisk' = g
  BY <1>5, <1>6, <1>7, SameFiles, SMTT(30)
<1>9. AFS!Remove(call[c].name)
  BY <1>4, <1>5, <1>8, Zenon DEF AFS!Remove
<1> QED
  BY <1>3, <1>9, Zenon DEF AFS!Next

\* Writing the header of a new file changes none that is in the directory.
LEMMA WriteHeaderKeepsFiles ==
  ASSUME NEW c, Clients = {c}, Consistent(c), Consistent(c)', WriteHeader(c)
  PROVE  FilesOnDisk' = FilesOnDisk
<1>1. /\ Creating(c) /\ header \in [AllSectors -> Headers] /\ directory \in Directories
      /\ directory' = directory /\ NamesAreUnique /\ NamesAreUnique'
      /\ header' = [header EXCEPT ![sector[c]] = hdr[c]]
  BY Zenon DEF WriteHeader, Consistent, TypeOK, Progress
<1>2. InUse' = InUse
  BY <1>1, Zenon DEF InUse
<1>3. ASSUME NEW i \in InUse
      PROVE  header'[directory[i].sector] = header[directory[i].sector]
  <2>1. directory[i].sector \in Used
    BY UsedIs, Zenon DEF Owned
  <2>2. directory[i].sector \in AllSectors
    BY <1>1, Zenon DEF InUse, Directories
  <2> QED
    BY <1>1, <2>1, <2>2, Zenon DEF Creating
<1> QED
  BY <1>1, <1>2, <1>3, FilesAreKept, Zenon

LEMMA OtherStepsKeepFiles ==
  ASSUME UNCHANGED <<directory, header>>
  PROVE  FilesOnDisk' = FilesOnDisk
<1>1. InUse' = InUse
  BY DiskIsKept
<1> QED
  BY <1>1 DEF FilesOnDisk

\* ImplementsFileSystem: for a reader of the disk Create and Remove are atomic, each takes
\* effect when the directory is written, and no other step of theirs or of Open shows.
THEOREM FileSystemImplements ==
  ASSUME NEW c, Clients = {c}
  PROVE  Spec => ImplementsFileSystem
<1>1. Init => AFS!Init
  <2> SUFFICES ASSUME Init PROVE AFS!Init
    BY Zenon
  <2>1. InUse = {}
    BY DEF Init, EmptyDirectory, InUse
  <2> QED
    BY <2>1 DEF FilesOnDisk, AFS!Init
<1>2. FileSystemInv /\ FileSystemInv' /\ [Next]_vars => [AFS!Next]_FilesOnDisk
  <2> SUFFICES ASSUME FileSystemInv, FileSystemInv', [Next]_vars
               PROVE  AFS!Next \/ FilesOnDisk' = FilesOnDisk
    OBVIOUS
  <2>1. Consistent(c) /\ Consistent(c)'
    BY ConsistentIsInv, Zenon DEF FileSystemInv, Consistent
  <2>2. ASSUME NEW op, NEW name, NEW size, Call(c, op, name, size)
        PROVE  FilesOnDisk' = FilesOnDisk
    BY <2>2, OtherStepsKeepFiles, Zenon DEF Call, disk
  <2>3. CASE FetchDirectory(c) \/ FetchHeader(c) \/ CreateFails(c) \/ RemoveFile(c)
    BY <2>3, OtherStepsKeepFiles, Zenon
       DEF FetchDirectory, FetchHeader, CreateFails, RemoveFile, disk
  <2>4. CASE CreateFile(c)
    BY <2>4, OtherStepsKeepFiles, Zenon DEF CreateFile, CreateFileWith, disk
  <2>5. CASE WriteMap(c)
    BY <2>5, OtherStepsKeepFiles DEF WriteMap
  <2>6. CASE UNCHANGED vars
    BY <2>6, OtherStepsKeepFiles, Zenon DEF vars
  <2>7. CASE WriteHeader(c)
    BY <2>1, <2>7, WriteHeaderKeepsFiles, Zenon
  <2>8. CASE WriteDirectory(c)
    BY <2>1, <2>8, CreateAppears, RemoveTakesAway
  <2> QED
    BY <2>2, <2>3, <2>4, <2>5, <2>6, <2>7, <2>8, Zenon DEF Next
<1>3. Spec => []FileSystemInv
  BY FileSystemIsConsistent
<1> QED
  BY <1>1, <1>2, <1>3, PTL DEF Spec, ImplementsFileSystem, AFS!Spec
==============================================================================
