----------------------------- MODULE FileSystem -----------------------------
(***************************************************************************)
(* filesys/filesys.cc with the parts of directory.cc, filehdr.cc and       *)
(* bitmap.cc it is made of: Create, Open and Remove as the sequence of     *)
(* reads and writes of the disk they are.  Between two of them the caller  *)
(* waits in SynchDisk, so another caller may run, or Nachos may stop.      *)
(*                                                                         *)
(* The header of a file is its length and the set of its data sectors;     *)
(* their order is in OpenFile.  A name is what FileNameMaxLen leaves of it.*)
(***************************************************************************)
EXTENDS Integers, FiniteSets

CONSTANTS
  Clients,         \* the threads that call the file system
  Names,
  Sizes,           \* the sizes of Create
  NumSectors, SectorSize,
  BitsInWord,
  NumDirEntries,
  SystemSectors,   \* those of the bitmap and of the directory, headers included
  NumDirect        \* the data sectors a header has room for

AllSectors == 0 .. NumSectors - 1
Entries == 1 .. NumDirEntries

ASSUME FileSystemAssumption ==
  /\ NumDirEntries \in Nat
  /\ {NumSectors, SectorSize, BitsInWord} \subseteq Nat \ {0}
  /\ NumDirect \in Nat
  /\ Sizes \subseteq 0 .. NumDirect * SectorSize   \* Allocate does not compare them
  /\ SystemSectors \subseteq AllSectors

VARIABLES
  freeMap, directory, header,   \* on the disk
  pc,                           \* where a client is
  call,                         \* its call: the operation, the name, the size
  dir, map, hdr, sector         \* its local variables directory, freeMap, hdr, sector

disk == <<freeMap, directory, header>>
vars == <<freeMap, directory, header, pc, call, dir, map, hdr, sector>>

-----------------------------------------------------------------------------
(* directory.cc, filehdr.cc *)

BM == INSTANCE BitMap WITH numBits <- NumSectors

DivRoundUp(n, s) == IF n % s = 0 THEN n \div s ELSE n \div s + 1

\* Mutant: sectors are taken whether they are clear or not.
AllocatesAny(m, size, data) ==
  /\ data \subseteq AllSectors
  /\ Cardinality(data) = DivRoundUp(size, SectorSize)
  /\ \A s \in data, t \in AllSectors \ data : s < t

\* What n calls of Find return: the first n sectors that are clear.
FirstClear(m, n, data) ==
  /\ data \subseteq AllSectors \ BM!Marked(m)
  /\ Cardinality(data) = n
  /\ \A s \in data, t \in AllSectors \ (BM!Marked(m) \cup data) : s < t

\* FileHeader::Allocate, if there are enough.  It leaves MarkAll(m, data).
Allocates(m, size, data) == FirstClear(m, DivRoundUp(size, SectorSize), data)

\* Mutant: the data sectors stay marked.
DeallocatedNot(m, h) == m

\* FileHeader::Deallocate asserts that the data sectors are marked, and clears them.
CanDeallocate(m, h) == \A s \in h.data : BM!Test(m, s)
Deallocated(m, h) == BM!ClearAll(m, h.data)

\* Directory::FindIndex finds entry i.
IsIndex(d, name, i) ==
  /\ d[i].inUse /\ d[i].name = name
  /\ \A j \in Entries : d[j].inUse /\ d[j].name = name => i <= j

Listed(d, name) == \E i \in Entries : d[i].inUse /\ d[i].name = name

\* Directory::Remove
Removed(d, name) ==
  [i \in Entries |-> IF IsIndex(d, name, i) THEN [d[i] EXCEPT !.inUse = FALSE] ELSE d[i]]

\* Directory::Add puts the file into entry i.
IsFreeEntry(d, i) == ~d[i].inUse /\ \A j \in Entries : ~d[j].inUse => i <= j

-----------------------------------------------------------------------------
NoHeader == [numBytes |-> 0, data |-> {}]

EmptyDirectory(name) == [i \in Entries |-> [inUse |-> FALSE, name |-> name, sector |-> 0]]

\* A disk that the constructor has just formatted.  Entries that are not in use
\* hold whatever was in memory.
Init ==
  /\ \E m \in BM!NewBitMap : freeMap = BM!MarkAll(m, SystemSectors)
  /\ \E name \in Names : directory = EmptyDirectory(name)
  /\ header = [s \in AllSectors |-> NoHeader]
  /\ pc = [c \in Clients |-> "idle"]
  /\ call \in [Clients -> [op : {"Open"}, name : Names, size : {0}]]
  /\ dir = [c \in Clients |-> directory]
  /\ map = [c \in Clients |-> freeMap]
  /\ hdr = [c \in Clients |-> NoHeader]
  /\ sector = [c \in Clients |-> 0]

Goto(c, place) == pc' = [pc EXCEPT ![c] = place]

Call(c, op, name, size) ==
  /\ pc[c] = "idle"
  /\ call' = [call EXCEPT ![c] = [op |-> op, name |-> name, size |-> size]]
  /\ Goto(c, "fetchDirectory")
  /\ UNCHANGED <<disk, dir, map, hdr, sector>>

\* The three operations begin by fetching the directory and looking for the name.
FetchDirectory(c) ==
  /\ pc[c] = "fetchDirectory"
  /\ dir' = [dir EXCEPT ![c] = directory]
  /\ IF call[c].op = "Create" <=> Listed(directory, call[c].name)
     THEN Goto(c, "idle") /\ UNCHANGED sector   \* return false or NULL
     ELSE IF call[c].op = "Create"
     THEN Goto(c, "fetchMap") /\ UNCHANGED sector
     ELSE /\ \E i \in Entries :
               /\ IsIndex(directory, call[c].name, i)
               /\ sector' = [sector EXCEPT ![c] = directory[i].sector]
          /\ Goto(c, "fetchHeader")
  /\ UNCHANGED <<disk, call, map, hdr>>

\* Remove fetches the header; Open does so in the constructor of OpenFile, and
\* returns it.
FetchHeader(c) ==
  /\ pc[c] = "fetchHeader"
  /\ hdr' = [hdr EXCEPT ![c] = header[sector[c]]]
  /\ Goto(c, IF call[c].op = "Open" THEN "idle" ELSE "fetchMap")
  /\ UNCHANGED <<disk, call, dir, map, sector>>

\* Create fetches the map and changes its copies of map and directory: entry i is for
\* the file, sector s for its header.
CreateFileWith(c, m, s, data, i) ==
  /\ pc[c] = "fetchMap" /\ call[c].op = "Create"
  /\ BM!Finds(freeMap, s)
  /\ IsFreeEntry(dir[c], i)
  /\ BM!NumClear(m) >= DivRoundUp(call[c].size, SectorSize)
  /\ Allocates(m, call[c].size, data)
  /\ dir' = [dir EXCEPT ![c][i] = [inUse |-> TRUE, name |-> call[c].name, sector |-> s]]
  /\ map' = [map EXCEPT ![c] = BM!MarkAll(m, data)]
  /\ hdr' = [hdr EXCEPT ![c] = [numBytes |-> call[c].size, data |-> data]]
  /\ sector' = [sector EXCEPT ![c] = s]
  /\ Goto(c, "writeHeader")
  /\ UNCHANGED <<disk, call>>

\* Mutant: the sector of the header is not marked.
CreateFileUnmarked(c) ==
  \E s \in AllSectors, i \in Entries, data \in SUBSET AllSectors :
    CreateFileWith(c, freeMap, s, data, i)

CreateFile(c) ==
  \E s \in AllSectors, i \in Entries, data \in SUBSET AllSectors :
    CreateFileWith(c, BM!Mark(freeMap, s), s, data, i)

\* There is no sector for the header, no entry in the directory, or no space for
\* the data: the copies are thrown away.
CreateFails(c) ==
  /\ pc[c] = "fetchMap" /\ call[c].op = "Create"
  /\ \/ \A s \in AllSectors : ~BM!Finds(freeMap, s)   \* it returns -1
     \/ \A i \in Entries : dir[c][i].inUse
     \/ BM!NumClear(freeMap) - 1 < DivRoundUp(call[c].size, SectorSize)
  /\ Goto(c, "idle")
  /\ UNCHANGED <<disk, call, dir, map, hdr, sector>>

\* Remove fetches the map and changes its copies.
RemoveFile(c) ==
  /\ pc[c] = "fetchMap" /\ call[c].op = "Remove"
  /\ CanDeallocate(freeMap, hdr[c])
  /\ map' = [map EXCEPT ![c] = BM!Clear(Deallocated(freeMap, hdr[c]), sector[c])]
  /\ dir' = [dir EXCEPT ![c] = Removed(@, call[c].name)]
  /\ Goto(c, "writeMap")
  /\ UNCHANGED <<disk, call, hdr, sector>>

\* Create writes the header, the directory and the map; Remove the map and the
\* directory.
WriteHeader(c) ==
  /\ pc[c] = "writeHeader"
  /\ header' = [header EXCEPT ![sector[c]] = hdr[c]]
  /\ Goto(c, "writeDirectory")
  /\ UNCHANGED <<freeMap, directory, call, dir, map, hdr, sector>>

WriteDirectory(c) ==
  /\ pc[c] = "writeDirectory"
  /\ directory' = dir[c]
  /\ Goto(c, IF call[c].op = "Create" THEN "writeMap" ELSE "idle")
  /\ UNCHANGED <<freeMap, header, call, dir, map, hdr, sector>>

WriteMap(c) ==
  /\ pc[c] = "writeMap"
  /\ freeMap' = map[c]
  /\ Goto(c, IF call[c].op = "Create" THEN "idle" ELSE "writeDirectory")
  /\ UNCHANGED <<directory, header, call, dir, map, hdr, sector>>

Next ==
  \E c \in Clients :
    \/ \E name \in Names :
         \/ \E size \in Sizes : Call(c, "Create", name, size)
         \/ \E op \in {"Open", "Remove"} : Call(c, op, name, 0)
    \/ FetchDirectory(c)
    \/ FetchHeader(c)
    \/ CreateFile(c)
    \/ CreateFails(c)
    \/ RemoveFile(c)
    \/ WriteHeader(c)
    \/ WriteDirectory(c)
    \/ WriteMap(c)

Spec == Init /\ [][Next]_vars

-----------------------------------------------------------------------------
(* Properties *)

Headers == [numBytes : Nat, data : SUBSET AllSectors]
Directories == [Entries -> [inUse : BOOLEAN, name : Names, sector : AllSectors]]
Calls == [op : {"Create"}, name : Names, size : Sizes]
           \cup [op : {"Open", "Remove"}, name : Names, size : {0}]
Places == {"idle", "fetchDirectory", "fetchHeader", "fetchMap", "writeHeader",
           "writeDirectory", "writeMap"}

TypeOK ==
  /\ freeMap \in BM!BitMaps
  /\ directory \in Directories
  /\ header \in [AllSectors -> Headers]
  /\ pc \in [Clients -> Places]
  /\ call \in [Clients -> Calls]
  /\ dir \in [Clients -> Directories]
  /\ map \in [Clients -> BM!BitMaps]
  /\ hdr \in [Clients -> Headers]
  /\ sector \in [Clients -> AllSectors]

\* The sectors of the file in entry i of the directory on the disk.
Owned(i) == {directory[i].sector} \cup header[directory[i].sector].data

InUse == {i \in Entries : directory[i].inUse}

\* No name is in the directory twice.
NamesAreUnique ==
  \A i, j \in InUse : directory[i].name = directory[j].name => i = j

\* No sector belongs to two files, or to a file and the file system itself.
FilesAreDisjoint ==
  \A i \in InUse :
    /\ Owned(i) \cap SystemSectors = {}
    /\ directory[i].sector \notin header[directory[i].sector].data
    /\ \A j \in InUse : i # j => Owned(i) \cap Owned(j) = {}

\* The sectors of the files and of the file system.
Used == SystemSectors \cup UNION {Owned(i) : i \in InUse}

\* When no operation is going on, exactly the sectors of the files and of the
\* file system are marked: nothing leaks, nothing in use can be given away.
MapIsExact ==
  (\A c \in Clients : pc[c] = "idle") => BM!Marked(freeMap) = Used

\* Wherever Nachos stops, every file but the one that is being created or removed
\* is in the directory with its sectors marked.
StopSparesOthers ==
  \A i \in InUse :
    (\A c \in Clients : pc[c] # "idle" => call[c].name # directory[i].name) =>
      Owned(i) \subseteq BM!Marked(freeMap)

\* Deallocate finds the sectors it frees marked, as it asserts.
DeallocateFindsMarked ==
  \A c \in Clients :
    pc[c] = "fetchMap" /\ call[c].op = "Remove" => CanDeallocate(freeMap, hdr[c])

\* Entry i of the directory is that of the file that c works on.
InHand(c, i) == i \in InUse /\ directory[i].name = call[c].name

\* Open or Remove has found its file.
Found(c) ==
  /\ BM!Marked(freeMap) = Used
  /\ dir[c] = directory
  /\ \E i \in Entries : InHand(c, i) /\ sector[c] = directory[i].sector

\* Create has found no file of that name.
Lacking(c) ==
  /\ BM!Marked(freeMap) = Used
  /\ dir[c] = directory
  /\ ~Listed(directory, call[c].name)

\* Create has a free entry and sectors for a file that is not in the directory yet.
Creating(c) ==
  /\ BM!Marked(freeMap) = Used
  /\ ~Listed(directory, call[c].name)
  /\ \E i \in Entries \ InUse :
       dir[c] = [directory EXCEPT
                   ![i] = [inUse |-> TRUE, name |-> call[c].name, sector |-> sector[c]]]
  /\ ({sector[c]} \cup hdr[c].data) \cap Used = {}
  /\ sector[c] \notin hdr[c].data
  /\ BM!Marked(map[c]) = Used \cup {sector[c]} \cup hdr[c].data
  /\ hdr[c].numBytes = call[c].size

\* The file is in the directory, and its sectors are marked only in the copy.
Created(c) ==
  /\ BM!Marked(map[c]) = Used
  /\ \A i \in InUse : ~InHand(c, i) => Owned(i) \subseteq BM!Marked(freeMap)

\* The file is still in the directory, and m is the map without its sectors.
Removing(c, m) ==
  \E i \in Entries :
    /\ InHand(c, i)
    /\ dir[c] = [directory EXCEPT ![i].inUse = FALSE]
    /\ BM!Marked(m) = Used \ Owned(i)

\* What the local variables of an operation have to do with the disk at each place.
Progress(c) ==
  \/ pc[c] \in {"idle", "fetchDirectory"} /\ BM!Marked(freeMap) = Used
  \/ pc[c] = "fetchHeader" /\ call[c].op # "Create" /\ Found(c)
  \/ pc[c] = "fetchMap" /\ call[c].op = "Create" /\ Lacking(c)
  \/ pc[c] = "writeHeader" /\ call[c].op = "Create" /\ Creating(c)
  \/ /\ pc[c] = "writeDirectory" /\ call[c].op = "Create"
     /\ Creating(c) /\ header[sector[c]] = hdr[c]
  \/ pc[c] = "writeMap" /\ call[c].op = "Create" /\ Created(c)
  \/ /\ pc[c] = "fetchMap" /\ call[c].op = "Remove"
     /\ Found(c) /\ hdr[c] = header[sector[c]]
  \/ /\ pc[c] = "writeMap" /\ call[c].op = "Remove"
     /\ Removing(c, map[c]) /\ BM!Marked(freeMap) = Used
  \/ pc[c] = "writeDirectory" /\ call[c].op = "Remove" /\ Removing(c, freeMap)

\* What is on the disk makes sense at every moment: names and sectors belong to one
\* file, a Remove finds the sectors it frees marked, and what an operation has yet to
\* write leads from the disk as it is to one that is consistent.
FileSystemInv ==
  /\ TypeOK
  /\ NamesAreUnique
  /\ FilesAreDisjoint
  /\ DeallocateFindsMarked
  /\ \A c \in Clients : Progress(c)

\* The files a reader of the disk sees.
FilesOnDisk ==
  [n \in {directory[i].name : i \in InUse} |->
     header[directory[CHOOSE i \in InUse : directory[i].name = n].sector].numBytes]

AFS == INSTANCE AbstractFileSystem WITH files <- FilesOnDisk

\* Create, Open and Remove implement the promised operations: the file appears or
\* goes at once, with the size it was given, and no other file changes.
ImplementsFileSystem == AFS!Spec
==============================================================================
