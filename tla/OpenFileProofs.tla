--------------------------- MODULE OpenFileProofs ---------------------------
(***************************************************************************)
(* Read and Write of one file by any handles, for any length of the file,  *)
(* size of a sector and placing of the sectors on the disk.                *)
(*                                                                         *)
(* OpenFileInv is inductive: a buffer in the middle of ReadAt or WriteAt   *)
(* has what the file has, except where another handle is in the same       *)
(* sector, and such a sector is contended for from the moment at which the *)
(* second of the two handles came to it.                                   *)
(***************************************************************************)
EXTENDS OpenFile, TLAPS

-----------------------------------------------------------------------------
(* Offsets and sectors *)

\* The sector of the file that holds an offset, and the place in it.
LEMMA Division ==
  ASSUME NEW k \in Nat
  PROVE  /\ DivRoundDown(k) \in Nat /\ k % SectorSize \in 0 .. SectorSize - 1
         /\ k = DivRoundDown(k) * SectorSize + (k % SectorSize)
         /\ DivRoundDown(k) * SectorSize <= k /\ k < (DivRoundDown(k) + 1) * SectorSize
  BY OpenFileAssumption, Z3 DEF DivRoundDown

\* An offset is in the sector of the file that the division gives.
LEMMA SpanIs ==
  ASSUME NEW k \in Nat, NEW i \in Nat
  PROVE  k \in Span(i) <=> DivRoundDown(k) = i
<1>1. SectorSize \in Nat \ {0}
  BY OpenFileAssumption
<1>2. i * SectorSize <= k /\ k < (i + 1) * SectorSize => DivRoundDown(k) = i
  BY <1>1, Z3 DEF DivRoundDown
<1>3. k \in Span(i) <=> i * SectorSize <= k /\ k < (i + 1) * SectorSize
  BY <1>1, Z3 DEF Span
<1> QED BY <1>2, <1>3, Division, Zenon

\* A sector begins at a multiple of the size.
LEMMA SectorBegins ==
  ASSUME NEW i \in Nat
  PROVE  i * SectorSize \in Nat /\ DivRoundDown(i * SectorSize) = i
<1>1. SectorSize \in Nat \ {0}
  BY OpenFileAssumption
<1> QED BY <1>1, Z3 DEF DivRoundDown

\* Products of sectors with the size are ordered as the sectors.
LEMMA SectorsAreOrdered ==
  ASSUME NEW i \in Nat, NEW j \in Nat, i <= j
  PROVE  i * SectorSize <= j * SectorSize
<1>1. SectorSize \in Nat \ {0}
  BY OpenFileAssumption
<1> QED BY <1>1, Z3

\* A later offset is in the same or a later sector.
LEMMA DivisionIsMonotone ==
  ASSUME NEW j \in Nat, NEW k \in Nat, j <= k
  PROVE  DivRoundDown(j) <= DivRoundDown(k)
<1>1. SectorSize \in Nat \ {0}
  BY OpenFileAssumption
<1> QED BY <1>1, Z3 DEF DivRoundDown

\* The offsets of a buffer are those of its sectors.
LEMMA ExtentIs ==
  ASSUME NEW i \in Nat, NEW j \in Nat, NEW k \in Nat
  PROVE  k \in Extent(i, j) <=> DivRoundDown(k) \in i .. j
<1>1. SectorSize \in Nat \ {0}
  BY OpenFileAssumption
<1>2. k \in Extent(i, j) <=> i * SectorSize <= k /\ k < (j + 1) * SectorSize
  BY <1>1, Z3 DEF Extent
<1>3. i * SectorSize <= k <=> i <= DivRoundDown(k)
  BY <1>1, Z3 DEF DivRoundDown
<1>4. k < (j + 1) * SectorSize <=> DivRoundDown(k) <= j
  BY <1>1, Z3 DEF DivRoundDown
<1>5. DivRoundDown(k) \in Nat
  BY Division
<1> QED BY <1>2, <1>3, <1>4, <1>5

\* What is in a buffer is not before the file.
LEMMA ExtentIsNat ==
  ASSUME NEW i \in Nat, NEW j \in Nat
  PROVE  Extent(i, j) \subseteq Nat /\ Span(i) \subseteq Nat
<1>1. i * SectorSize \in Nat
  BY SectorBegins
<1>2. (i + 1) * SectorSize \in Nat /\ (j + 1) * SectorSize \in Nat
  BY SectorBegins
<1> QED BY <1>1, <1>2 DEF Extent, Span

\* The offsets of the file are in its sectors.
LEMMA OffsetIsInFile ==
  ASSUME NEW k \in Offsets
  PROVE  /\ k \in Nat /\ DivRoundDown(k) \in FileSectors
         /\ ByteToSector(k) = dataSectors[DivRoundDown(k)] /\ ByteToSector(k) \in Sectors
<1>1. k \in Nat /\ FileLength - 1 \in Nat /\ k <= FileLength - 1
  BY OpenFileAssumption DEF Offsets
<1>2. DivRoundDown(k) \in FileSectors
  BY <1>1, Division, DivisionIsMonotone DEF FileSectors
<1> QED BY <1>1, <1>2, OpenFileAssumption, Zenon DEF ByteToSector, DivRoundDown

\* The sectors of the file are numbers, and where they are on the disk.
LEMMA FileSectorIs ==
  ASSUME NEW i \in FileSectors
  PROVE  i \in Nat /\ ByteToSector(i * SectorSize) = dataSectors[i] /\ dataSectors[i] \in Sectors
<1>1. i \in Nat
  BY DEF FileSectors
<1> QED BY <1>1, SectorBegins, OpenFileAssumption, Zenon DEF ByteToSector, DivRoundDown

\* Between sectors of the file are sectors of the file.
LEMMA SectorsBetween ==
  ASSUME NEW i \in FileSectors, NEW j \in FileSectors, NEW k \in i .. j
  PROVE  k \in FileSectors /\ k \in Nat /\ i \in Nat /\ j \in Nat
<1>1. DivRoundDown(FileLength - 1) \in Nat
  <2>1. FileLength - 1 \in Nat
    BY OpenFileAssumption
  <2> QED BY <2>1, Division
<1> QED BY <1>1 DEF FileSectors

\* No call, no buffer.
LEMMA NothingIsEmpty == Extent(DivRoundDown(0), DivRoundDown(0 + 0 - 1)) = {}
<1>1. SectorSize \in Nat \ {0}
  BY OpenFileAssumption
<1>2. DivRoundDown(0) = 0 /\ DivRoundDown(0 + 0 - 1) = -1
  BY <1>1, Z3 DEF DivRoundDown
<1>3. 0 * SectorSize = 0 /\ (-1 + 1) * SectorSize = 0
  BY <1>1
<1> QED BY <1>2, <1>3 DEF Extent

\* Two offsets are not in the same place of the disk.
LEMMA PlacesDiffer ==
  ASSUME NEW j \in Offsets, NEW k \in Offsets,
         ByteToSector(j) = ByteToSector(k), j % SectorSize = k % SectorSize
  PROVE  j = k
<1>1. DivRoundDown(j) = DivRoundDown(k)
  BY OffsetIsInFile, OpenFileAssumption, Zenon
<1>2. /\ j = DivRoundDown(j) * SectorSize + (j % SectorSize)
      /\ k = DivRoundDown(k) * SectorSize + (k % SectorSize)
  BY OffsetIsInFile, Division, Zenon
<1> QED BY <1>1, <1>2, Zenon
-----------------------------------------------------------------------------
(* Handles *)

Places == {"idle", "read", "first", "last", "write", "return"}

\* The part of the invariant that is about one handle.
HandleInv(h) ==
  /\ InFile(h) /\ ReadSoFar(h) /\ FirstIsRead(h) /\ WriteSoFar(h)
  /\ pc[h] = "return" => \A k \in Request(h) : Fresh(h, k)

\* What a step of h leaves alone: the calls of the other handles.
Own(h) ==
  \A g \in Handles \ {h} :
    /\ pc'[g] = pc[g] /\ position'[g] = position[g] /\ numBytes'[g] = numBytes[g]
    /\ value'[g] = value[g] /\ sector'[g] = sector[g] /\ buf'[g] = buf[g]

\* The types of a handle's variables.
LEMMA HandleTypes ==
  ASSUME TypeOK, NEW h \in Handles
  PROVE  /\ seekPosition[h] \in Nat /\ pc[h] \in Places
         /\ position[h] \in Nat /\ numBytes[h] \in Nat
         /\ value[h] \in Values \cup {Junk} /\ sector[h] \in Nat
         /\ buf[h] \in [Extent(First(h), Last(h)) -> Bytes \cup {Junk}]
  BY Zenon DEF TypeOK, Places

\* A request is in the sectors from First to Last, which are sectors of the file.
LEMMA RequestIs ==
  ASSUME TypeOK, NEW h \in Handles, InFile(h), pc[h] # "idle"
  PROVE  /\ First(h) \in FileSectors /\ Last(h) \in FileSectors /\ First(h) <= Last(h)
         /\ Request(h) \subseteq Offsets
         /\ \A k \in Request(h) : DivRoundDown(k) \in First(h) .. Last(h)
         /\ \A k \in Offsets : k \in Request(h) <=>
              position[h] <= k /\ k < position[h] + numBytes[h]
<1>1. /\ position[h] \in Nat /\ numBytes[h] \in Nat /\ numBytes[h] > 0
      /\ position[h] + numBytes[h] <= FileLength /\ FileLength \in Nat
  BY HandleTypes, OpenFileAssumption DEF InFile
<1>2. /\ position[h] \in Offsets /\ position[h] + numBytes[h] - 1 \in Offsets
      /\ position[h] <= position[h] + numBytes[h] - 1
  BY <1>1 DEF Offsets
<1>3. First(h) \in FileSectors /\ Last(h) \in FileSectors
  BY <1>2, OffsetIsInFile, Zenon DEF First, Last
<1>4. First(h) <= Last(h)
  BY <1>2, OffsetIsInFile, DivisionIsMonotone, Zenon DEF First, Last
<1>5. /\ Request(h) \subseteq Offsets
      /\ \A k \in Offsets : k \in Request(h) <=>
           position[h] <= k /\ k < position[h] + numBytes[h]
  BY <1>1 DEF Request, Offsets
<1>6. ASSUME NEW k \in Request(h) PROVE DivRoundDown(k) \in First(h) .. Last(h)
  <2>1. /\ k \in Offsets /\ k \in Nat /\ position[h] <= k
        /\ k <= position[h] + numBytes[h] - 1 /\ position[h] + numBytes[h] - 1 \in Nat
    BY <1>1, <1>5 DEF Request, Offsets
  <2>2. First(h) <= DivRoundDown(k) /\ DivRoundDown(k) <= Last(h) /\ DivRoundDown(k) \in Nat
    BY <1>1, <2>1, DivisionIsMonotone, Division, Zenon DEF First, Last
  <2>3. First(h) \in Nat /\ Last(h) \in Nat
    BY <1>3, FileSectorIs, Zenon
  <2> QED BY <2>2, <2>3
<1> QED BY <1>3, <1>4, <1>5, <1>6, Zenon

\* What is outside a request in its sectors is in the first one or in the last one, and
\* then that one is written in part.
LEMMA AroundRequest ==
  ASSUME TypeOK, NEW h \in Handles, InFile(h), pc[h] # "idle",
         NEW k \in Offsets, DivRoundDown(k) \in First(h) .. Last(h), k \notin Request(h)
  PROVE  \/ DivRoundDown(k) = First(h) /\ ~FirstAligned(h)
         \/ DivRoundDown(k) = Last(h) /\ ~LastAligned(h)
<1>1. /\ position[h] \in Nat /\ numBytes[h] \in Nat /\ numBytes[h] > 0
      /\ position[h] + numBytes[h] - 1 \in Nat
  BY HandleTypes DEF InFile
<1>2. /\ k \in Nat /\ DivRoundDown(k) \in Nat /\ First(h) \in Nat /\ Last(h) \in Nat
      /\ DivRoundDown(k) * SectorSize <= k /\ k < (DivRoundDown(k) + 1) * SectorSize
  BY OffsetIsInFile, RequestIs, FileSectorIs, Division, Zenon
<1>3. (Last(h) + 1) * SectorSize \in Nat /\ First(h) * SectorSize \in Nat
  BY <1>2, SectorBegins
<1>4. CASE k < position[h]
  <2>1. DivRoundDown(k) <= First(h)
    BY <1>1, <1>2, <1>4, DivisionIsMonotone DEF First
  <2>2. DivRoundDown(k) = First(h)
    BY <1>2, <2>1
  <2>3. First(h) * SectorSize < position[h]
    BY <1>1, <1>2, <1>3, <1>4, <2>2
  <2> QED BY <1>1, <1>3, <2>2, <2>3 DEF FirstAligned
<1>5. CASE k >= position[h] + numBytes[h]
  <2>1. Last(h) <= DivRoundDown(k)
    BY <1>1, <1>2, <1>5, DivisionIsMonotone DEF Last
  <2>2. DivRoundDown(k) = Last(h)
    BY <1>2, <2>1
  <2>3. position[h] + numBytes[h] < (Last(h) + 1) * SectorSize
    BY <1>1, <1>2, <1>3, <1>5, <2>2
  <2> QED BY <1>1, <1>3, <2>2, <2>3 DEF LastAligned
<1> QED BY <1>1, <1>2, <1>4, <1>5, RequestIs

\* Where the byte at an offset of a sector is on the disk.
LEMMA OnDiskIs ==
  ASSUME NEW k \in Offsets, NEW i \in FileSectors, DivRoundDown(k) = i
  PROVE  k \in Span(i) /\ OnDisk(i)[k] = Content(k)
<1>1. k \in Nat /\ i \in Nat /\ k \in Span(i)
  BY OffsetIsInFile, FileSectorIs, SpanIs, Zenon
<1>2. ByteToSector(k) = ByteToSector(i * SectorSize)
  BY OffsetIsInFile, FileSectorIs, Zenon
<1> QED BY <1>1, <1>2, Zenon DEF OnDisk, Content

\* A sector that a handle uses and does not write is on the disk as it is in the file,
\* unless it is contended for.
LEMMA DiskIsFile ==
  ASSUME OpenFileInv, NEW h \in Handles, pc[h] \notin {"idle", "write"},
         NEW k \in Offsets, DivRoundDown(k) \in First(h) .. Last(h)
  PROVE  InPlace(Content(k), k) /\ (Content(k) = file[k] \/ DivRoundDown(k) \in contended)
<1>1. InPlace(Content(k), k)
  BY Zenon DEF OpenFileInv, BytesInPlace
<1>2. ASSUME NEW g \in Handles, pc[g] = "write", k \in Request(g)
      PROVE  DivRoundDown(k) \in contended
  <2>1. DivRoundDown(k) \in First(g) .. Last(g)
    BY <1>2, RequestIs DEF OpenFileInv
  <2> QED BY <1>2, <2>1 DEF OpenFileInv, SharedIsContended
<1> QED BY <1>1, <1>2, Zenon DEF OpenFileInv, WriteIsExact

\* A handle does not notice what others do to sectors that it does not use, or that are
\* contended for.
LEMMA HandleIsKept ==
  ASSUME OpenFileInv, NEW g \in Handles, HandleInv(g),
         pc'[g] = pc[g], position'[g] = position[g], numBytes'[g] = numBytes[g],
         value'[g] = value[g], sector'[g] = sector[g], buf'[g] = buf[g],
         contended \subseteq contended',
         \A k \in Offsets : DivRoundDown(k) \in First(g) .. Last(g) =>
           \/ file'[k] = file[k] /\ Content(k)' = Content(k)
           \/ DivRoundDown(k) \in contended
  PROVE  HandleInv(g)'
<1>0. /\ First(g)' = First(g) /\ Last(g)' = Last(g) /\ Request(g)' = Request(g)
      /\ FirstAligned(g)' = FirstAligned(g)
  BY Zenon DEF First, Last, Request, FirstAligned
<1>1. InFile(g)'
  BY <1>0, Zenon DEF HandleInv, InFile
<1>2. CASE pc[g] = "idle"
  BY <1>1, <1>2 DEF HandleInv, ReadSoFar, FirstIsRead, WriteSoFar
<1>3. ASSUME pc[g] # "idle", NEW k \in Offsets, DivRoundDown(k) \in First(g) .. Last(g), Fresh(g, k)
      PROVE  Fresh(g, k)'
  BY <1>3, Zenon DEF Fresh
<1>4. ASSUME pc[g] # "idle"
      PROVE  /\ \A k \in Request(g) : k \in Offsets /\ DivRoundDown(k) \in First(g) .. Last(g)
             /\ \A k \in Span(First(g)) \cap Offsets : DivRoundDown(k) \in First(g) .. Last(g)
             /\ \A k \in Extent(First(g), Last(g)) \cap Offsets :
                  DivRoundDown(k) \in First(g) .. Last(g)
  <2>1. /\ First(g) \in FileSectors /\ Last(g) \in FileSectors /\ First(g) <= Last(g)
        /\ Request(g) \subseteq Offsets
        /\ \A k \in Request(g) : DivRoundDown(k) \in First(g) .. Last(g)
    BY <1>4, RequestIs DEF HandleInv, OpenFileInv
  <2>2. First(g) \in Nat /\ Last(g) \in Nat /\ First(g) \in First(g) .. Last(g)
    BY <2>1 DEF FileSectors
  <2>3. \A k \in Offsets : k \in Nat
    BY OffsetIsInFile
  <2> QED BY <2>1, <2>2, <2>3, SpanIs, ExtentIs
<1>5. ASSUME pc[g] # "idle" PROVE HandleInv(g)'
  <2>1. ReadSoFar(g)'
    BY <1>0, <1>3, <1>4, <1>5, Zenon DEF HandleInv, ReadSoFar
  <2>2. FirstIsRead(g)'
    BY <1>0, <1>3, <1>4, <1>5, Zenon DEF HandleInv, FirstIsRead
  <2>3. WriteSoFar(g)'
    <3> SUFFICES ASSUME pc[g] = "write", NEW k \in Extent(First(g), Last(g)) \cap Offsets
                 PROVE  IF k \in Request(g)
                        THEN /\ buf[g][k] = <<k, value[g]>>
                             /\ k < sector[g] * SectorSize =>
                                  Content(k)' = buf[g][k] \/ DivRoundDown(k) \in contended'
                        ELSE InPlace(buf[g][k], k) /\ Fresh(g, k)'
      BY <1>0, Zenon DEF WriteSoFar
    <3>1. DivRoundDown(k) \in First(g) .. Last(g)
      BY <1>4, <1>5, Zenon
    <3>2. CASE k \in Request(g)
      BY <3>1, <3>2, Zenon DEF HandleInv, WriteSoFar
    <3>3. CASE k \notin Request(g)
      BY <1>3, <1>5, <3>1, <3>3, Zenon DEF HandleInv, WriteSoFar
    <3> QED BY <3>2, <3>3, Zenon
  <2>4. pc[g] = "return" => \A k \in Request(g) : Fresh(g, k)'
    BY <1>3, <1>4, <1>5, Zenon DEF HandleInv
  <2> QED BY <1>0, <1>1, <2>1, <2>2, <2>3, <2>4, Zenon DEF HandleInv
<1> QED BY <1>2, <1>5
-----------------------------------------------------------------------------
(* Steps that leave disk and file alone *)

\* A step of h that changes neither the disk nor the file, and leaves h with what it
\* must have, keeps the invariant.
LEMMA QuietStep ==
  ASSUME OpenFileInv, ReadReturnsFile, NEW h \in Handles, Own(h), TypeOK', HandleInv(h)',
         UNCHANGED <<disk, file>>, contended \subseteq contended', pc[h] # "write",
         pc'[h] # "idle" =>
           \A g \in Handles \ {h} : pc[g] # "idle" =>
             (First(g) .. Last(g)) \cap (First(h)' .. Last(h)') \subseteq contended'
  PROVE  OpenFileInv' /\ ReadReturnsFile'
<1>1. \A k : Content(k)' = Content(k)
  BY Zenon DEF Content
<1>2. BytesInPlace'
  BY <1>1, Zenon DEF OpenFileInv, BytesInPlace
<1>3. \A g \in Handles \ {h} : First(g)' = First(g) /\ Last(g)' = Last(g) /\ Request(g)' = Request(g)
  BY Zenon DEF First, Last, Request, Own
<1>4. WriteIsExact'
  <2> SUFFICES ASSUME NEW k \in Offsets
               PROVE  \/ Content(k)' = file'[k]
                      \/ DivRoundDown(k) \in contended'
                      \/ \E g \in Handles : pc'[g] = "write" /\ k \in Request(g)'
    BY Zenon DEF WriteIsExact
  <2>1. CASE \E g \in Handles : pc[g] = "write" /\ k \in Request(g)
    BY <1>3, <2>1, Zenon DEF Own
  <2>2. CASE Content(k) = file[k]
    BY <1>1, <2>2, Zenon
  <2>3. CASE DivRoundDown(k) \in contended
    BY <2>3, Zenon
  <2> QED BY <2>1, <2>2, <2>3, Zenon DEF OpenFileInv, WriteIsExact
<1>5. ASSUME NEW g \in Handles PROVE HandleInv(g)'
  <2>1. CASE g = h
    BY <2>1
  <2>2. CASE g # h
    <3>1. HandleInv(g)
      BY Zenon DEF OpenFileInv, ReadReturnsFile, HandleInv
    <3> QED BY <1>1, <2>2, <3>1, HandleIsKept DEF Own
  <2> QED BY <2>1, <2>2
<1>6. SharedIsContended'
  <2> SUFFICES ASSUME NEW f \in Handles, NEW g \in Handles, f # g, pc'[f] # "idle", pc'[g] # "idle"
               PROVE  (First(f)' .. Last(f)') \cap (First(g)' .. Last(g)') \subseteq contended'
    BY Zenon DEF SharedIsContended
  <2>1. CASE f = h
    BY <1>3, <2>1 DEF Own
  <2>2. CASE g = h
    BY <1>3, <2>2 DEF Own
  <2>3. CASE f # h /\ g # h
    <3>1. (First(f) .. Last(f)) \cap (First(g) .. Last(g)) \subseteq contended
      BY <2>3, Zenon DEF Own, OpenFileInv, SharedIsContended
    <3> QED BY <1>3, <2>3, <3>1, Zenon
  <2> QED BY <2>1, <2>2, <2>3
<1> QED BY <1>2, <1>4, <1>5, <1>6, Zenon DEF OpenFileInv, ReadReturnsFile, HandleInv

\* A step that goes on with a call keeps its sectors, so that those it shares with
\* others are contended for already.
LEMMA GoesOn ==
  ASSUME OpenFileInv, NEW h \in Handles, pc[h] # "idle", UNCHANGED <<position, numBytes, contended>>
  PROVE  /\ First(h)' = First(h) /\ Last(h)' = Last(h) /\ Request(h)' = Request(h)
         /\ \A g \in Handles \ {h} : pc[g] # "idle" =>
              (First(g) .. Last(g)) \cap (First(h)' .. Last(h)') \subseteq contended'
<1>1. First(h)' = First(h) /\ Last(h)' = Last(h) /\ Request(h)' = Request(h)
  BY Zenon DEF First, Last, Request
<1> QED BY <1>1, Zenon DEF OpenFileInv, SharedIsContended

\* A new content of the buffer of h.
LEMMA BufferIsOwn ==
  ASSUME TypeOK, NEW h \in Handles, NEW b \in [Extent(First(h), Last(h)) -> Bytes \cup {Junk}],
         buf' = [buf EXCEPT ![h] = b], UNCHANGED <<position, numBytes>>
  PROVE  /\ buf'[h] = b /\ DOMAIN buf' = Handles
         /\ \A g \in Handles : buf'[g] \in [Extent(First(g)', Last(g)') -> Bytes \cup {Junk}]
         /\ \A g \in Handles \ {h} : buf'[g] = buf[g]
<1>1. DOMAIN buf = Handles
  BY DEF TypeOK
<1>2. buf'[h] = b /\ DOMAIN buf' = Handles /\ \A g \in Handles \ {h} : buf'[g] = buf[g]
  BY <1>1
<1>3. \A g \in Handles : First(g)' = First(g) /\ Last(g)' = Last(g)
  BY Zenon DEF First, Last
<1> QED BY <1>2, <1>3, HandleTypes, Zenon

\* Bytes put over those of a buffer.
LEMMA OverIs ==
  ASSUME NEW D, NEW b \in [D -> Bytes \cup {Junk}], NEW f,
         \A k \in D \cap DOMAIN f : f[k] \in Bytes \cup {Junk}
  PROVE  /\ Over(b, f) \in [D -> Bytes \cup {Junk}]
         /\ \A k \in D : Over(b, f)[k] = IF k \in DOMAIN f THEN f[k] ELSE b[k]
  BY DEF Over

\* Bytes of the disk are bytes.
LEMMA OnDiskType ==
  ASSUME TypeOK, NEW i \in FileSectors
  PROVE  DOMAIN OnDisk(i) = Span(i) /\ \A k \in Span(i) : OnDisk(i)[k] \in Bytes \cup {Junk}
<1>1. i \in Nat /\ ByteToSector(i * SectorSize) \in Sectors
  BY FileSectorIs, Zenon
<1>2. \A k \in Span(i) : k % SectorSize \in 0 .. SectorSize - 1
  BY <1>1, ExtentIsNat, Division
<1>3. disk \in [Sectors -> [0 .. SectorSize - 1 -> Bytes \cup {Junk}]]
  BY DEF TypeOK
<1> QED BY <1>1, <1>2, <1>3, Zenon DEF OnDisk

\* A step of the loop of ReadAt.
LEMMA ReadSectorStep ==
  ASSUME OpenFileInv, ReadReturnsFile, NEW h \in Handles, ReadSector(h)
  PROVE  OpenFileInv' /\ ReadReturnsFile'
<1>0. /\ TypeOK /\ HandleInv(h) /\ InFile(h) /\ pc[h] = "read"
      /\ UNCHANGED <<disk, seekPosition, position, numBytes, value, file, contended>>
      /\ pc \in [Handles -> Places] /\ sector \in [Handles -> Nat]
  BY Zenon DEF OpenFileInv, ReadReturnsFile, HandleInv, ReadSector, TypeOK, Places
<1>1. PICK i \in Nat : i = sector[h]
  BY <1>0
<1>2. /\ First(h) \in FileSectors /\ Last(h) \in FileSectors /\ First(h) <= Last(h)
      /\ Request(h) \subseteq Offsets
      /\ \A k \in Request(h) : DivRoundDown(k) \in First(h) .. Last(h)
  BY <1>0, RequestIs
<1>3. i \in First(h) .. Last(h) /\ i \in FileSectors /\ First(h) \in Nat /\ Last(h) \in Nat
  BY <1>0, <1>1, <1>2, SectorsBetween DEF InFile
<1>4. PICK b \in [Extent(First(h), Last(h)) -> Bytes \cup {Junk}] :
        /\ b = Over(buf[h], OnDisk(i))
        /\ \A k \in Extent(First(h), Last(h)) :
             b[k] = IF k \in Span(i) THEN OnDisk(i)[k] ELSE buf[h][k]
  BY <1>0, <1>3, OnDiskType, HandleTypes, OverIs
<1>5. /\ buf' = [buf EXCEPT ![h] = b]
      /\ sector' = [sector EXCEPT ![h] = i + 1]
      /\ pc' = [pc EXCEPT ![h] = IF i = Last(h) THEN "return" ELSE "read"]
  <2>1. DOMAIN buf = Handles
    BY <1>0 DEF TypeOK
  <2> QED BY <1>0, <1>1, <1>4, <2>1 DEF ReadSector, Goto
<1>6. /\ buf'[h] = b /\ DOMAIN buf' = Handles
      /\ \A g \in Handles : buf'[g] \in [Extent(First(g)', Last(g)') -> Bytes \cup {Junk}]
      /\ \A g \in Handles \ {h} : buf'[g] = buf[g]
  BY <1>0, <1>5, BufferIsOwn, Zenon
<1>7. /\ sector' \in [Handles -> Nat] /\ sector'[h] = i + 1
      /\ \A g \in Handles \ {h} : sector'[g] = sector[g]
  BY <1>0, <1>5
<1>8. /\ pc' \in [Handles -> Places] /\ pc'[h] = IF i = Last(h) THEN "return" ELSE "read"
      /\ \A g \in Handles \ {h} : pc'[g] = pc[g]
  BY <1>0, <1>5 DEF Places
<1>9. TypeOK' /\ Own(h)
  BY <1>0, <1>6, <1>7, <1>8, Zenon DEF TypeOK, Places, Own
<1>10. /\ First(h)' = First(h) /\ Last(h)' = Last(h) /\ Request(h)' = Request(h)
       /\ \A g \in Handles \ {h} : pc[g] # "idle" =>
            (First(g) .. Last(g)) \cap (First(h)' .. Last(h)') \subseteq contended'
  BY <1>0, GoesOn, Zenon
<1>11. ASSUME NEW k \in Request(h), k < (i + 1) * SectorSize PROVE Fresh(h, k)'
  <2>1. /\ k \in Offsets /\ k \in Nat /\ DivRoundDown(k) \in First(h) .. Last(h)
        /\ k \in Extent(First(h), Last(h))
    BY <1>2, <1>3, OffsetIsInFile, ExtentIs
  <2>2. CASE DivRoundDown(k) = i
    <3>1. b[k] = Content(k)
      BY <1>3, <1>4, <2>1, <2>2, OnDiskIs, Zenon
    <3>2. Content(k) = file[k] \/ DivRoundDown(k) \in contended
      BY <1>0, <2>1, DiskIsFile
    <3> QED BY <1>0, <1>6, <3>1, <3>2, Zenon DEF Fresh
  <2>3. CASE DivRoundDown(k) # i
    <3>1. b[k] = buf[h][k]
      BY <1>1, <1>4, <2>1, <2>3, SpanIs, Zenon
    <3>2. k < i * SectorSize
      <4>1. i * SectorSize \in Nat /\ (i + 1) * SectorSize \in Nat
        BY <1>3, SectorBegins
      <4>2. k \notin Span(i)
        BY <1>1, <2>1, <2>3, SpanIs, Zenon
      <4> QED BY <1>11, <2>1, <4>1, <4>2 DEF Span
    <3>3. Fresh(h, k)
      BY <1>0, <1>1, <3>2, Zenon DEF HandleInv, ReadSoFar
    <3> QED BY <1>0, <1>6, <3>1, <3>3, Zenon DEF Fresh
  <2> QED BY <2>2, <2>3
<1>12. InFile(h)'
  BY <1>0, <1>1, <1>3, <1>7, <1>8, <1>10, SMTT(60) DEF InFile
<1>13. ReadSoFar(h)' /\ FirstIsRead(h)' /\ WriteSoFar(h)'
  BY <1>7, <1>8, <1>10, <1>11 DEF ReadSoFar, FirstIsRead, WriteSoFar
<1>14. ASSUME i = Last(h), NEW k \in Request(h) PROVE k < (i + 1) * SectorSize
  <2>1. k \in Nat /\ DivRoundDown(k) \in Nat /\ DivRoundDown(k) <= i
    BY <1>2, <1>14, OffsetIsInFile, Division
  <2>2. k < (DivRoundDown(k) + 1) * SectorSize /\ (DivRoundDown(k) + 1) * SectorSize <= (i + 1) * SectorSize
    BY <1>1, <2>1, Division, SectorsAreOrdered, SMTT(60)
  <2>3. (DivRoundDown(k) + 1) * SectorSize \in Nat /\ (i + 1) * SectorSize \in Nat
    BY <1>1, <2>1, SectorBegins
  <2> QED BY <2>1, <2>2, <2>3
<1>15. HandleInv(h)'
  BY <1>8, <1>10, <1>11, <1>12, <1>13, <1>14 DEF HandleInv
<1> QED BY <1>0, <1>9, <1>10, <1>15, QuietStep
\* WriteAt reads the first sector, if need be.
LEMMA ReadFirstStep ==
  ASSUME OpenFileInv, ReadReturnsFile, NEW h \in Handles, ReadFirst(h)
  PROVE  OpenFileInv' /\ ReadReturnsFile'
<1>0. /\ TypeOK /\ InFile(h) /\ pc[h] = "first"
      /\ UNCHANGED <<disk, seekPosition, position, numBytes, value, sector, file, contended>>
      /\ pc \in [Handles -> Places] /\ DOMAIN buf = Handles
  BY Zenon DEF OpenFileInv, ReadFirst, TypeOK, Places
<1>1. First(h) \in FileSectors /\ Last(h) \in FileSectors /\ First(h) <= Last(h)
  BY <1>0, RequestIs
<1>2. First(h) \in Nat /\ Last(h) \in Nat /\ First(h) \in First(h) .. Last(h)
  BY <1>1 DEF FileSectors
<1>3. PICK b \in [Extent(First(h), Last(h)) -> Bytes \cup {Junk}] :
        /\ b = IF FirstAligned(h) THEN buf[h] ELSE Over(buf[h], Fetched(First(h)))
        /\ ~FirstAligned(h) =>
             \A k \in Extent(First(h), Last(h)) \cap Span(First(h)) \cap Offsets :
               b[k] = OnDisk(First(h))[k]
  <2>1. /\ DOMAIN Fetched(First(h)) = Span(First(h)) \cap Offsets
        /\ \A k \in Span(First(h)) \cap Offsets :
             Fetched(First(h))[k] = OnDisk(First(h))[k] /\ OnDisk(First(h))[k] \in Bytes \cup {Junk}
    BY <1>0, <1>1, OnDiskType, SMTT(60) DEF Fetched
  <2>2. buf[h] \in [Extent(First(h), Last(h)) -> Bytes \cup {Junk}]
    BY <1>0, HandleTypes
  <2>3. CASE FirstAligned(h)
    BY <2>2, <2>3, SMTT(60)
  <2>4. CASE ~FirstAligned(h)
    BY <2>1, <2>2, <2>4, OverIs
  <2> QED BY <2>3, <2>4
<1>4. buf' = [buf EXCEPT ![h] = b] /\ pc' = [pc EXCEPT ![h] = "last"]
  BY <1>0, <1>3 DEF ReadFirst, Goto
<1>5. /\ buf'[h] = b /\ DOMAIN buf' = Handles
      /\ \A g \in Handles : buf'[g] \in [Extent(First(g)', Last(g)') -> Bytes \cup {Junk}]
      /\ \A g \in Handles \ {h} : buf'[g] = buf[g]
  BY <1>0, <1>4, BufferIsOwn, Zenon
<1>6. /\ pc' \in [Handles -> Places] /\ pc'[h] = "last"
      /\ \A g \in Handles \ {h} : pc'[g] = pc[g]
  BY <1>0, <1>4 DEF Places
<1>7. TypeOK' /\ Own(h)
  BY <1>0, <1>5, <1>6, Zenon DEF TypeOK, Places, Own
<1>8. /\ First(h)' = First(h) /\ Last(h)' = Last(h) /\ Request(h)' = Request(h)
      /\ \A g \in Handles \ {h} : pc[g] # "idle" =>
           (First(g) .. Last(g)) \cap (First(h)' .. Last(h)') \subseteq contended'
  BY <1>0, GoesOn, Zenon
<1>9. FirstIsRead(h)'
  <2> SUFFICES ASSUME ~FirstAligned(h), NEW k \in Span(First(h)) \cap Offsets
               PROVE  InPlace(b[k], k) /\ Fresh(h, k)'
    BY <1>0, <1>5, <1>8, Zenon DEF FirstIsRead, FirstAligned
  <2>1. /\ k \in Offsets /\ k \in Nat /\ DivRoundDown(k) = First(h)
        /\ k \in Extent(First(h), Last(h))
    BY <1>2, OffsetIsInFile, SpanIs, ExtentIs
  <2>2. b[k] = Content(k)
    BY <1>1, <1>3, <2>1, OnDiskIs
  <2>3. InPlace(Content(k), k) /\ (Content(k) = file[k] \/ DivRoundDown(k) \in contended)
    BY <1>0, <1>2, <2>1, DiskIsFile, SMTT(60)
  <2> QED BY <1>0, <1>5, <2>2, <2>3, Zenon DEF Fresh
<1>10. HandleInv(h)'
  BY <1>0, <1>6, <1>8, <1>9 DEF HandleInv, InFile, ReadSoFar, WriteSoFar
<1> QED BY <1>0, <1>6, <1>7, <1>8, <1>10, QuietStep

\* WriteAt reads the last sector, if need be, and puts the new bytes into the buffer.
LEMMA ReadLastStep ==
  ASSUME OpenFileInv, ReadReturnsFile, NEW h \in Handles, ReadLast(h)
  PROVE  OpenFileInv' /\ ReadReturnsFile'
<1>0. /\ TypeOK /\ InFile(h) /\ FirstIsRead(h) /\ pc[h] = "last"
      /\ UNCHANGED <<disk, seekPosition, position, numBytes, value, sector, file, contended>>
      /\ pc \in [Handles -> Places] /\ DOMAIN buf = Handles
  BY Zenon DEF OpenFileInv, ReadLast, TypeOK, Places
<1>1. /\ First(h) \in FileSectors /\ Last(h) \in FileSectors /\ First(h) <= Last(h)
      /\ Request(h) \subseteq Offsets
      /\ \A k \in Request(h) : DivRoundDown(k) \in First(h) .. Last(h)
  BY <1>0, RequestIs
<1>2. /\ First(h) \in Nat /\ Last(h) \in Nat
      /\ First(h) \in First(h) .. Last(h) /\ Last(h) \in First(h) .. Last(h)
  BY <1>1, SMTT(60) DEF FileSectors
<1> DEFINE D == Extent(First(h), Last(h))
           fetch == ~LastAligned(h) /\ (First(h) # Last(h) \/ FirstAligned(h))
<1>3. PICK c \in [D -> Bytes \cup {Junk}] :
        /\ c = IF fetch THEN Over(buf[h], Fetched(Last(h))) ELSE buf[h]
        /\ \A k \in D : c[k] = IF fetch /\ k \in Span(Last(h)) \cap Offsets
                               THEN OnDisk(Last(h))[k] ELSE buf[h][k]
  <2>1. /\ DOMAIN Fetched(Last(h)) = Span(Last(h)) \cap Offsets
        /\ \A k \in Span(Last(h)) \cap Offsets :
             Fetched(Last(h))[k] = OnDisk(Last(h))[k] /\ OnDisk(Last(h))[k] \in Bytes \cup {Junk}
    BY <1>0, <1>1, OnDiskType DEF Fetched
  <2>2. buf[h] \in [D -> Bytes \cup {Junk}]
    BY <1>0, HandleTypes
  <2> HIDE DEF D, fetch
  <2>3. CASE ~fetch
    BY <2>2, <2>3
  <2>4. CASE fetch
    BY <2>1, <2>2, <2>4, OverIs
  <2> QED BY <2>3, <2>4
<1>4. value[h] \in Values
  BY <1>0 DEF InFile
<1>5. PICK b \in [D -> Bytes \cup {Junk}] :
        /\ b = Over(c, [k \in Request(h) |-> <<k, value[h]>>])
        /\ \A k \in D : b[k] = IF k \in Request(h) THEN <<k, value[h]>> ELSE c[k]
  <2>1. \A k \in Request(h) : <<k, value[h]>> \in Bytes
    BY <1>1, <1>4 DEF Bytes
  <2> DEFINE new == [k \in Request(h) |-> <<k, value[h]>>]
  <2>2. DOMAIN new = Request(h) /\ \A k \in Request(h) : new[k] = <<k, value[h]>>
    OBVIOUS
  <2> HIDE DEF D, new
  <2>3. /\ Over(c, new) \in [D -> Bytes \cup {Junk}]
        /\ \A k \in D : Over(c, new)[k] = IF k \in Request(h) THEN new[k] ELSE c[k]
    <3>1. \A k \in D \cap DOMAIN new : new[k] \in Bytes \cup {Junk}
      BY <2>1, <2>2
    <3>2. /\ Over(c, new) \in [D -> Bytes \cup {Junk}]
          /\ \A k \in D : Over(c, new)[k] = IF k \in DOMAIN new THEN new[k] ELSE c[k]
      BY <3>1, OverIs, ZenonT(60)
    <3> QED BY <2>2, <3>2, Zenon
  <2> QED BY <2>2, <2>3, Zenon DEF new
<1> HIDE DEF D
<1>6. buf' = [buf EXCEPT ![h] = b] /\ pc' = [pc EXCEPT ![h] = "write"]
  BY <1>0, <1>3, <1>5, Zenon DEF ReadLast, Goto
<1>7. /\ buf'[h] = b /\ DOMAIN buf' = Handles
      /\ \A g \in Handles : buf'[g] \in [Extent(First(g)', Last(g)') -> Bytes \cup {Junk}]
      /\ \A g \in Handles \ {h} : buf'[g] = buf[g]
  BY <1>0, <1>6, BufferIsOwn, Zenon DEF D
<1>8. /\ pc' \in [Handles -> Places] /\ pc'[h] = "write"
      /\ \A g \in Handles \ {h} : pc'[g] = pc[g]
  BY <1>0, <1>6 DEF Places
<1>9. TypeOK' /\ Own(h)
  BY <1>0, <1>7, <1>8, Zenon DEF TypeOK, Places, Own
<1>10. /\ First(h)' = First(h) /\ Last(h)' = Last(h) /\ Request(h)' = Request(h)
       /\ \A g \in Handles \ {h} : pc[g] # "idle" =>
            (First(g) .. Last(g)) \cap (First(h)' .. Last(h)') \subseteq contended'
  BY <1>0, GoesOn, Zenon
<1>11. ASSUME NEW k \in D \cap Offsets, k \notin Request(h)
       PROVE  InPlace(b[k], k) /\ (b[k] = file[k] \/ DivRoundDown(k) \in contended)
  <2>1. /\ k \in Offsets /\ k \in Nat /\ DivRoundDown(k) \in First(h) .. Last(h) /\ b[k] = c[k]
        /\ k \in D /\ DivRoundDown(k) \in Nat
    BY <1>2, <1>5, <1>11, OffsetIsInFile, ExtentIs, Division, Zenon DEF D
  <2>2. CASE DivRoundDown(k) = Last(h) /\ fetch
    <3>1. b[k] = Content(k)
      BY <1>1, <1>3, <2>1, <2>2, OnDiskIs
    <3> QED BY <1>0, <2>1, <3>1, DiskIsFile
  <2>3. CASE DivRoundDown(k) = First(h) /\ ~FirstAligned(h) /\ ~(DivRoundDown(k) = Last(h) /\ fetch)
    <3>1. b[k] = buf[h][k]
      BY <1>2, <1>3, <2>1, <2>3, SpanIs, SMTT(60)
    <3>2. InPlace(buf[h][k], k) /\ Fresh(h, k)
      BY <1>0, <1>2, <2>1, <2>3, SpanIs DEF FirstIsRead
    <3> QED BY <3>1, <3>2, Zenon DEF Fresh
  <2>4. \/ DivRoundDown(k) = First(h) /\ ~FirstAligned(h)
        \/ DivRoundDown(k) = Last(h) /\ ~LastAligned(h)
    BY <1>0, <1>11, <2>1, AroundRequest, SMTT(60)
  <2> QED BY <2>2, <2>3, <2>4, Zenon
<1>12. WriteSoFar(h)'
  <2> SUFFICES ASSUME NEW k \in D \cap Offsets
               PROVE  IF k \in Request(h)
                      THEN b[k] = <<k, value[h]>> /\ ~(k < sector[h] * SectorSize)
                      ELSE InPlace(b[k], k) /\ Fresh(h, k)'
    BY <1>0, <1>7, <1>8, <1>10, Zenon DEF WriteSoFar, D
  <2>1. sector[h] = First(h) /\ First(h) * SectorSize <= k
    BY <1>0, <1>2 DEF InFile, D, Extent
  <2>2. First(h) * SectorSize \in Nat /\ k \in Nat
    BY <1>2, SectorBegins, OffsetIsInFile
  <2>3. CASE k \in Request(h)
    BY <1>5, <2>1, <2>2, <2>3
  <2>4. CASE k \notin Request(h)
    BY <1>0, <1>7, <1>11, <2>4, ZenonT(60) DEF Fresh
  <2> QED BY <2>3, <2>4
<1>13. HandleInv(h)'
  BY <1>0, <1>2, <1>8, <1>10, <1>12, Zenon DEF HandleInv, InFile, ReadSoFar, FirstIsRead
<1> QED BY <1>0, <1>8, <1>9, <1>10, <1>13, QuietStep
\* Seek, and a call with nothing to do, move at most the seek position.
LEMMA SeekStep ==
  ASSUME OpenFileInv, ReadReturnsFile, seekPosition' \in [Handles -> Nat],
         UNCHANGED <<disk, pc, position, numBytes, value, sector, buf, file, contended>>
  PROVE  OpenFileInv' /\ ReadReturnsFile'
<1>1. /\ \A k : Content(k)' = Content(k)
      /\ \A h : First(h)' = First(h) /\ Last(h)' = Last(h) /\ Request(h)' = Request(h)
      /\ \A h : FirstAligned(h)' = FirstAligned(h)
      /\ \A h, k : Fresh(h, k)' = Fresh(h, k)
  BY Zenon DEF Content, First, Last, Request, FirstAligned, Fresh
<1>2. TypeOK' /\ BytesInPlace' /\ WriteIsExact' /\ SharedIsContended'
  BY <1>1, ZenonT(60) DEF OpenFileInv, TypeOK, BytesInPlace, WriteIsExact, SharedIsContended
<1>3. \A h \in Handles : InFile(h)' /\ ReadSoFar(h)' /\ FirstIsRead(h)' /\ WriteSoFar(h)'
  BY <1>1, ZenonT(60) DEF OpenFileInv, InFile, ReadSoFar, FirstIsRead, WriteSoFar
<1> QED BY <1>1, <1>2, <1>3, Zenon DEF OpenFileInv, ReadReturnsFile

\* A call of Read or Write that has something to do.
LEMMA BeginStep ==
  ASSUME OpenFileInv, ReadReturnsFile, NEW h \in Handles, NEW n \in Nat,
         NEW v \in Values \cup {Junk}, NEW to \in {"read", "first"}, to = "first" => v \in Values,
         Begin(h, n, v, to)
  PROVE  OpenFileInv' /\ ReadReturnsFile'
<1>0. /\ TypeOK /\ pc[h] = "idle" /\ UNCHANGED <<disk, seekPosition, file>>
      /\ DOMAIN buf = Handles
  BY Zenon DEF OpenFileInv, Begin, TypeOK
<1>1. PICK p \in Nat : p = seekPosition[h]
  BY <1>0, HandleTypes
<1>2. PICK m \in Nat : m = Cut(p, n)
  BY <1>1, OpenFileAssumption DEF Cut
<1>3. CASE m = 0
  <2>1. UNCHANGED <<pc, position, numBytes, value, sector, buf, contended>>
    BY <1>1, <1>2, <1>3, Zenon DEF Begin
  <2> QED BY <1>0, <2>1, SeekStep, Zenon DEF TypeOK
<1>4. CASE m # 0
  <2>1. m > 0 /\ p + m <= FileLength /\ p + m - 1 \in Nat /\ FileLength \in Nat
    BY <1>1, <1>2, <1>4, OpenFileAssumption DEF Cut
  <2>2. PICK i \in Nat, j \in Nat : i = DivRoundDown(p) /\ j = DivRoundDown(p + m - 1)
    BY <1>1, <2>1, Division
  <2>3. i <= j
    BY <1>1, <2>1, <2>2, DivisionIsMonotone
  <2>4. /\ position' = [position EXCEPT ![h] = p]
        /\ numBytes' = [numBytes EXCEPT ![h] = m]
        /\ value' = [value EXCEPT ![h] = v]
        /\ sector' = [sector EXCEPT ![h] = i]
        /\ buf' = [buf EXCEPT ![h] = [k \in Extent(i, j) |-> Junk]]
        /\ contended' = contended \cup (Busy(h) \cap i .. j)
        /\ pc' = [pc EXCEPT ![h] = to]
    BY <1>1, <1>2, <1>4, <2>2, Zenon DEF Begin, Goto
  <2>5. /\ position' \in [Handles -> Nat] /\ position'[h] = p
        /\ numBytes' \in [Handles -> Nat] /\ numBytes'[h] = m
        /\ \A g \in Handles \ {h} : position'[g] = position[g] /\ numBytes'[g] = numBytes[g]
    BY <1>0, <2>4 DEF TypeOK
  <2>6. /\ value' \in [Handles -> Values \cup {Junk}] /\ value'[h] = v
        /\ sector' \in [Handles -> Nat] /\ sector'[h] = i
        /\ \A g \in Handles \ {h} : value'[g] = value[g] /\ sector'[g] = sector[g]
    BY <1>0, <2>4 DEF TypeOK
  <2>7. /\ pc' \in [Handles -> Places] /\ pc'[h] = to
        /\ \A g \in Handles \ {h} : pc'[g] = pc[g]
    BY <1>0, <2>4 DEF TypeOK, Places
  <2>8. /\ buf'[h] = [k \in Extent(i, j) |-> Junk] /\ DOMAIN buf' = Handles
        /\ \A g \in Handles \ {h} : buf'[g] = buf[g]
    BY <1>0, <2>4
  <2>9. /\ First(h)' = i /\ Last(h)' = j
        /\ \A g \in Handles \ {h} : First(g)' = First(g) /\ Last(g)' = Last(g)
    BY <2>2, <2>5, Zenon DEF First, Last
  <2>10. \A g \in Handles : buf'[g] \in [Extent(First(g)', Last(g)') -> Bytes \cup {Junk}]
    <3> SUFFICES ASSUME NEW g \in Handles
                 PROVE  buf'[g] \in [Extent(First(g)', Last(g)') -> Bytes \cup {Junk}]
      OBVIOUS
    <3>1. CASE g = h
      BY <2>8, <2>9, <3>1
    <3>2. CASE g # h
      BY <1>0, <2>8, <2>9, <3>2, HandleTypes, Zenon
    <3> QED BY <3>1, <3>2
  <2>11. TypeOK' /\ Own(h)
    BY <1>0, <2>5, <2>6, <2>7, <2>8, <2>10, Zenon DEF TypeOK, Places, Own
  <2>12. \A g \in Handles \ {h} : pc[g] # "idle" =>
           (First(g) .. Last(g)) \cap (First(h)' .. Last(h)') \subseteq contended'
    BY <2>4, <2>9, SMTT(60) DEF Busy
  <2>13. InFile(h)'
    BY <2>1, <2>3, <2>5, <2>6, <2>7, <2>9, SMTT(60) DEF InFile
  <2>14. ReadSoFar(h)'
    <3>1. i * SectorSize <= p /\ i * SectorSize \in Nat
      BY <1>1, <2>2, Division, SectorBegins, Zenon
    <3>2. \A k \in Request(h)' : ~(k < i * SectorSize)
      BY <2>1, <2>5, <3>1, SMTT(60) DEF Request
    <3> QED BY <2>6, <3>2 DEF ReadSoFar
  <2>15. HandleInv(h)'
    BY <2>7, <2>13, <2>14, Zenon DEF HandleInv, FirstIsRead, WriteSoFar
  <2>16. contended \subseteq contended' /\ pc[h] # "write"
    BY <1>0, <2>4
  <2> QED BY <1>0, <2>11, <2>12, <2>15, <2>16, QuietStep
<1> QED BY <1>3, <1>4

\* A call returns.
LEMMA ReturnStep ==
  ASSUME OpenFileInv, ReadReturnsFile, NEW h \in Handles, Return(h)
  PROVE  OpenFileInv' /\ ReadReturnsFile'
<1>0. /\ TypeOK /\ pc[h] = "return" /\ UNCHANGED <<disk, file, contended>>
      /\ DOMAIN buf = Handles
  BY Zenon DEF OpenFileInv, Return, TypeOK
<1>1. /\ position' = [position EXCEPT ![h] = 0]
      /\ numBytes' = [numBytes EXCEPT ![h] = 0]
      /\ value' = [value EXCEPT ![h] = Junk]
      /\ sector' = [sector EXCEPT ![h] = 0]
      /\ buf' = [buf EXCEPT ![h] = [k \in {} |-> Junk]]
      /\ pc' = [pc EXCEPT ![h] = "idle"]
      /\ seekPosition' = [seekPosition EXCEPT ![h] = @ + numBytes[h]]
  BY Zenon DEF Return, Drop, Goto
<1>2. /\ position' \in [Handles -> Nat] /\ position'[h] = 0
      /\ numBytes' \in [Handles -> Nat] /\ numBytes'[h] = 0
      /\ \A g \in Handles \ {h} : position'[g] = position[g] /\ numBytes'[g] = numBytes[g]
  BY <1>0, <1>1 DEF TypeOK
<1>3. /\ value' \in [Handles -> Values \cup {Junk}] /\ sector' \in [Handles -> Nat]
      /\ \A g \in Handles \ {h} : value'[g] = value[g] /\ sector'[g] = sector[g]
  BY <1>0, <1>1 DEF TypeOK
<1>4. /\ pc' \in [Handles -> Places] /\ pc'[h] = "idle"
      /\ \A g \in Handles \ {h} : pc'[g] = pc[g]
  BY <1>0, <1>1 DEF TypeOK, Places
<1>5. seekPosition' \in [Handles -> Nat]
  <2>1. seekPosition \in [Handles -> Nat] /\ seekPosition[h] + numBytes[h] \in Nat
    BY <1>0 DEF TypeOK
  <2> QED BY <1>1, <2>1, SMTT(60)
<1>6. /\ buf'[h] = [k \in {} |-> Junk] /\ DOMAIN buf' = Handles
      /\ \A g \in Handles \ {h} : buf'[g] = buf[g]
  BY <1>0, <1>1
<1>7. Extent(First(h)', Last(h)') = {}
  BY <1>2, NothingIsEmpty, ZenonT(60) DEF First, Last
<1>8. \A g \in Handles : buf'[g] \in [Extent(First(g)', Last(g)') -> Bytes \cup {Junk}]
  <2> SUFFICES ASSUME NEW g \in Handles
               PROVE  buf'[g] \in [Extent(First(g)', Last(g)') -> Bytes \cup {Junk}]
    OBVIOUS
  <2>1. CASE g = h
    BY <1>6, <1>7, <2>1
  <2>2. CASE g # h
    <3>1. First(g)' = First(g) /\ Last(g)' = Last(g)
      BY <1>2, <2>2, Zenon DEF First, Last
    <3> QED BY <1>0, <1>6, <2>2, <3>1, HandleTypes, Zenon
  <2> QED BY <2>1, <2>2, SMTT(60)
<1>9. TypeOK' /\ Own(h)
  BY <1>0, <1>2, <1>3, <1>4, <1>5, <1>6, <1>8, ZenonT(60) DEF TypeOK, Places, Own
<1>10. HandleInv(h)'
  BY <1>4 DEF HandleInv, InFile, ReadSoFar, FirstIsRead, WriteSoFar
<1> QED BY <1>0, <1>4, <1>9, <1>10, QuietStep
-----------------------------------------------------------------------------
(* Writing a sector *)

\* The sector i of the file is written from the buffer of h.
Written(h, i) ==
  disk' = [disk EXCEPT ![ByteToSector(i * SectorSize)] =
             [b \in 0 .. SectorSize - 1 |-> buf[h][i * SectorSize + b]]]

\* What a written sector does to the bytes of the file.
LEMMA WrittenIs ==
  ASSUME TypeOK, NEW h \in Handles, NEW i \in FileSectors, i \in First(h) .. Last(h),
         First(h) \in Nat, Last(h) \in Nat, Written(h, i)
  PROVE  /\ disk' \in [Sectors -> [0 .. SectorSize - 1 -> Bytes \cup {Junk}]]
         /\ \A k \in Offsets :
              Content(k)' = IF DivRoundDown(k) = i THEN buf[h][k] ELSE Content(k)
<1> DEFINE new == [b \in 0 .. SectorSize - 1 |-> buf[h][i * SectorSize + b]]
<1>1. /\ i \in Nat /\ ByteToSector(i * SectorSize) = dataSectors[i] /\ dataSectors[i] \in Sectors
      /\ i * SectorSize \in Nat /\ SectorSize \in Nat
  BY FileSectorIs, SectorBegins, OpenFileAssumption, SMTT(60)
<1>2. disk \in [Sectors -> [0 .. SectorSize - 1 -> Bytes \cup {Junk}]]
  BY DEF TypeOK
<1>3. new \in [0 .. SectorSize - 1 -> Bytes \cup {Junk}]
  <2> SUFFICES ASSUME NEW b \in 0 .. SectorSize - 1
               PROVE  buf[h][i * SectorSize + b] \in Bytes \cup {Junk}
    OBVIOUS
  <2>1. i * SectorSize + b \in Nat /\ i * SectorSize + b \in Span(i)
    <3>1. (i + 1) * SectorSize = i * SectorSize + SectorSize
      BY <1>1, Z3
    <3> QED BY <1>1, <3>1 DEF Span
  <2>2. i * SectorSize + b \in Extent(First(h), Last(h))
    BY <1>1, <2>1, SpanIs, ExtentIs, ZenonT(60)
  <2> QED BY <2>2, HandleTypes, Zenon
<1>4. disk' = [disk EXCEPT ![dataSectors[i]] = new]
  BY <1>1, Zenon DEF Written
<1>5. disk' \in [Sectors -> [0 .. SectorSize - 1 -> Bytes \cup {Junk}]]
  <2> HIDE DEF new
  <2> QED BY <1>2, <1>3, <1>4, Zenon
<1>6. ASSUME NEW k \in Offsets
      PROVE  Content(k)' = IF DivRoundDown(k) = i THEN buf[h][k] ELSE Content(k)
  <2>1. /\ k \in Nat /\ DivRoundDown(k) \in FileSectors
        /\ ByteToSector(k) = dataSectors[DivRoundDown(k)] /\ ByteToSector(k) \in Sectors
    BY OffsetIsInFile
  <2>2. CASE DivRoundDown(k) = i
    <3>1. disk'[ByteToSector(k)] = new
      BY <1>1, <1>2, <1>4, <2>1, <2>2
    <3>2. k % SectorSize \in 0 .. SectorSize - 1 /\ i * SectorSize + (k % SectorSize) = k
      BY <2>1, <2>2, Division, Zenon
    <3> QED BY <2>2, <3>1, <3>2 DEF Content
  <2>3. CASE DivRoundDown(k) # i
    <3>1. ByteToSector(k) # dataSectors[i]
      BY <2>1, <2>3, OpenFileAssumption, Zenon
    <3> HIDE DEF new
    <3>2. disk'[ByteToSector(k)] = disk[ByteToSector(k)]
      BY <1>2, <1>4, <2>1, <3>1
    <3> QED BY <2>3, <3>2 DEF Content
  <2> QED BY <2>2, <2>3
<1> QED BY <1>5, <1>6

\* A step of the loop of WriteAt.
LEMMA WriteSectorStep ==
  ASSUME OpenFileInv, ReadReturnsFile, NEW h \in Handles, WriteSector(h)
  PROVE  OpenFileInv' /\ ReadReturnsFile'
<1>0. /\ TypeOK /\ InFile(h) /\ WriteSoFar(h) /\ pc[h] = "write"
      /\ UNCHANGED <<seekPosition, position, numBytes, value, buf, contended>>
      /\ pc \in [Handles -> Places] /\ sector \in [Handles -> Nat] /\ file \in [Offsets -> Bytes]
  BY Zenon DEF OpenFileInv, WriteSector, TypeOK, Places
<1>1. PICK i \in Nat : i = sector[h]
  BY <1>0, SMTT(60)
<1>2. /\ First(h) \in FileSectors /\ Last(h) \in FileSectors /\ First(h) <= Last(h)
      /\ Request(h) \subseteq Offsets
      /\ \A k \in Request(h) : DivRoundDown(k) \in First(h) .. Last(h)
  BY <1>0, RequestIs, SMTT(60)
<1>3. /\ i \in First(h) .. Last(h) /\ i \in FileSectors /\ First(h) \in Nat /\ Last(h) \in Nat
      /\ value[h] \in Values
  BY <1>0, <1>1, <1>2, SectorsBetween DEF InFile
<1>4. /\ disk' \in [Sectors -> [0 .. SectorSize - 1 -> Bytes \cup {Junk}]]
      /\ \A k \in Offsets :
           Content(k)' = IF DivRoundDown(k) = i THEN buf[h][k] ELSE Content(k)
  <2>1. Written(h, i)
    BY <1>1, Zenon DEF WriteSector, Written
  <2> QED BY <1>0, <1>3, <2>1, WrittenIs, Zenon
<1>5. /\ sector' \in [Handles -> Nat] /\ sector'[h] = i + 1
      /\ \A g \in Handles \ {h} : sector'[g] = sector[g]
  <2>1. sector' = [sector EXCEPT ![h] = i + 1]
    BY <1>0, <1>1 DEF WriteSector
  <2> QED BY <1>0, <2>1, SMTT(60)
<1>6. /\ pc' \in [Handles -> Places] /\ pc'[h] = IF i = Last(h) THEN "return" ELSE "write"
      /\ \A g \in Handles \ {h} : pc'[g] = pc[g]
  <2>1. CASE i = Last(h)
    <3>1. pc' = [pc EXCEPT ![h] = "return"]
      BY <1>1, <2>1, ZenonT(60) DEF WriteSector, Goto
    <3> QED BY <1>0, <2>1, <3>1, SMTT(60) DEF Places
  <2>2. CASE i # Last(h)
    <3>1. pc' = pc
      BY <1>1, <2>2, ZenonT(60) DEF WriteSector
    <3> QED BY <1>0, <2>2, <3>1, ZenonT(60)
  <2> QED BY <2>1, <2>2, ZenonT(60)
<1>7. /\ file' \in [Offsets -> Bytes]
      /\ \A k \in Offsets : file'[k] = IF i = Last(h) /\ k \in Request(h)
                                       THEN <<k, value[h]>> ELSE file[k]
  <2>1. CASE i # Last(h)
    BY <1>0, <1>1, <2>1, SMTT(60) DEF WriteSector
  <2>2. CASE i = Last(h)
    <3>1. file' = [k \in Offsets |-> IF k \in Request(h) THEN <<k, value[h]>> ELSE file[k]]
      BY <1>0, <1>1, <1>2, <2>2 DEF WriteSector, Over
    <3>2. \A k \in Offsets : <<k, value[h]>> \in Bytes /\ file[k] \in Bytes
      BY <1>0, <1>3 DEF Bytes
    <3> QED BY <2>2, <3>1, <3>2, SMTT(60)
  <2> QED BY <2>1, <2>2
<1>8. /\ \A g \in Handles : First(g)' = First(g) /\ Last(g)' = Last(g) /\ Request(g)' = Request(g)
      /\ Own(h)
  BY <1>0, <1>5, <1>6, Zenon DEF First, Last, Request, Own
<1>9. TypeOK'
  BY <1>0, <1>4, <1>5, <1>6, <1>7, <1>8, Zenon DEF TypeOK, Places
<1>10. SharedIsContended'
  BY <1>0, <1>6, <1>8, Zenon DEF OpenFileInv, SharedIsContended
<1>11. ASSUME NEW k \in Offsets, DivRoundDown(k) \in First(h) .. Last(h)
       PROVE  IF k \in Request(h)
              THEN /\ buf[h][k] = <<k, value[h]>>
                   /\ DivRoundDown(k) < i => Content(k) = buf[h][k] \/ DivRoundDown(k) \in contended
              ELSE buf[h][k] = file[k] \/ DivRoundDown(k) \in contended
  <2>1. k \in Nat /\ DivRoundDown(k) \in Nat /\ k \in Extent(First(h), Last(h))
    BY <1>3, <1>11, OffsetIsInFile, Division, ExtentIs
  <2>2. DivRoundDown(k) < i => k < i * SectorSize
    <3>1. k < (DivRoundDown(k) + 1) * SectorSize /\ (DivRoundDown(k) + 1) * SectorSize \in Nat
      BY <2>1, Division, SectorBegins
    <3>2. DivRoundDown(k) < i => (DivRoundDown(k) + 1) * SectorSize <= i * SectorSize
      BY <1>1, <2>1, SectorsAreOrdered
    <3>3. i * SectorSize \in Nat
      BY <1>1, SectorBegins
    <3> QED BY <2>1, <3>1, <3>2, <3>3
  <2> QED BY <1>0, <1>1, <2>1, <2>2, Zenon DEF WriteSoFar, Fresh
<1>12. ASSUME NEW k \in Offsets, DivRoundDown(k) \in First(h) .. Last(h)
       PROVE  InPlace(buf[h][k], k)
  <2>1. k \in Extent(First(h), Last(h))
    BY <1>3, <1>12, OffsetIsInFile, ExtentIs
  <2>2. CASE k \in Request(h)
    <3>1. buf[h][k] = <<k, value[h]>>
      BY <1>11, <1>12, <2>2, Zenon
    <3>2. <<k, value[h]>> # Junk
      BY <1>3, OpenFileAssumption, Zenon DEF Offsets
    <3> QED BY <3>1, <3>2 DEF InPlace
  <2>3. CASE k \notin Request(h)
    BY <1>0, <2>1, <2>3, Zenon DEF WriteSoFar
  <2> QED BY <2>2, <2>3
<1>13. BytesInPlace'
  BY <1>3, <1>4, <1>12, Zenon DEF OpenFileInv, BytesInPlace
<1>14. WriteIsExact'
  <2> SUFFICES ASSUME NEW k \in Offsets
               PROVE  \/ Content(k)' = file'[k]
                      \/ DivRoundDown(k) \in contended
                      \/ \E g \in Handles : pc'[g] = "write" /\ k \in Request(g)
    BY <1>0, <1>8, ZenonT(60) DEF WriteIsExact
  <2>1. DivRoundDown(k) \in Nat
    BY OffsetIsInFile, Division
  <2>2. CASE k \in Request(h) /\ i # Last(h)
    BY <1>6, <2>2
  <2>3. CASE k \in Request(h) /\ i = Last(h)
    <3>1. DivRoundDown(k) \in First(h) .. Last(h)
      BY <1>2, <2>3
    <3>2. DivRoundDown(k) = i \/ DivRoundDown(k) < i
      BY <1>3, <2>1, <2>3, <3>1
    <3>3. file'[k] = buf[h][k]
      BY <1>7, <1>11, <2>3, <3>1, Zenon
    <3>4. Content(k)' = IF DivRoundDown(k) = i THEN buf[h][k] ELSE Content(k)
      BY <1>4
    <3>5. DivRoundDown(k) < i => Content(k) = buf[h][k] \/ DivRoundDown(k) \in contended
      BY <1>11, <2>3, <3>1, Zenon
    <3> QED BY <3>2, <3>3, <3>4, <3>5, Zenon
  <2>4. CASE k \notin Request(h) /\ DivRoundDown(k) = i
    BY <1>3, <1>4, <1>7, <1>11, <2>4, Zenon
  <2>5. CASE k \notin Request(h) /\ DivRoundDown(k) # i
    <3>1. Content(k)' = Content(k) /\ file'[k] = file[k]
      BY <1>4, <1>7, <2>5, Zenon
    <3>2. ASSUME NEW g \in Handles, pc[g] = "write", k \in Request(g) PROVE pc'[g] = "write"
      BY <1>6, <2>5, <3>2, Zenon
    <3> QED BY <3>1, <3>2, Zenon DEF OpenFileInv, WriteIsExact
  <2> QED BY <2>2, <2>3, <2>4, <2>5, Zenon
<1>15. ASSUME NEW g \in Handles \ {h} PROVE HandleInv(g)'
  <2>1. CASE pc[g] = "idle"
    BY <1>6, <2>1, Zenon DEF HandleInv, InFile, ReadSoFar, FirstIsRead, WriteSoFar
  <2>2. CASE pc[g] # "idle"
    <3>1. HandleInv(g)
      BY Zenon DEF OpenFileInv, ReadReturnsFile, HandleInv
    <3>2. (First(g) .. Last(g)) \cap (First(h) .. Last(h)) \subseteq contended
      BY <1>0, <2>2, ZenonT(60) DEF OpenFileInv, SharedIsContended
    <3>3. ASSUME NEW k \in Offsets, DivRoundDown(k) \in First(g) .. Last(g)
          PROVE  \/ file'[k] = file[k] /\ Content(k)' = Content(k)
                 \/ DivRoundDown(k) \in contended
      <4>1. CASE DivRoundDown(k) \in First(h) .. Last(h)
        BY <3>2, <3>3, <4>1
      <4>2. CASE DivRoundDown(k) \notin First(h) .. Last(h)
        <5>1. DivRoundDown(k) # i /\ k \notin Request(h)
          BY <1>2, <1>3, <4>2, Zenon
        <5> QED BY <1>4, <1>7, <5>1, Zenon
      <4> QED BY <4>1, <4>2
    <3> QED BY <1>0, <1>8, <3>1, <3>3, HandleIsKept, Zenon DEF Own
  <2> QED BY <2>1, <2>2, SMTT(60)
<1>16. HandleInv(h)'
  <2>1. InFile(h)'
    BY <1>0, <1>1, <1>3, <1>5, <1>6, <1>8, SMTT(60) DEF InFile
  <2>2. CASE i = Last(h)
    <3>1. \A k \in Request(h) : Fresh(h, k)'
      BY <1>0, <1>2, <1>7, <1>11, <2>2, SMTT(60) DEF Fresh
    <3> QED BY <1>6, <1>8, <2>1, <2>2, <3>1, SMTT(60) DEF HandleInv, ReadSoFar, FirstIsRead, WriteSoFar
  <2>3. CASE i # Last(h)
    <3>1. WriteSoFar(h)'
      <4> SUFFICES ASSUME NEW k \in Extent(First(h), Last(h)) \cap Offsets
                   PROVE  IF k \in Request(h)
                          THEN /\ buf[h][k] = <<k, value[h]>>
                               /\ k < (i + 1) * SectorSize =>
                                    Content(k)' = buf[h][k] \/ DivRoundDown(k) \in contended
                          ELSE InPlace(buf[h][k], k) /\ Fresh(h, k)'
        BY <1>0, <1>5, <1>8, Zenon DEF WriteSoFar
      <4>1. /\ k \in Offsets /\ k \in Nat /\ DivRoundDown(k) \in Nat
            /\ DivRoundDown(k) \in First(h) .. Last(h)
        BY <1>3, OffsetIsInFile, Division, ExtentIs
      <4>2. CASE k \in Request(h)
        <5>1. buf[h][k] = <<k, value[h]>>
          BY <1>11, <4>1, <4>2, Zenon
        <5>2. ASSUME k < (i + 1) * SectorSize PROVE DivRoundDown(k) <= i
          <6>1. k \in Extent(0, i)
            <7>1. 0 * SectorSize = 0 /\ (i + 1) * SectorSize \in Nat
              BY <1>1, SectorBegins, OpenFileAssumption
            <7> QED BY <4>1, <5>2, <7>1 DEF Extent
          <6> QED BY <1>1, <4>1, <6>1, ExtentIs
        <5>3. DivRoundDown(k) < i => Content(k) = buf[h][k] \/ DivRoundDown(k) \in contended
          BY <1>11, <4>1, <4>2, Zenon
        <5>4. Content(k)' = IF DivRoundDown(k) = i THEN buf[h][k] ELSE Content(k)
          BY <1>4, <4>1
        <5>5. DivRoundDown(k) <= i => DivRoundDown(k) = i \/ DivRoundDown(k) < i
          BY <1>1, <4>1
        <5> QED BY <4>2, <5>1, <5>2, <5>3, <5>4, <5>5, Zenon
      <4>3. CASE k \notin Request(h)
        BY <1>0, <1>7, <1>11, <1>12, <4>1, <4>3, ZenonT(60) DEF Fresh
      <4> QED BY <4>2, <4>3
    <3> QED BY <1>6, <2>1, <2>3, <3>1, SMTT(60) DEF HandleInv, ReadSoFar, FirstIsRead
  <2> QED BY <2>2, <2>3, SMTT(60)
<1> QED BY <1>9, <1>10, <1>13, <1>14, <1>15, <1>16, Zenon DEF OpenFileInv, ReadReturnsFile, HandleInv

-----------------------------------------------------------------------------
(* Theorems *)

\* The constructors: the file as it is on the disk.
LEMMA InitInv == Init => OpenFileInv /\ ReadReturnsFile
<1> SUFFICES ASSUME Init PROVE OpenFileInv /\ ReadReturnsFile
  OBVIOUS
<1>1. PICK v \in Values :
        /\ disk = [s \in Sectors |->
                     [b \in 0 .. SectorSize - 1 |->
                        IF \E k \in Offsets : ByteToSector(k) = s /\ k % SectorSize = b
                        THEN <<CHOOSE k \in Offsets : ByteToSector(k) = s /\ k % SectorSize = b, v>>
                        ELSE Junk]]
        /\ file = [k \in Offsets |-> <<k, v>>]
  BY Zenon DEF Init
<1>2. ASSUME NEW k \in Offsets PROVE Content(k) = <<k, v>>
  <2>1. ByteToSector(k) \in Sectors /\ k % SectorSize \in 0 .. SectorSize - 1
    BY OffsetIsInFile, Division
  <2>2. (CHOOSE j \in Offsets : ByteToSector(j) = ByteToSector(k) /\ j % SectorSize = k % SectorSize) = k
    BY PlacesDiffer, Zenon
  <2>3. Content(k) = IF \E j \in Offsets : ByteToSector(j) = ByteToSector(k) /\ j % SectorSize = k % SectorSize
                     THEN <<CHOOSE j \in Offsets :
                              ByteToSector(j) = ByteToSector(k) /\ j % SectorSize = k % SectorSize, v>>
                     ELSE Junk
    BY <1>1, <2>1, Zenon DEF Content
  <2> QED BY <2>2, <2>3, Zenon
<1>3. disk \in [Sectors -> [0 .. SectorSize - 1 -> Bytes \cup {Junk}]] /\ file \in [Offsets -> Bytes]
  <2>1. ASSUME NEW s, NEW b, \E k \in Offsets : ByteToSector(k) = s /\ k % SectorSize = b
        PROVE  (CHOOSE k \in Offsets : ByteToSector(k) = s /\ k % SectorSize = b) \in Offsets
    BY <2>1, Zenon
  <2> QED BY <1>1, <2>1 DEF Bytes
<1>4. /\ pc = [h \in Handles |-> "idle"] /\ buf = [h \in Handles |-> [k \in {} |-> Junk]]
      /\ position = [h \in Handles |-> 0] /\ numBytes = [h \in Handles |-> 0]
      /\ seekPosition = [h \in Handles |-> 0] /\ value = [h \in Handles |-> Junk]
      /\ sector = [h \in Handles |-> 0]
  BY Zenon DEF Init
<1>5. ASSUME NEW h \in Handles PROVE buf[h] \in [Extent(First(h), Last(h)) -> Bytes \cup {Junk}]
  <2>1. buf[h] = [k \in {} |-> Junk] /\ position[h] = 0 /\ numBytes[h] = 0
    BY <1>4
  <2>2. Extent(First(h), Last(h)) = {}
    BY <2>1, NothingIsEmpty, Zenon DEF First, Last
  <2> QED BY <2>1, <2>2
<1>6. TypeOK
  BY <1>3, <1>4, <1>5 DEF TypeOK
<1>7. BytesInPlace
  <2> SUFFICES ASSUME NEW k \in Offsets PROVE InPlace(<<k, v>>, k)
    BY <1>2, Zenon DEF BytesInPlace
  <2>1. <<k, v>> # Junk
    BY OpenFileAssumption, Zenon DEF Offsets
  <2> QED BY <2>1 DEF InPlace
<1>8. WriteIsExact
  BY <1>1, <1>2 DEF WriteIsExact
<1>9. \A h \in Handles : pc[h] = "idle"
  BY <1>4, Zenon
<1> QED BY <1>6, <1>7, <1>8, <1>9 DEF OpenFileInv, ReadReturnsFile, SharedIsContended, InFile,
           ReadSoFar, FirstIsRead, WriteSoFar

\* Every step keeps the invariant.
LEMMA NextInv ==
  ASSUME OpenFileInv, ReadReturnsFile, [Next]_vars
  PROVE  OpenFileInv' /\ ReadReturnsFile'
<1>0. seekPosition \in [Handles -> Nat] /\ FileLength \in Nat
  BY OpenFileAssumption DEF OpenFileInv, TypeOK
<1>1. ASSUME NEW h \in Handles, Step(h) PROVE OpenFileInv' /\ ReadReturnsFile'
  BY <1>1, ReadSectorStep, ReturnStep, ReadFirstStep, ReadLastStep, WriteSectorStep, Zenon DEF Step
<1>2. ASSUME NEW h \in Handles, NEW p \in 0 .. FileLength, Seek(h, p)
      PROVE  OpenFileInv' /\ ReadReturnsFile'
  <2>1. seekPosition' \in [Handles -> Nat]
    BY <1>0, <1>2 DEF Seek
  <2> QED BY <1>2, <2>1, SeekStep, Zenon DEF Seek
<1>3. ASSUME NEW h \in Handles, NEW n \in 0 .. FileLength + 1,
             Read(h, n) \/ \E v \in Values : Write(h, n, v)
      PROVE  OpenFileInv' /\ ReadReturnsFile'
  <2>1. n \in Nat
    BY <1>0
  <2>2. CASE Read(h, n)
    BY <2>1, <2>2, BeginStep DEF Read
  <2>3. ASSUME NEW v \in Values, Write(h, n, v) PROVE OpenFileInv' /\ ReadReturnsFile'
    BY <2>1, <2>3, BeginStep DEF Write
  <2> QED BY <1>3, <2>2, <2>3, Zenon
<1>4. CASE UNCHANGED vars
  BY <1>0, <1>4, SeekStep, Zenon DEF vars
<1> QED BY <1>1, <1>2, <1>3, <1>4, Zenon DEF Next

\* Whatever handles do at once, no byte of the file is moved or lost to memory that was
\* not initialised; handles that keep out of one another's sectors find the file as it
\* was written, and a Write that has not ended has changed no byte outside its request.
THEOREM FileIsKept == Spec => []OpenFileInv
<1>1. Init => OpenFileInv /\ ReadReturnsFile
  BY InitInv
<1>2. (OpenFileInv /\ ReadReturnsFile) /\ [Next]_vars => (OpenFileInv /\ ReadReturnsFile)'
  BY NextInv
<1> QED BY <1>1, <1>2, PTL DEF Spec

\* Read returns all the bytes that were asked for as they were written last, except
\* those in sectors that two handles used at once.
THEOREM ReadIsExact == Spec => []ReadReturnsFile
<1>1. Init => OpenFileInv /\ ReadReturnsFile
  BY InitInv
<1>2. (OpenFileInv /\ ReadReturnsFile) /\ [Next]_vars => (OpenFileInv /\ ReadReturnsFile)'
  BY NextInv
<1> QED BY <1>1, <1>2, PTL DEF Spec
==============================================================================
