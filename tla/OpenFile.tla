------------------------------ MODULE OpenFile ------------------------------
(***************************************************************************)
(* filesys/openfile.cc: Read, Write and Seek of handles that are open on   *)
(* one file, over ReadAt and WriteAt, which move whole sectors.  Each      *)
(* transfer of a sector waits in SynchDisk, so other handles go on in      *)
(* between.                                                                *)
(*                                                                         *)
(* A byte is the offset that its writer meant it for and a value.          *)
(***************************************************************************)
EXTENDS Integers

CONSTANTS
  Handles,       \* the OpenFile objects
  FileLength,    \* numBytes of the header
  SectorSize,
  Sectors,       \* the sectors of the disk
  dataSectors,   \* of the header: from the sectors of the file to those of the disk
  Values,
  Junk           \* what is in memory that was not initialised

DivRoundDown(n) == n \div SectorSize

FileSectors == 0 .. DivRoundDown(FileLength - 1)

ASSUME OpenFileAssumption ==
  /\ FileLength \in Nat \ {0} /\ SectorSize \in Nat \ {0}
  /\ dataSectors \in [FileSectors -> Sectors]
  /\ \A i, j \in FileSectors : dataSectors[i] = dataSectors[j] => i = j
  /\ \A k \in 0 .. FileLength - 1, v \in Values : <<k, v>> # Junk

VARIABLES
  disk,           \* the bytes of every sector
  seekPosition,
  pc,             \* where a handle is: "idle", "read", "first", "last", "write", "return"
  position, numBytes, value,   \* the arguments of its ReadAt or WriteAt, cut to the
                  \* file; Junk is the value of a ReadAt
  sector,         \* i, the sector of the loop
  buf,            \* from offsets of the file to the bytes in its buffer
  file,           \* history: the bytes that Writes should have left in the file
  contended       \* history: the sectors of the file that two handles used at once

vars == <<disk, seekPosition, pc, position, numBytes, value, sector, buf, file, contended>>

-----------------------------------------------------------------------------
Offsets == 0 .. FileLength - 1

\* FileHeader::ByteToSector
ByteToSector(offset) == dataSectors[offset \div SectorSize]

\* The offsets in sector i of the file.
Span(i) == i * SectorSize .. (i + 1) * SectorSize - 1

\* The offsets in the buffer for sectors i to j of the file.
Extent(i, j) == i * SectorSize .. (j + 1) * SectorSize - 1

\* Byte k of a sector of the disk that holds sector i of the file.
OnDisk(i) == [k \in Span(i) |-> disk[ByteToSector(i * SectorSize)][k % SectorSize]]

\* A buffer after its bytes at the offsets of f were replaced.
Over(b, f) == [k \in DOMAIN b |-> IF k \in DOMAIN f THEN f[k] ELSE b[k]]

Init ==
  /\ \E v \in Values :
       /\ disk = [s \in Sectors |->
                    [b \in 0 .. SectorSize - 1 |->
                       IF \E k \in Offsets : ByteToSector(k) = s /\ k % SectorSize = b
                       THEN <<CHOOSE k \in Offsets : ByteToSector(k) = s /\ k % SectorSize = b, v>>
                       ELSE Junk]]
       /\ file = [k \in Offsets |-> <<k, v>>]
  /\ seekPosition = [h \in Handles |-> 0]
  /\ pc = [h \in Handles |-> "idle"]
  /\ position = [h \in Handles |-> 0]
  /\ numBytes = [h \in Handles |-> 0]
  /\ value = [h \in Handles |-> Junk]
  /\ sector = [h \in Handles |-> 0]
  /\ buf = [h \in Handles |-> [k \in {} |-> Junk]]
  /\ contended = {}

Goto(h, place) == pc' = [pc EXCEPT ![h] = place]

First(h) == DivRoundDown(position[h])
Last(h) == DivRoundDown(position[h] + numBytes[h] - 1)
Request(h) == position[h] .. position[h] + numBytes[h] - 1

\* The sectors of the file that the other handles use.
Busy(h) == UNION {First(g) .. Last(g) : g \in {g \in Handles \ {h} : pc[g] # "idle"}}

Seek(h, p) ==
  /\ pc[h] = "idle"
  /\ seekPosition' = [seekPosition EXCEPT ![h] = p]
  /\ UNCHANGED <<disk, pc, position, numBytes, value, sector, buf, file, contended>>

\* The bytes of a request that are in the file.
Cut(p, n) ==
  IF n <= 0 \/ p >= FileLength THEN 0
  ELSE IF p + n > FileLength THEN FileLength - p ELSE n

\* Read and Write call ReadAt and WriteAt with the seek position.  A request that
\* is empty or begins past the end of the file returns 0.
Begin(h, n, v, place) ==
  LET p == seekPosition[h]
      m == Cut(p, n)
  IN  /\ pc[h] = "idle"
      /\ IF m = 0
         THEN UNCHANGED <<pc, position, numBytes, value, sector, buf, contended>>
         ELSE /\ position' = [position EXCEPT ![h] = p]
              /\ numBytes' = [numBytes EXCEPT ![h] = m]
              /\ value' = [value EXCEPT ![h] = v]
              /\ sector' = [sector EXCEPT ![h] = DivRoundDown(p)]
              /\ buf' = [buf EXCEPT ![h] =
                   [k \in Extent(DivRoundDown(p), DivRoundDown(p + m - 1)) |-> Junk]]
              /\ contended' = contended \cup
                   (Busy(h) \cap DivRoundDown(p) .. DivRoundDown(p + m - 1))
              /\ Goto(h, place)
      /\ UNCHANGED <<disk, seekPosition, file>>

Read(h, n) == Begin(h, n, Junk, "read")

Write(h, n, v) == Begin(h, n, v, "first")

\* Mutant: the loop ends before the last sector.
ReadSectorShort(h) ==
  /\ pc[h] = "read"
  /\ buf' = [buf EXCEPT ![h] = Over(@, OnDisk(sector[h]))]
  /\ sector' = [sector EXCEPT ![h] = @ + 1]
  /\ Goto(h, IF sector[h] + 1 >= Last(h) THEN "return" ELSE "read")
  /\ UNCHANGED <<disk, seekPosition, position, numBytes, value, file, contended>>

\* ReadAt reads the sectors of the request one by one.
ReadSector(h) ==
  /\ pc[h] = "read"
  /\ buf' = [buf EXCEPT ![h] = Over(@, OnDisk(sector[h]))]
  /\ sector' = [sector EXCEPT ![h] = @ + 1]
  /\ Goto(h, IF sector[h] = Last(h) THEN "return" ELSE "read")
  /\ UNCHANGED <<disk, seekPosition, position, numBytes, value, file, contended>>

FirstAligned(h) == position[h] = First(h) * SectorSize
LastAligned(h) == position[h] + numBytes[h] = (Last(h) + 1) * SectorSize

\* What ReadAt of sector i brings into the buffer: no byte past the end of the file.
Fetched(i) == [k \in Span(i) \cap Offsets |-> OnDisk(i)[k]]

\* Mutant: the first sector is taken to be aligned.
ReadFirstNot(h) ==
  /\ pc[h] = "first"
  /\ Goto(h, "last")
  /\ UNCHANGED <<disk, seekPosition, position, numBytes, value, sector, buf, file, contended>>

\* WriteAt reads the first sector if it will be written in part, ...
ReadFirst(h) ==
  /\ pc[h] = "first"
  /\ buf' = [buf EXCEPT ![h] = IF FirstAligned(h) THEN @ ELSE Over(@, Fetched(First(h)))]
  /\ Goto(h, "last")
  /\ UNCHANGED <<disk, seekPosition, position, numBytes, value, sector, file, contended>>

\* ... then the last one unless that has just been done, and puts the new bytes
\* over them.
ReadLast(h) ==
  /\ pc[h] = "last"
  /\ LET b == IF ~LastAligned(h) /\ (First(h) # Last(h) \/ FirstAligned(h))
              THEN Over(buf[h], Fetched(Last(h))) ELSE buf[h]
     IN  buf' = [buf EXCEPT ![h] = Over(b, [k \in Request(h) |-> <<k, value[h]>>])]
  /\ Goto(h, "write")
  /\ UNCHANGED <<disk, seekPosition, position, numBytes, value, sector, file, contended>>

\* The sectors are written one by one.
WriteSector(h) ==
  /\ pc[h] = "write"
  /\ disk' = [disk EXCEPT ![ByteToSector(sector[h] * SectorSize)] =
                [b \in 0 .. SectorSize - 1 |-> buf[h][sector[h] * SectorSize + b]]]
  /\ sector' = [sector EXCEPT ![h] = @ + 1]
  /\ IF sector[h] = Last(h)
     THEN Goto(h, "return") /\ file' = Over(file, [k \in Request(h) |-> <<k, value[h]>>])
     ELSE UNCHANGED <<pc, file>>
  /\ UNCHANGED <<seekPosition, position, numBytes, value, buf, contended>>

\* The variables of a ReadAt or WriteAt that returns are gone.
Drop(h) ==
  /\ position' = [position EXCEPT ![h] = 0]
  /\ numBytes' = [numBytes EXCEPT ![h] = 0]
  /\ value' = [value EXCEPT ![h] = Junk]
  /\ sector' = [sector EXCEPT ![h] = 0]
  /\ buf' = [buf EXCEPT ![h] = [k \in {} |-> Junk]]
  /\ Goto(h, "idle")

\* Read and Write move the seek position by the result.
Return(h) ==
  /\ pc[h] = "return"
  /\ seekPosition' = [seekPosition EXCEPT ![h] = @ + numBytes[h]]
  /\ Drop(h)
  /\ UNCHANGED <<disk, file, contended>>

Step(h) ==
  \/ ReadSector(h) \/ Return(h)
  \/ ReadFirst(h) \/ ReadLast(h) \/ WriteSector(h)

Next ==
  \E h \in Handles :
    \/ Step(h)
    \/ \E p \in 0 .. FileLength : Seek(h, p)
    \/ \E n \in 0 .. FileLength + 1 :
         Read(h, n) \/ \E v \in Values : Write(h, n, v)

Spec == Init /\ [][Next]_vars

-----------------------------------------------------------------------------
(* Properties *)

Bytes == Offsets \X Values

TypeOK ==
  /\ disk \in [Sectors -> [0 .. SectorSize - 1 -> Bytes \cup {Junk}]]
  /\ seekPosition \in [Handles -> Nat]
  /\ pc \in [Handles -> {"idle", "read", "first", "last", "write", "return"}]
  /\ position \in [Handles -> Nat] /\ numBytes \in [Handles -> Nat]
  /\ value \in [Handles -> Values \cup {Junk}]
  /\ sector \in [Handles -> Nat]
  /\ \A h \in Handles : buf[h] \in [Extent(First(h), Last(h)) -> Bytes \cup {Junk}]
  /\ DOMAIN buf = Handles
  /\ file \in [Offsets -> Bytes]

Content(k) == disk[ByteToSector(k)][k % SectorSize]

\* A byte that was written for place k.
InPlace(byte, k) == byte # Junk /\ byte[1] = k

\* Whatever handles do at once, every byte of the file is one that was written for
\* its place: none is moved, and no memory that was not initialised gets into it.
BytesInPlace == \A k \in Offsets : InPlace(Content(k), k)

\* Handles that never use the same sector at once do not disturb one another: the
\* file holds what was written, and while a Write is going on the bytes outside its
\* request do not change, so that a stop harms none of them.
WriteIsExact ==
  \A k \in Offsets :
    \/ Content(k) = file[k]
    \/ DivRoundDown(k) \in contended
    \/ \E h \in Handles : pc[h] = "write" /\ k \in Request(h)

\* A byte in the buffer is the one of the file, unless its sector was contended for.
Fresh(h, k) == buf[h][k] = file[k] \/ DivRoundDown(k) \in contended

\* Read gives all the bytes that were asked for, as written last, except those in
\* sectors that two handles used at once.
ReadReturnsFile ==
  \A h \in Handles : pc[h] = "return" => \A k \in Request(h) : Fresh(h, k)

\* A sector that two handles use is contended for.
SharedIsContended ==
  \A g, h \in Handles :
    g # h /\ pc[g] # "idle" /\ pc[h] # "idle" =>
      (First(g) .. Last(g)) \cap (First(h) .. Last(h)) \subseteq contended

\* A request is within the file, and its loop within the sectors of the request.
InFile(h) ==
  /\ pc[h] # "idle" => numBytes[h] > 0 /\ position[h] + numBytes[h] <= FileLength
  /\ pc[h] \in {"first", "last"} => sector[h] = First(h)
  /\ pc[h] \in {"read", "write"} => sector[h] \in First(h) .. Last(h)
  /\ pc[h] \in {"first", "last", "write"} => value[h] \in Values

\* What ReadAt has read so far is the file.
ReadSoFar(h) ==
  pc[h] = "read" => \A k \in Request(h) : k < sector[h] * SectorSize => Fresh(h, k)

\* The first sector of a WriteAt has been read if it will be written in part.
FirstIsRead(h) ==
  pc[h] = "last" /\ ~FirstAligned(h) =>
    \A k \in Span(First(h)) \cap Offsets : InPlace(buf[h][k], k) /\ Fresh(h, k)

\* The buffer of a WriteAt has the new bytes of the request and the old ones around
\* them, and the sectors that are written hold the new ones.
WriteSoFar(h) ==
  pc[h] = "write" =>
    \A k \in Extent(First(h), Last(h)) \cap Offsets :
      IF k \in Request(h)
      THEN /\ buf[h][k] = <<k, value[h]>>
           /\ k < sector[h] * SectorSize => Content(k) = buf[h][k] \/ DivRoundDown(k) \in contended
      ELSE InPlace(buf[h][k], k) /\ Fresh(h, k)

\* The file is what its writers made it: its bytes are in place, the Writes that have
\* returned are on the disk, and a buffer is what ReadAt or WriteAt has got so far.
OpenFileInv ==
  /\ TypeOK /\ BytesInPlace /\ WriteIsExact /\ SharedIsContended
  /\ \A h \in Handles : InFile(h) /\ ReadSoFar(h) /\ FirstIsRead(h) /\ WriteSoFar(h)
==============================================================================
