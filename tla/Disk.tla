-------------------------------- MODULE Disk --------------------------------
(***************************************************************************)
(* The simulated disk of machine/disk.cc and its clock, on the interrupts  *)
(* of Interrupt: how long a request takes, and what is in the track        *)
(* buffer.  What the sectors hold is in SynchDisk.                         *)
(*                                                                         *)
(* At time t the head is over the sectors whose number is t \div           *)
(* RotationTime modulo SectorsPerTrack.                                    *)
(***************************************************************************)
EXTENDS Interrupt

CONSTANTS
  disk,
  SectorsPerTrack, NumTracks,
  SeekTime, RotationTime

NumSectors == SectorsPerTrack * NumTracks

ASSUME DiskAssumption ==
  /\ disk \in Devices
  /\ {SectorsPerTrack, NumTracks, SeekTime, RotationTime} \subseteq Nat \ {0}

VARIABLES
  totalTicks,   \* Statistics::totalTicks
  active,
  lastTrack,    \* lastSector / SectorsPerTrack, which is all that is read of it
  bufferInit    \* when the head came to its track

diskVars == <<active, lastTrack, bufferInit>>

allVars == <<vars, totalTicks, diskVars>>

-----------------------------------------------------------------------------
Distance(a, b) == IF a > b THEN a - b ELSE b - a

\* TimeToSeek returns the seek time ...
Seek(newSector) ==
  Distance(newSector \div SectorsPerTrack, lastTrack) * SeekTime

\* ... and the rest of the sector that is passing when the seek is over.
Rotation(newSector) ==
  LET over == (totalTicks + Seek(newSector)) % RotationTime
  IN  IF over > 0 THEN RotationTime - over ELSE 0

ModuloDiff(to, from) ==
  ((to % SectorsPerTrack) - (from % SectorsPerTrack) + SectorsPerTrack) % SectorsPerTrack

TimeAfter(newSector) == totalTicks + Seek(newSector) + Rotation(newSector)

\* Mutant: the sector that the head is about to read counts as read.
InTrackBufferEarly(newSector, writing) ==
  /\ ~writing
  /\ Seek(newSector) = 0
  /\ (TimeAfter(newSector) - bufferInit) \div RotationTime
       >= ModuloDiff(newSector, bufferInit \div RotationTime)

\* The track buffer applies.
InTrackBuffer(newSector, writing) ==
  /\ ~writing
  /\ Seek(newSector) = 0
  /\ (TimeAfter(newSector) - bufferInit) \div RotationTime
       > ModuloDiff(newSector, bufferInit \div RotationTime)

ComputeLatency(newSector, writing) ==
  IF InTrackBuffer(newSector, writing)
  THEN RotationTime
  ELSE Seek(newSector) + Rotation(newSector) + RotationTime
         + ModuloDiff(newSector, TimeAfter(newSector) \div RotationTime) * RotationTime

\* The clock counts on for ever.  Whole revolutions that both t and b have seen, and
\* those that t has seen since b but for one or two, are left out: the head is at the
\* same place, and after one the whole track is in the buffer.
Revolution == SectorsPerTrack * RotationTime

Reduced(t, b) ==
  LET common == (IF t < b THEN t ELSE b) \div Revolution
      since  == IF t - b < 2 * Revolution THEN 0 ELSE (t - b) \div Revolution - 1
  IN  <<t - (common + since) * Revolution, b - common * Revolution>>

\* n ticks pass, and the head came to its track at time b.
Clock(n, b) ==
  LET r == Reduced(totalTicks + n, b)
  IN  totalTicks' = r[1] /\ bufferInit' = r[2]

-----------------------------------------------------------------------------
DiskInit ==
  /\ Init
  /\ totalTicks = 0
  /\ active = FALSE
  /\ lastTrack = 0
  /\ bufferInit = 0

\* Statistics: time passes, and the disk goes on.
Passes(n) == Clock(n, bufferInit) /\ UNCHANGED lastTrack

\* UpdateLast
UpdateLast(newSector) ==
  /\ Clock(0, IF Seek(newSector) # 0 THEN TimeAfter(newSector) ELSE bufferInit)
  /\ lastTrack' = newSector \div SectorsPerTrack

\* ReadRequest and WriteRequest.  Both assert that no request is in progress,
\* which SynchDisk sees to.
Request(newSector, writing) ==
  /\ ~active
  /\ active' = TRUE
  /\ UpdateLast(newSector)
  /\ Schedule(disk, ComputeLatency(newSector, writing))

\* Mutant: the disk stays active.
HandleInterruptNot == active' = active

\* The handler of the disk, if CheckIfDue has called it.
HandleInterrupt == active' = (active /\ Head(Clocked).source # disk)

\* The other devices, the ticks of the machine and CheckIfDue.
Others ==
  /\ \/ \E d \in Polls \cup {timer}, n \in Delays : Start(d, n)
     \/ \E d \in Devices \ {disk}, n \in Delays : Schedule(d, n)
  /\ UNCHANGED <<totalTicks, diskVars>>

Works ==
  /\ UNCHANGED active
  /\ \/ \E n \in Ticks : OneTick(n) /\ Passes(n)
     \/ Idle /\ UNCHANGED <<totalTicks, lastTrack, bufferInit>>

CheckIfDue ==
  /\ Passes(Advance)
  /\ \/ (\E n \in Delays : Fire(n)) /\ HandleInterrupt
     \/ NotDue /\ UNCHANGED active

Next ==
  \/ \E s \in 0 .. NumSectors - 1, writing \in BOOLEAN : Request(s, writing)
  \/ Others
  \/ Works
  \/ CheckIfDue

Spec == DiskInit /\ [][Next]_allVars

\* The program executes instructions or idles, and OneTick and Idle do not stop.
FairSpec == Spec /\ WF_allVars(Works) /\ WF_allVars(CheckIfDue)

-----------------------------------------------------------------------------
(* Properties *)

\* The head has come to its track when no request is in progress, and will have when
\* the interrupt of the request is due.
SeekEnds ==
  /\ ~active => bufferInit <= totalTicks
  /\ \A k \in DOMAIN pending :
       pending[k].source = disk =>
         bufferInit <= totalTicks \/ bufferInit <= totalTicks + pending[k].left

\* The head came to its track at the beginning of a sector.
SeekEndsOnSector == bufferInit % RotationTime = 0

\* The list of interrupts is sound, the disk is active exactly while its interrupt is
\* pending, so that the asserts of ReadRequest and WriteRequest hold whenever DiskDone
\* has been called, and no request meets a head that is still seeking: the division in
\* ComputeLatency is never of a negative time.
DiskInv ==
  /\ InterruptInv
  /\ totalTicks \in Nat /\ bufferInit \in Nat /\ lastTrack \in Nat /\ active \in BOOLEAN
  /\ active <=> Pending(disk)
  /\ SeekEnds /\ SeekEndsOnSector

\* A request for sector s, whose head came to the track at time arrives, ends with the
\* first whole pass of the sector, but not before a transfer that begins now.
EndsPast(arrives, ends, s) ==
  LET round == {k \in 0 .. (ends + Revolution) :
                  /\ arrives <= k * RotationTime
                  /\ k % SectorsPerTrack = s % SectorsPerTrack}
      first == CHOOSE k \in round : \A l \in round : k <= l
  IN  ends = IF (first + 1) * RotationTime < totalTicks + RotationTime
             THEN totalTicks + RotationTime
             ELSE (first + 1) * RotationTime

\* The comments of ComputeLatency: a request is done when the head has rotated
\* completely past the sector for the first time - a write since its own seek, a read
\* since the head came to the track, whenever that was - but the transfer itself takes
\* RotationTime.
EndsPastSector ==
  [][\A s \in 0 .. NumSectors - 1, writing \in BOOLEAN :
       Request(s, writing) =>
         EndsPast(IF writing \/ Seek(s) # 0 THEN totalTicks + Seek(s) ELSE bufferInit,
                  totalTicks + (CHOOSE p \in {pending'[k] : k \in DOMAIN pending'} :
                                  p.source = disk).left,
                  s)]_allVars
==============================================================================
