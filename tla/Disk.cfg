SPECIFICATION FairSpec
CONSTANTS
  disk = disk
  output = output
  console = console
  timer = timer
  Devices <- TwoDevices
  Polls <- OnePoll
  Delays = {3}
  Ticks = {1, 2}
  SectorsPerTrack = 3
  NumTracks = 2
  SeekTime = 3
  RotationTime = 2
CHECK_DEADLOCK FALSE
INVARIANTS
  DiskInv
PROPERTIES
  LeavesWhenDue
  EndsPastSector
  RequestIsAnswered
