SPECIFICATION Spec
CONSTANTS
  h1 = h1
  h2 = h2
  Handles <- TwoHandles
  FileLength = 3
  SectorSize = 2
  Sectors = {0, 1, 2}
  dataSectors <- Scattered
  x = x
  y = y
  Values <- TwoValues
  Junk = Junk
SYMMETRY Symmetry
INVARIANTS
  OpenFileInv
  ReadReturnsFile
