SPECIFICATION Spec
CONSTANTS
  c1 = c1
  x = x
  y = y
  z = z
  Clients <- OneClient
  Names <- ThreeNames
  Sizes = {0, 3, 5}
  NumSectors = 8
  SectorSize = 2
  BitsInWord = 4
  NumDirEntries = 2
  SystemSectors = {0, 1, 2, 3}
  NumDirect = 3
INVARIANTS
  
  MapIsExact
  

  
