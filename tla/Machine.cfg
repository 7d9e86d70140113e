SPECIFICATION Spec
CONSTANTS
  s1 = s1
  s2 = s2
  None = None
  Zero = Zero
  ByteBits = 2
  GP <- SomeRegisters
  Spaces <- TwoSpaces
  PageSize = 8
  NumPhysPages = 11
  UserStackSize = 8
  MAX_OPEN_FILES = 5
  Scenarios <- AllScenarios
  Results = {0, 3}
  Chars = {1, 3}
INVARIANTS
  
  SimulatorsAgree
  ArithmeticIsExact
PROPERTIES
  ImplementsPrivateMachine
CHECK_DEADLOCK FALSE
