SPECIFICATION FairSpec
CONSTANTS
  t1 = t1
  t2 = t2
  a = a
  NULL = NULL
  EOF = EOF
  Newline = Newline
  Threads <- TwoThreads
  Chars <- MCChars
  Lengths = {0, 2}
  Texts <- MCTexts
  MaxTyped = 3
CHECK_DEADLOCK FALSE
INVARIANTS
  ConsoleInv
  TextIsKept
PROPERTIES
  CharacterIsTaken
  WriteReturns
