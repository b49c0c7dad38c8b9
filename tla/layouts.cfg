\* Every layout of two records and many of three; no loss of power.
SPECIFICATION Spec
CONSTANTS
  Bits <- MCBits
  FlashSize = 24
  BlockSize = 4
  EraseSize = 8
  UserStart = 8
  UserEnd = 22
  NumBlocksToErase = 1
  MaxPayload = 3
  HighUnit = 16
  HighCount = 2
  FreeSelfClears = FALSE
  Files <- MCFiles
  InitialFlash <- MCInitialFlash
  MaxResets = 0
INVARIANTS
  CopyInBounds
  ProgramCorrect
  PassMeansMatch
PROPERTIES
  NoOverprogramming
  ProgramStaysInUserArea
