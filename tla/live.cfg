\* Sessions end, and a good file passes; power lost once.
SPECIFICATION FairSpec
CONSTANTS
  Bits <- MCBits
  FlashSize = 24
  BlockSize = 4
  EraseSize = 8
  UserStart = 8
  UserEnd = 22
  NumBlocksToErase = 1
  MaxPayload = 3
  HighUnit = 16
  HighCount = 2
  FreeSelfClears = FALSE
  Files <- OddFiles
  InitialFlash <- MCInitialFlash
  MaxResets = 1
INVARIANTS
  TypeOK
  ProgramCorrect
PROPERTIES
  SessionEnds
  GoodFilePasses
  BootAreaKept
  KeepsPromise
