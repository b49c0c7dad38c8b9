\* The hardware clears FREE: is the application area erased?
SPECIFICATION Spec
CONSTANTS
  Bits <- MCBits
  FlashSize = 24
  BlockSize = 4
  EraseSize = 8
  UserStart = 8
  UserEnd = 22
  NumBlocksToErase = 1
  MaxPayload = 3
  HighUnit = 16
  HighCount = 2
  FreeSelfClears = TRUE
  Files <- OddFiles
  InitialFlash <- MCInitialFlash
  MaxResets = 0
PROPERTIES
  EraseIsComplete
