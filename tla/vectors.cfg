\* Interrupts with the switch left alone, and what holds even if it is moved.
SPECIFICATION FairSpec
CONSTANTS
  Base <- MCBase
  ReadyTicks <- MCReadyTicks
  TokenTicks <- MCTokenTicks
INVARIANTS
  TypeOK
  UnlockUninterrupted
  NoEarlyInterrupt
  VectorsFollowMode
  TimesOutNotBefore
  TimesOutInTime
PROPERTIES
  CardWaitEnds
