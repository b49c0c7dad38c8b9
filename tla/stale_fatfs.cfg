\* Is the card read for a volume that was never mounted?
SPECIFICATION Spec
CONSTANTS
  SectorSize <- MCSectorSize
  Sectors <- MCSectors
  MaxTries <- MCMaxTries
INVARIANTS
  ReadNeedsMount
