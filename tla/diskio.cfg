\* Cards of every kind, with answers lost: identification and reads.
SPECIFICATION FairSpec
CONSTANTS
  SectorSize <- MCSectorSize
  Sectors <- MCSectors
  MaxTries <- MCMaxTries
INVARIANTS
  TypeOK
  ReadIsExact
  CardIsKnown
  BusIsFree
  PortIsOn
PROPERTIES
  DriverReturns
