\* Files on small FAT12 and FAT16 volumes, whatever transfer fails.
SPECIFICATION FairSpec
CONSTANTS
  SectorSize <- MCSectorSize
  DirSize <- MCDirSize
  BaseLen <- MCBaseLen
  NameLen <- MCNameLen
  Fat12Limit <- MCFat12Limit
  Fat16Limit <- MCFat16Limit
  IndexRange <- MCIndexRange
  Char <- MCChar
  Disks <- MCDisks
  Paths <- MCPaths
  Counts <- MCCounts
  Offsets <- MCOffsets
INVARIANTS
  TypeOK
  ChainPosition
  MountsTheVolume
PROPERTIES
  ImplementsFile
  CallsReturn
