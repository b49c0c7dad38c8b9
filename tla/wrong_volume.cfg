\* A failed transfer and a card that once had a partition.
SPECIFICATION Spec
CONSTANTS
  SectorSize <- MCSectorSize
  DirSize <- MCDirSize
  BaseLen <- MCBaseLen
  NameLen <- MCNameLen
  Fat12Limit <- MCFat12Limit
  Fat16Limit <- MCFat16Limit
  IndexRange <- MCIndexRange
  Char <- MCChar
  Disks <- MCReformatted
  Paths <- MCPaths
  Counts <- MCCounts
  Offsets <- MCOffsets
INVARIANTS
  MountsTheVolume
