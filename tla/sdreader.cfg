\* Reading byte by byte implements reading line by line.
SPECIFICATION Spec
CONSTANTS
  Contents <- MCContents
  BufferSize = 20
  MaxPayload = 3
INVARIANTS
  TypeOK
  OverrunOnlyByLongLine
  ReadsOnLivePort
PROPERTIES
  ImplementsSource
