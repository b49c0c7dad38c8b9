\* Does the buffer take the longest record?
SPECIFICATION Spec
CONSTANTS
  Contents <- LongContents
  BufferSize = 64
  MaxPayload = 32
INVARIANTS
  PayloadFitsBuffer
