\* Chunks of at most two bytes, three bytes each way, buffers of one and two
\* bytes: a write of more than one chunk, chunks that do not fit the buffer.
SPECIFICATION FairSpec
CONSTANTS
  MaxChunk = 2
  MaxBytes = 3
  BufSizes = {1, 2}
  Target <- MCTarget
INVARIANTS
  TypeOK
  NoNonceTwice
  NothingIsSkipped
  TargetArrives
PROPERTIES
  ClientReadsInOrder
  ServerReadsInOrder
  ReadReturns
\* Both ends may be done.
CHECK_DEADLOCK FALSE
