\* Three CPUs, two in a hand-over while the third calls Release out of turn;
\* every sequence of requests to a small heap; two pieces of a format with
\* their arguments, and strings built by any calls.
CONSTANTS
  CPU = {c1, c2, c3}
  NoCPU = NoCPU
  Junk = Junk
  HeapStart = 4
  HeapEnd = 20
  Sizes = {0, 1, 3, 6}
  Alignments = {1, 2, 4, 8}
  MaxBlocks = 4
  MemSize = 4
  Bytes <- MCBytes
  InitialMem <- MCInitialMem
  NoCall = NoCall
  Requests <- MCRequests
  StringPiece <- MCStringPiece
  UINT_MAX = 255
  ULONG_MAX = 4095
SPECIFICATION LibrarySpec
INVARIANTS
  LockTypeOK
  MutualExclusion
  OwnerRecordSound
  TypeOK
  BlocksSeparate
  PrintTypeOK
  StringsAsSpecified
  BytesCounted
  PrintsAsFormatted
PROPERTIES
  ImplementsLock
  AcquireProgress
