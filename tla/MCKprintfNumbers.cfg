\* Three numbers of one format, beside the C standard.
CONSTANTS
  MemSize = 1
  Bytes = {0}
  InitialMem <- MCClearMem
  NoCall = NoCall
  Requests <- MCNumberRequests
  StringPiece <- MCStringPiece
  UINT_MAX = 255
  ULONG_MAX = 4095
SPECIFICATION PrintSpec
INVARIANT
  PrintsAsC
\* The call returns.
CHECK_DEADLOCK FALSE
