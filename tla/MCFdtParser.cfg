\* Every well-formed block of a bounded length, on a heap with garbage too.
CONSTANTS
  memory = memory
  soc = soc
  reg = reg
  compatible = compatible
  FDT_MAX_CHILDREN = 3
  FDT_MAX_PROPERTIES = 1
  NodeNames <- MCNodeNames
  NameLength <- MCNameLength
  Memory = memory
  Reg = reg
  Props <- MCProps
  MaxWords = 12
  ByteBase = 8
  WordBase = 4
  HeapContents <- MCHeapContents
  NodeBytes = 3
  PropertyBytes = 1
  HeapStart = 0
  HeapEnd = 12
  NULL = NULL
  Garbage = Garbage
  Rest = Rest
  Fault = Fault
SPECIFICATION FairSpec
INVARIANTS
  TypeOK
  CursorOnToken
  CurrIsInnermostOpen
  TreeExact
  MemorySizeAnswer
PROPERTY
  ParseTerminates
\* The parser returns.
CHECK_DEADLOCK FALSE
