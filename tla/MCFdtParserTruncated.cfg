\* Up to a block of 64 bytes: its size, read in the wrong byte order (of digits
\* to base 8), is 8 bytes.
CONSTANTS
  memory = memory
  soc = soc
  reg = reg
  compatible = compatible
  FDT_MAX_CHILDREN = 2
  FDT_MAX_PROPERTIES = 2
  NodeNames <- MCNodeNames
  NameLength <- MCNameLength
  Memory = memory
  Reg = reg
  Props <- MCOneWordRegs
  MaxWords = 13
  ByteBase = 8
  WordBase = 4
  HeapContents <- MCClearHeap
  NodeBytes = 3
  PropertyBytes = 1
  HeapStart = 0
  HeapEnd = 12
  NULL = NULL
  Garbage = Garbage
  Rest = Rest
  Fault = Fault
SPECIFICATION Spec
INVARIANT
  WrittenMemoryNeverFaults
\* The parser returns.
CHECK_DEADLOCK FALSE
