\* A size of more than one cell.
CONSTANTS
  memory = memory
  soc = soc
  reg = reg
  compatible = compatible
  FDT_MAX_CHILDREN = 2
  FDT_MAX_PROPERTIES = 2
  NodeNames <- MCNodeNames
  NameLength <- MCNameLength
  Memory = memory
  Reg = reg
  Props <- MCTwoWordRegs
  MaxWords = 12
  ByteBase = 8
  WordBase = 4
  HeapContents <- MCClearHeap
  NodeBytes = 3
  PropertyBytes = 1
  HeapStart = 0
  HeapEnd = 12
  NULL = NULL
  Garbage = Garbage
  Rest = Rest
  Fault = Fault
SPECIFICATION Spec
INVARIANT
  AmountOfMemory
\* The parser returns.
CHECK_DEADLOCK FALSE
