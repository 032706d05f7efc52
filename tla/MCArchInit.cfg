\* Every boot with small device trees, with and without memory behind them.
CONSTANTS
  PageSize = 4
  BitsPerEntry = 4
  BytesPerEntry = 1
  WordSize = 512
  RamBase = 16
  ImageStart = 20
  RegionBase = 256
  KernelVirtualStart = 284
  KernelVirtualEnd = 300
  HeapStart = 36
  HeapEnd = 44
  FdtPointers <- MCFdtPointers
  FdtLengths <- MCFdtLengths
  FdtHeapUse <- MCFdtHeapUse
  MemorySizes <- MCMemorySizes
  RamContents <- MCRamContents
  Harts = {0, 1}
  NULL = NULL
  NoResult = NoResult
  Fault = Fault
SPECIFICATION FairSpec
INVARIANTS
  TypeOK
  HeapReserved
  FdtReservedFromPage
  OnlyInUseMarked
  MarksInsideBitmap
PROPERTY
  BootEnds
