\* The regions of init.c's comment, with a device tree off its page.
CONSTANTS
  PageSize = 4
  BitsPerEntry = 4
  BytesPerEntry = 1
  WordSize = 512
  RamBase = 16
  ImageStart = 20
  RegionBase = 256
  KernelVirtualStart = 284
  KernelVirtualEnd = 300
  HeapStart = 36
  HeapEnd = 44
  FdtPointers <- MCUnalignedFdt
  FdtLengths <- MCUnalignedLengths
  FdtHeapUse <- MCFdtHeapUse
  MemorySizes = {72}
  RamContents <- MCClearRam
  Harts = {0, 1}
  NULL = NULL
  NoResult = NoResult
  Fault = Fault
SPECIFICATION Spec
INVARIANT
  RegionsReserved
