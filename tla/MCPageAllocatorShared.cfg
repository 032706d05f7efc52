\* The same instance: two clients get the same page.
CONSTANTS
  PageSize = 2
  BitsPerEntry = 2
  BytesPerEntry = 1
  WordSize = 32
  RamBase = 8
  MemorySizes <- MCMemorySizes
  Regions <- MCRegions
  RamContents <- MCRamContents
  HeapStart = 0
  HeapEnd = 5
  MaxHolders = 6
  NULL = NULL
  NoResult = NoResult
SPECIFICATION Spec
INVARIANT
  HeldOnce
CHECK_DEADLOCK FALSE
