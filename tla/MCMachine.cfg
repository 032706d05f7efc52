\* Two harts with three traps between them; four marks and writes of page table
\* entries; three bitmap entries of two pages, with and without a tail of memory
\* that has no bit.
CONSTANTS
  MaxCpus = 3
  Harts = {0, 2}
  Program <- MCProgram
  Exceptions = {2, 7}
  Interrupts = {5}
  MaxTraps = 3
  Scratch = Scratch
  NoContext = NoContext
  Index <- MCIndex
  Frames <- MCFrames
  BootRoot <- MCRoot
  BootStart <- MCStart
  RegionVpn = 1
  Entries <- MCEntries
  MaxEdits = 4
  NoEntry = NoEntry
  Fault = Fault
  Searching = Searching
  PageSize = 2
  BitsPerEntry = 2
  BytesPerEntry = 1
  WordSize = 32
  RamBase = 8
  MemorySizes <- MCMemorySizes
  Regions <- MCRegions
  RamContents <- MCRamContents
  HeapStart = 0
  HeapEnd = 5
  MaxHolders = 6
  NULL = NULL
  NoResult = NoResult
SPECIFICATION MachineSpec
INVARIANTS
  TrapTypeOK
  SavedContextIsInterrupted
  ReturnsToUserProgram
  PanicIsOfTheLastException
  TablesTypeOK
  BootMapHolds
  WalkFindsTranslation
  FoundIsTheLeaf
  TypeOK
  ReservedNeverHeld
  SharedOnlyAtEntryHead
  NoLeak
  HeldInsideRam
  FreeCountExact
PROPERTIES
  TrapsEnd
  NullOnlyWhenExhausted
\* A program may go on without a trap, no more entries may be marked, and nothing
\* is enabled when the next page is out MaxHolders times and none is freed.
CHECK_DEADLOCK FALSE
