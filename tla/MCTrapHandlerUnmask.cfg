\* A hart that asks for interrupts.
SPECIFICATION TrapFairSpec
CONSTANTS
  MaxCpus = 3
  Harts = {0}
  Program <- MCProgram
  Exceptions = {2}
  Interrupts = {5}
  MaxTraps = 1
  Scratch = Scratch
  NoContext = NoContext
PROPERTY
  InterruptsUnmasked
CHECK_DEADLOCK FALSE
