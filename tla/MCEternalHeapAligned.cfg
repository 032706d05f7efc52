\* An aligned request behind a plain one, on a heap that starts aligned.
CONSTANTS
  HeapStart = 16
  HeapEnd = 64
  Sizes = {1, 8}
  Alignments = {8}
  MaxBlocks = 2
SPECIFICATION Spec
INVARIANT
  AlignedRequestAligned
\* A behaviour may stop after MaxBlocks requests.
CHECK_DEADLOCK FALSE
