\* The hand-over in which the owner's own release panics.
CONSTANTS
  CPU = {c1, c2}
  NoCPU = NoCPU
  Junk = Junk
SYMMETRY Symmetry
SPECIFICATION LockSpec
INVARIANT
  OwnerNeverPanics
