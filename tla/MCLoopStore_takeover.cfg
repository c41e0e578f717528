SPECIFICATION Spec
CONSTANTS
  p1 = p1
  p2 = p2
  p3 = p3
  Procs = {p1, p2, p3}
  Creator = Creator
  NoLock = NoLock
  MaxEvents = 4
  MaxCrashes = 1
  MaxWriteErrors = 0
SYMMETRY Symmetry
INVARIANT ChainIntact
