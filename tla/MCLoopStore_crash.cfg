SPECIFICATION FairSpec
CONSTANTS
  p1 = p1
  p2 = p2
  p3 = p3
  Procs = {p1, p2}
  Creator = Creator
  NoLock = NoLock
  MaxEvents = 4
  MaxCrashes = 1
  MaxWriteErrors = 1
INVARIANTS OneHolder ChainIntact
PROPERTY ImplementsEventLog LockRecovered
