SPECIFICATION FairSpec
CONSTANTS
  o1 = o1
  m1 = m1
  r1 = r1
  p = p
  q = q
  s = s
  Recorders = {p, q, s}
  Observations = {o1}
  Metrics = {m1}
  Evaluations = {}
  Artifacts = {}
  Requirements = {r1}
  Probes = {}
  NoId = NoId
  NoLock = NoLock
  NoOp = NoOp
  MaxWall = 1
  Windows = TRUE
  Ops <- CompetingOps
INVARIANTS CopyIsCurrent
PROPERTIES ImplementsLedger CallsEnd
CHECK_DEADLOCK FALSE
