SPECIFICATION PacketSpec
CONSTANTS
  o1 = o1
  m1 = m1
  e1 = e1
  a1 = a1
  a2 = a2
  r1 = r1
  r2 = r2
  p1 = p1
  Observations = {o1}
  Metrics = {m1}
  Evaluations = {e1}
  Artifacts = {a1, a2}
  Requirements = {r1}
  Probes = {p1}
  NoId = NoId
  MaxWall = 0
  Ops <- AllOps
INVARIANTS BundleStaysReadable ViableIsSupported
