SPECIFICATION FairSpec
CONSTANTS
  a = a
  b = b
  x = x
  y = y
  c = c
  d = d
  r = r
  Cli = {c, d}
  Api = {}
  Readers = {}
  Keys = {a, b}
  Payloads = {x, y}
  Batches <- PlainBatches
  NoLock = NoLock
  NoPending = NoPending
  MaxTime = 1
  Scenes <- CommandScenes
PROPERTY TornJournalRecovers
