SPECIFICATION FairSpec
CONSTANTS
  a = a
  b = b
  x = x
  y = y
  c = c
  d = d
  r = r
  Cli = {c}
  Api = {d}
  Readers = {}
  Keys = {a, b}
  Payloads = {x, y}
  Batches <- MixedBatches
  NoLock = NoLock
  NoPending = NoPending
  MaxTime = 2
  Scenes <- IngestScenes
INVARIANTS RecoveredStoreLoads CheckpointIsDurable
PROPERTIES ImplementsBatchLog CallersRecover
