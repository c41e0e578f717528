SPECIFICATION FairSpec
CONSTANTS
  a = a
  b = b
  d = d
  e = e
  p = p
  q = q
  k = k
  Digests = {d, e}
  Bridges = {a, b}
  MaxRounds = 2
  MaxTime = 3
  Scenes <- AllScenes
  NoJob = NoJob
  Commands = {p, q}
  Presses = {k}
  NoRecord = NoRecord
  NoCall = NoCall
  NoChoice = NoChoice
INVARIANTS TrustedEventsAreAudits QuietSwitchPersists
PROPERTIES RetriesSucceed CockpitCatchesUp
CHECK_DEADLOCK FALSE
