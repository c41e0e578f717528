SPECIFICATION Spec
CONSTANTS
  Outside = {"notes"}
  Protected = {"api"}
  NoPath = NoPath
  NoFailure = NoFailure
  NoCall = NoCall
  HeartbeatAfter = 1
  StallAfter = 1
  FailureWindow = 1
  FailureCount = 2
  DriftPercent = 60
  WarningPercent = 100
  Limit <- Budget
  MaxOpenCalls = 0
  Drafts <- Reports
  Modes = {"stream", "main", "sibling"}
  MaxHistory = 7
  MaxEvidence = 4
  NoBasis = NoBasis
  MaxEvents = 3
  MaxTime = 2
INVARIANTS OpenMeansActive OccurrencesAreEvents OpenWasSent SentOnce
