SPECIFICATION FairSpec
CONSTANTS
  tests = tests
  bench = bench
  look = look
  feel = feel
  s = s
  o1 = o1
  m1 = m1
  m2 = m2
  e1 = e1
  e2 = e2
  e3 = e3
  f = f
  p = p
  q = q
  h1 = h1
  h2 = h2
  Checked = {tests, bench}
  Hard = {tests}
  Judged = {look, feel}
  Surfaces = {s}
  PlateauWindow = 2
  NoAudit = NoAudit
  RequiredCommands <- Commands
  RequiredArtifacts <- Artifacts
  MetricTarget = 1
  NoId = NoId
  Providers = {"local", "semif", "jev", "replay"}
  Given <- GivenAnswers
  Ticks = 2
  Levels = 2
  MaxCalls = 2
  NoCall = NoCall
  Scenes <- AllScenes
  Procs = {p, q}
  JudgedOrder <- SpecOrder
  TargetScore = 2
  MinConfidence = 2
  NoLock = NoLock
  NoOp = NoOp
  NoRun = NoRun
INVARIANTS FileStaysValid FileHoldsLastRuns AnswersBelong
PROPERTIES PassWasRun CompletionWasRun LocalCallsEnd
CHECK_DEADLOCK FALSE
