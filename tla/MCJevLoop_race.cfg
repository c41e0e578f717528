SPECIFICATION Spec
CONSTANTS
  c1 = c1
  c2 = c2
  Checked = {tests}
  Judged = {}
  Surfaces = {}
  Clients = {c1, c2}
  PlateauWindow = 2
  PauseTotals <- TwoTotals
  PerRoundWall = 1
  RoundTokens <- SomeTokens
  MaxFocus = 1
  MaxRounds = 3
  MaxRevision = 2
  NoAudit = NoAudit
  NoOrder = NoOrder
INVARIANTS CompletionUnderBudget OverBudgetNeedsHuman IInv OrderAnswersAudit
PROPERTIES AuditsWhatItLoaded
CHECK_DEADLOCK FALSE
