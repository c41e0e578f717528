SPECIFICATION Spec
CONSTANTS
  c1 = c1
  c2 = c2
  Checked = {tests}
  Judged = {look}
  Surfaces = {}
  Clients = {c1}
  PlateauWindow = 2
  PauseTotals <- OneTotal
  PerRoundWall = 1
  RoundTokens <- FreeTokens
  MaxFocus = 3
  MaxRounds = 4
  MaxRevision = 2
  NoAudit = NoAudit
  NoOrder = NoOrder
PROPERTIES EscalatesOnce CompletesVerified CarriedOnce
CHECK_DEADLOCK FALSE
