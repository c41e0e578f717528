SPECIFICATION Spec
CONSTANTS
  NoValue = NoValue
  NoFile = NoFile
  MaxOrders = 3
  MaxReports = 2
  Sessions <- AllSessions
  SecondCards <- Reconsidered
  Evidence <- EvidenceOf
  Opinions <- OpinionsOf
INVARIANTS SiftKeepsTheBest QuestionOrderIsIgnored PromotionIsVetted ProbesAreFit OutcomeIsEarned
CHECK_DEADLOCK FALSE
