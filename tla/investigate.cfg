\* A run that meets every answer and fault, a plain one and an ML request beside it.
SPECIFICATION Spec
CONSTANTS
  main = main
  first = first
  second = second
  Runs <- AllRuns
  Batches <- AloneOrTogether
  ExceptionTypes = {"AMOUNT_MISMATCH", "UNKNOWN"}
  Amounts = {1000}
  Seedings <- SomeSeedings
  Distances <- LastIsNearest
  Classifications <- TwoClassifications
  AnomalyAnswers <- OneAnomaly
  PlanAnswers <- SomePlans
  FindingAnswers <- SomeFindings
  CauseAnswers <- SomeCauses
  Unlucky = {main, first}
  NoValue = NoValue
  NoReply = NoReply
  Malformed = Malformed
INVARIANTS TypeOK FindingFitsEngine NothingIsResolvedAutomatically AutomaticRestsOnDocuments FlaggedIsAutomaticOnlyIfUncertain AnswerMatchesRow
PROPERTIES SettledRowIsFinal OnlyResultsChangeTheDecision DecisionNeverGoesBack
CHECK_DEADLOCK FALSE
