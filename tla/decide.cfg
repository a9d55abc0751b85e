\* Signals on both sides of every threshold, with and without policies.
SPECIFICATION Spec
CONSTANTS
  Amounts = {1000, 5000, 5001, 10001, 50001}
  Confidences = {49, 69, 70, 95}
  MlConfidences = {50, 60}
  EvidenceCounts = {0, 1, 5}
  UncertaintyCounts = {0, 1, 2}
  PolicySets <- NoneOrBuiltIn
  NoValue = NoValue
INVARIANTS MoreDoubtIsNoFreer HighValueDuplicateIsReviewed LargeDiscrepancyIsReviewed UninvestigatedIsBlocked VerdictFitsController
CHECK_DEADLOCK FALSE
