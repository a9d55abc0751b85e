\* An unknown transaction that is resolved automatically.
SPECIFICATION Spec
CONSTANTS
  Amounts = {1000, 5000}
  Confidences = {95}
  MlConfidences = {60}
  EvidenceCounts = {5}
  UncertaintyCounts = {0}
  PolicySets <- NoneOrBuiltIn
  NoValue = NoValue
INVARIANTS UnknownIsNeverAutomatic
CHECK_DEADLOCK FALSE
