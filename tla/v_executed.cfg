\* A decision marked EXECUTED without its action.
SPECIFICATION Spec
CONSTANTS
  Exceptions = {e1}
  Runs = {r1}
  Staff = {}
  Proposals <- BatchProposals
  PatchTargets = {}
  HourlyLimit = NoLimit
  NoLimit = NoLimit
  MaxCrashes = 0
  MaxToggles = 1
  None = None
INVARIANTS ExecutedMeansActed
CHECK_DEADLOCK FALSE
