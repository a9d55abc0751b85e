\* A second run repeats the action of the first.
SPECIFICATION Spec
CONSTANTS
  Exceptions = {e1}
  Runs = {r1, r2}
  Staff = {}
  Proposals <- ResolveProposals
  PatchTargets = {}
  HourlyLimit = NoLimit
  NoLimit = NoLimit
  MaxCrashes = 0
  MaxToggles = 0
  None = None
INVARIANTS RetriedTaskActsOnce
CHECK_DEADLOCK FALSE
