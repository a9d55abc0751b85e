\* Two runs over one exception, two staff requests at the same time.
SPECIFICATION Spec
CONSTANTS
  Exceptions = {e1}
  Runs = {r1, r2}
  Staff = {q1, q2}
  Proposals <- ResolveProposals
  PatchTargets = {}
  HourlyLimit = NoLimit
  NoLimit = NoLimit
  MaxCrashes = 0
  MaxToggles = 1
  None = None
SYMMETRY Symmetry
INVARIANTS AtMostOneEffect ResolutionIsBacked
PROPERTIES ImplementsLedger
CHECK_DEADLOCK FALSE
