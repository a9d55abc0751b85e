\* An approval request approved and rejected.
SPECIFICATION Spec
CONSTANTS
  Exceptions = {e1}
  Runs = {r1}
  Staff = {q1, q2}
  Proposals <- ResolveProposals
  PatchTargets = {}
  HourlyLimit = NoLimit
  NoLimit = NoLimit
  MaxCrashes = 0
  MaxToggles = 0
  None = None
PROPERTIES AnsweredOnce
CHECK_DEADLOCK FALSE
