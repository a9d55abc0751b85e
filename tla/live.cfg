\* Sessions that start are scheduled until they end.
SPECIFICATION FairSpec
CONSTANTS
  Exceptions = {e1}
  Runs = {r1}
  Staff = {q1, q2}
  Proposals <- DeskProposals
  PatchTargets = {}
  HourlyLimit = NoLimit
  NoLimit = NoLimit
  MaxCrashes = 0
  MaxToggles = 1
  None = None
PROPERTIES StartedRunEnds ApprovedGetsResult
CHECK_DEADLOCK FALSE
