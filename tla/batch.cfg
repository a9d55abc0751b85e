\* Two runs over two exceptions, no staff.
SPECIFICATION Spec
CONSTANTS
  Exceptions = {e1, e2}
  Runs = {r1, r2}
  Staff = {}
  Proposals <- BatchProposals
  PatchTargets = {}
  HourlyLimit = 1
  NoLimit = NoLimit
  MaxCrashes = 1
  MaxToggles = 1
  None = None
SYMMETRY Symmetry
INVARIANTS TypeOK NoActionWithoutMandate OnlyInFlightWorkPastSwitch HourlyOvershootBounded RunCountsAgree FinishedRunIsSettled
CHECK_DEADLOCK FALSE
