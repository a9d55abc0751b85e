\* One run over one exception, two staff requests at the same time, patches, a crash.
SPECIFICATION Spec
CONSTANTS
  Exceptions = {e1}
  Runs = {r1}
  Staff = {q1, q2}
  Proposals <- DeskProposals
  PatchTargets = {"OPEN", "DISMISSED"}
  HourlyLimit = NoLimit
  NoLimit = NoLimit
  MaxCrashes = 1
  MaxToggles = 1
  None = None
PROPERTIES TurnedDownIsNotExecuted
CHECK_DEADLOCK FALSE
