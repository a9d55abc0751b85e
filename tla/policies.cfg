\* Two admins who create, update, edit, reset and simulate at the same time.
SPECIFICATION Spec
CONSTANTS
  Admins = {a1, a2}
  Policies = {p1, p2}
  MaxVersion = 3
  DryRunValues = {TRUE}
  Simulated = {"policy_failure", "duplicate_worker"}
  NoValue = NoValue
INVARIANTS StoreTypeOK HistoryIsWhole ActiveOncePerCreate
PROPERTIES OnlyResetsGoUnaudited SeenBeforeTurnedOff OvertakenStaysActive
SYMMETRY Symmetric
