----------------------------- MODULE AdminConsole -----------------------------
(***************************************************************************)
(* What admins change beside policies: the controller's configuration      *)
(* (routes/controller_config.py), the demo reset (routes/demo.py) and the  *)
(* failure simulations they run from the console (simulation/runner.py,    *)
(* routes/simulation.py).  Two of the scenarios inject their fault into    *)
(* the tables the controller reads, but import functions that do not       *)
(* exist, and fail before they inject it.                                  *)
(***************************************************************************)
EXTENDS PolicyStore

CONSTANTS
  DryRunValues,   \* what a request may set dry_run_default to
  Simulated       \* the scenarios that are run

VARIABLES
  switch,         \* the kill_switch row: NoValue, or whether it is enabled
  dryRun,         \* the dry_run_default row, which stands for the other keys too
  toggles,        \* what the newest KILL_SWITCH_TOGGLED entry says
  edit,           \* per admin: the configuration request or the reset that is open
  report          \* the last scenario that was run, and whether it passed

consoleVars == <<switch, dryRun, toggles, edit, report>>
vars        == <<storeVars, consoleVars>>

Scenarios ==
  {"missing_evidence", "contradictory_evidence", "llm_failure", "ml_failure",
   "action_failure", "db_error", "duplicate_worker", "kill_switch", "policy_failure"}

ASSUME ConsoleAssumption ==
  /\ Simulated \subseteq Scenarios
  /\ DryRunValues \subseteq BOOLEAN
  /\ NoValue \notin BOOLEAN

\* The scenarios whose runner imports is_kill_switch_active or evaluate_policy.
BrokenScenarios == {"kill_switch", "policy_failure"}

\* The keys a request gives and their values.
Edits == [switch : BOOLEAN \cup {NoValue}, dryRun : DryRunValues \cup {NoValue}]

Init ==
  /\ StoreInit
  /\ switch = NoValue
  /\ dryRun = NoValue
  /\ toggles = NoValue
  /\ edit = [a \in Admins |-> NoValue]
  /\ report = NoValue

----------------------------------------------------------------------------
(* The configuration (update_config).                                      *)

Editing(a, point) == edit[a] # NoValue /\ edit[a].at = point

\* A request that gives no key changes nothing and is left out.
AskForEdit(a) ==
  /\ edit[a] = NoValue /\ request[a] = NoValue
  /\ \E e \in Edits :
       edit' = [edit EXCEPT ![a] =
                  [at |-> IF e.switch = NoValue THEN "dryRun" ELSE "switch",
                   switch |-> e.switch, dryRun |-> e.dryRun,
                   seenSwitch |-> NoValue, seenDryRun |-> NoValue]]
  /\ UNCHANGED <<storeVars, switch, dryRun, toggles, report>>

\* _upsert_config reads the row ...
ReadRow(a) ==
  /\ \/ Editing(a, "switch") /\ edit' = [edit EXCEPT ![a].at = "toggle",
                                                   ![a].seenSwitch = switch]
     \/ Editing(a, "dryRun") /\ edit' = [edit EXCEPT ![a].at = "set",
                                                   ![a].seenDryRun = dryRun]
  /\ UNCHANGED <<storeVars, switch, dryRun, toggles, report>>

Upserted_Always(seen, old, new) == new

\* ... and the row it read is only written where the new value differs from that.
Upserted(seen, old, new) == IF seen = new THEN old ELSE new

\* The insert of a key that another request has inserted since violates its key.
InsertClashes(seen, old) == seen = NoValue /\ old # NoValue

ToggleSwitch_AuditLater(a) ==
  /\ Editing(a, "toggle") /\ ~InsertClashes(edit[a].seenSwitch, switch)
  /\ switch' = Upserted(edit[a].seenSwitch, switch, edit[a].switch)
  /\ edit' = [edit EXCEPT ![a].at = "dryRun"]
  /\ UNCHANGED <<storeVars, dryRun, toggles, report>>

\* The audit entry commits the kill switch with itself, before the other keys.
ToggleSwitch(a) ==
  /\ Editing(a, "toggle") /\ ~InsertClashes(edit[a].seenSwitch, switch)
  /\ switch' = Upserted(edit[a].seenSwitch, switch, edit[a].switch)
  /\ toggles' = edit[a].switch
  /\ edit' = [edit EXCEPT ![a].at = "dryRun"]
  /\ UNCHANGED <<storeVars, dryRun, report>>

SetDryRun(a) ==
  /\ Editing(a, "set")
  /\ edit[a].dryRun = NoValue \/ ~InsertClashes(edit[a].seenDryRun, dryRun)
  /\ dryRun' = IF edit[a].dryRun = NoValue THEN dryRun
               ELSE Upserted(edit[a].seenDryRun, dryRun, edit[a].dryRun)
  /\ edit' = [edit EXCEPT ![a] = NoValue]
  /\ UNCHANGED <<storeVars, switch, toggles, report>>

\* A clash, a database error or a crash: what is not committed yet is lost.
EditFails(a) ==
  /\ edit[a] # NoValue
  /\ edit' = [edit EXCEPT ![a] = NoValue]
  /\ UNCHANGED <<storeVars, switch, dryRun, toggles, report>>

----------------------------------------------------------------------------
(* The demo reset (reset_demo).                                            *)

\* The row of the kill switch is read ...
ReadSwitchForReset(a) ==
  /\ edit[a] = NoValue /\ request[a] = NoValue
  /\ edit' = [edit EXCEPT ![a] = [at |-> "resetDryRun", switch |-> FALSE, dryRun |-> FALSE,
                                  seenSwitch |-> switch, seenDryRun |-> NoValue]]
  /\ UNCHANGED <<storeVars, switch, dryRun, toggles, report>>

\* ... then that of the dry run ...
ReadDryRunForReset(a) ==
  /\ Editing(a, "resetDryRun")
  /\ edit' = [edit EXCEPT ![a].at = "reset", ![a].seenDryRun = dryRun]
  /\ UNCHANGED <<storeVars, switch, dryRun, toggles, report>>

\* A row that was not there is not inserted.
ResetRow(seen, old) == IF seen = NoValue THEN old ELSE Upserted(seen, old, FALSE)

\* ... and both are committed, without an audit entry.
CommitReset(a) ==
  /\ Editing(a, "reset")
  /\ switch' = ResetRow(edit[a].seenSwitch, switch)
  /\ dryRun' = ResetRow(edit[a].seenDryRun, dryRun)
  /\ edit' = [edit EXCEPT ![a] = NoValue]
  /\ UNCHANGED <<storeVars, toggles, report>>

ResetDemo(a) == ReadSwitchForReset(a) \/ ReadDryRunForReset(a) \/ CommitReset(a)

----------------------------------------------------------------------------
(* The simulations (run_scenario).                                         *)

Report(s, passed) == report' = <<s, passed>>

\* The ImportError is caught and reported as a failed scenario.
FailOnImport(s) ==
  /\ s \in BrokenScenarios
  /\ Report(s, FALSE)
  /\ UNCHANGED <<storeVars, switch, dryRun, toggles, edit>>

\* There is no action result to repeat, or the copy of one is rejected by the unique
\* constraint on its key; the other scenarios run nothing.  All of them pass.
PassWithoutTrace(s) ==
  /\ s \notin BrokenScenarios
  /\ Report(s, TRUE)
  /\ UNCHANGED <<storeVars, switch, dryRun, toggles, edit>>

Simulate(s) == FailOnImport(s) \/ PassWithoutTrace(s)

Edit(a) == AskForEdit(a) \/ ReadRow(a) \/ ToggleSwitch(a) \/ SetDryRun(a) \/ EditFails(a)

\* An admin has one request open at a time.
Next ==
  \/ \E a \in Admins :
       \/ edit[a] = NoValue /\ StoreStep(a) /\ UNCHANGED consoleVars
       \/ Edit(a)
       \/ ResetDemo(a)
  \/ \E s \in Simulated : Simulate(s)

Spec == Init /\ [][Next]_vars

----------------------------------------------------------------------------
(* Properties.                                                             *)

\* The kill switch is never turned on without an entry that says so, committed with
\* it, and only the demo reset turns it off without one: not when requests overlap,
\* not when a later key of a request fails, and not by a simulation.  (The converse
\* is false: a request that reads a row it agrees with is audited, but leaves what
\* another has written to the row since.)
OnlyResetsGoUnaudited ==
  [][switch' # switch =>
       \/ toggles' = switch'
       \/ switch' = FALSE /\ \E a \in Admins : Editing(a, "reset") /\ edit[a]' = NoValue]_vars

\* No request turns the kill switch off that has not read it on: one that read it
\* off, or found no row, never undoes the stop another admin has made since.  This
\* rests on the ORM, which leaves out the columns that do not change (update_config,
\* reset_demo).
SeenBeforeTurnedOff ==
  [][switch = TRUE /\ switch' = FALSE =>
       \E a \in Admins : /\ edit[a] # NoValue /\ edit[a].seenSwitch = TRUE
                         /\ edit[a]' # edit[a]]_vars

===============================================================================
