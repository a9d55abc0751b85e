------------------------------ MODULE ActionLedger ------------------------------
(***************************************************************************)
(* What the controller promises about its actions, with no sessions, no    *)
(* checks and no approvals: every decision has one entry in a ledger, an   *)
(* entry is settled once, an exception changes on behalf of a decision     *)
(* only in the step that settles its entry as done, to the status the      *)
(* action names, and only a done entry is undone.  Everything else that    *)
(* changes an exception (staff, escalation) leaves the ledger alone.       *)
(***************************************************************************)
CONSTANTS
  Exceptions,
  Decisions,      \* pairs whose second component is an exception
  Statuses,
  Overrides       \* the statuses others than a decision may set

VARIABLES
  status,   \* [Exceptions -> Statuses]
  goal,     \* [Decisions -> Statuses]: where a change on its behalf leads
  entry     \* [Decisions -> {"open", "done", "refused", "undone"}]

Init ==
  /\ status \in [Exceptions -> Statuses]
  /\ entry = [d \in Decisions |-> "open"]

\* The decision acts: its exception changes and its entry is settled at once.
Perform(d) ==
  /\ entry[d] = "open"
  /\ entry' = [entry EXCEPT ![d] = "done"]
  /\ \/ UNCHANGED status
     \/ status' = [status EXCEPT ![d[2]] = goal[d]]

Refuse(d) ==
  /\ entry[d] = "open"
  /\ entry' = [entry EXCEPT ![d] = "refused"]
  /\ UNCHANGED status

\* Undoing gives the exception back to the people who look after it.
Undo(d) ==
  /\ entry[d] = "done"
  /\ entry' = [entry EXCEPT ![d] = "undone"]
  /\ \E s \in Overrides : status' = [status EXCEPT ![d[2]] = s]

\* Someone else sets the status of one exception.
Override(e) ==
  /\ \E s \in Overrides : status' = [status EXCEPT ![e] = s]
  /\ UNCHANGED entry

Next ==
  \/ \E d \in Decisions : Perform(d) \/ Refuse(d) \/ Undo(d)
  \/ \E e \in Exceptions : Override(e)

Spec == Init /\ [][Next]_<<status, entry>>
===============================================================================
