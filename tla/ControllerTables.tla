--------------------------- MODULE ControllerTables ---------------------------
(***************************************************************************)
(* The database tables and the processes of the autonomous controller      *)
(* (backend/app/models/controller.py, models/exception.py).                *)
(*                                                                         *)
(* A process is one database session: a controller run (one call of        *)
(* start_controller_run, from POST /controller/runs or from the Celery     *)
(* task) or a staff request (one call of approve_request, reject_request   *)
(* or rollback_action).  Sessions run READ COMMITTED with autoflush off:   *)
(* what a session writes is seen by the others when it commits, so a step  *)
(* of the model is the code between two commits, cut further wherever the  *)
(* session reads a row that another session may change before it commits.  *)
(*                                                                         *)
(* A run decides each exception it listed once, so <<run, exception>>      *)
(* names a row of controller_decisions, and also the approval request and  *)
(* the idempotency key "exception:action:decision" that go with it.        *)
(***************************************************************************)
EXTENDS Integers, FiniteSets

CONSTANTS
  Exceptions,     \* the rows of the table exceptions (one merchant)
  Runs,           \* the controller runs that may be started
  Staff,          \* the sessions that serve approvals and rollbacks
  Proposals,      \* the <<verdict, action>> pairs the decision engine may return
  PatchTargets,   \* the statuses staff set through PATCH /exceptions/{id}
  HourlyLimit,    \* max_auto_per_hour, or NoLimit when the row is absent
  NoLimit,
  MaxCrashes,     \* bound: how many sessions may die part-way
  MaxToggles,     \* bound: how often the kill switch is turned on
  None            \* no value: a row that does not exist, a column not loaded

Procs     == Runs \cup Staff
Decisions == Runs \X Exceptions

Statuses == {"OPEN", "IN_REVIEW", "RESOLVED", "DISMISSED"}

Verdicts == {"AUTO_EXECUTE", "RECOMMEND", "ESCALATE", "BLOCK"}

\* The members of ControllerDecisionStatus that some code assigns.
DecisionStatuses ==
  {"PENDING", "EXECUTED", "AWAITING_APPROVAL", "REJECTED", "ESCALATED", "BLOCKED"}

\* The members of ApprovalStatus that some code assigns.
ApprovalStatuses == {"PENDING", "APPROVED", "REJECTED", "EXPIRED"}

ActionStatuses == {"SUCCESS", "FAILED", "FAILED_VERIFICATION", "ROLLED_BACK"}

RunStatuses == {"RUNNING", "COMPLETED", "PARTIAL"}

Counters == {"total", "processed", "failed", "auto_executed", "recommended",
             "escalated", "blocked"}

(***************************************************************************)
(* The action registry, with the status each action leads to, and the      *)
(* status its rollback leads to.                                           *)
(***************************************************************************)
Resolving == {"MARK_EXCEPTION_RESOLVED", "APPLY_FEE_VARIANCE_RECONCILIATION"}
Reviewing == {"MARK_EXCEPTION_REVIEWED", "REQUEST_HUMAN_REVIEW", "ESCALATE_EXCEPTION"}
Noting    == {"ADD_RECONCILIATION_ADJUSTMENT_NOTE"}
Actions   == Resolving \cup Reviewing \cup Noting

Reversible == Resolving \cup {"MARK_EXCEPTION_REVIEWED"}

RollbackTarget_Unmapped(a) == IF a \in Resolving THEN "RESOLVED" ELSE "OPEN"

RollbackTarget(a) == IF a \in Resolving THEN "IN_REVIEW" ELSE "OPEN"

\* The status _execute_state_change assigns to a record it sees as `seen`.
TargetStatus(a, seen) ==
  CASE a \in Resolving -> "RESOLVED"
    [] a \in Reviewing -> "IN_REVIEW"
    [] OTHER           -> seen

ASSUME ConstantsAssumption ==
  /\ IsFiniteSet(Exceptions)
  /\ Runs \cap Staff = {}
  /\ None \notin Exceptions \cup Runs \cup Staff
  /\ None \notin Statuses \cup Verdicts \cup Actions \cup DecisionStatuses
                 \cup ApprovalStatuses \cup ActionStatuses \cup RunStatuses
  /\ None \notin Decisions
  /\ Proposals \subseteq Verdicts \X (Actions \cup {None})
  /\ PatchTargets \subseteq Statuses
  /\ HourlyLimit \in Nat \/ HourlyLimit = NoLimit
  /\ MaxCrashes \in Nat
  /\ MaxToggles \in Nat

VARIABLES
  (* ---- tables ---- *)
  status,      \* [Exceptions -> Statuses]: exceptions.status
  runStatus,   \* [Runs -> RunStatuses or None]: controller_runs.status
  dryRun,      \* [Runs -> BOOLEAN]: controller_runs.dry_run
  tally,       \* [Runs -> [Counters -> Nat]]: the counters of a run's row
  decision,    \* [Decisions -> DecisionStatuses or None]: its status
  verdict,     \* [Decisions -> Verdicts or None]: its column "decision"
  action,      \* [Decisions -> Actions or None]: its column "action"
  approval,    \* [Decisions -> ApprovalStatuses or None]: approval_requests.status
  result,      \* [Decisions -> ActionStatuses or None]: action_results.status
  killSwitch,  \* BOOLEAN: controller_config "kill_switch"
  (* ---- sessions ---- *)
  pc,          \* [Procs -> Labels]: the next step of the session
  todo,        \* [Runs -> SUBSET Exceptions]: listed and not yet processed
  job,         \* [Procs -> Decisions or None]: the decision worked on
  seen,        \* [Procs -> Statuses or None]: exception.status as loaded earlier
  (* ---- time and failures ---- *)
  overdue,     \* the decisions whose approval request is past expires_at
  recent,      \* the decisions whose result is dated in the current hour
  crashes,     \* how many sessions have died
  toggles,     \* how often the kill switch has been turned on
  (* ---- history, read by no guard ---- *)
  effects,     \* [Decisions -> Nat]: state changes committed for the decision
  inFlight     \* sessions past the kill-switch check when it was last turned on

tables   == <<status, runStatus, dryRun, tally, decision, verdict, action,
              approval, result, killSwitch>>
sessions == <<pc, todo, job, seen>>
world    == <<overdue, recent, crashes, toggles>>
history  == <<effects, inFlight>>
vars     == <<tables, sessions, world, history>>

ExecutorLabels == {"idem", "kill", "rate", "apply", "mark"}
Labels == {"idle", "done", "dead", "decide", "route", "escalate", "account",
           "expire", "approve", "reject", "rollback"} \cup ExecutorLabels

\* Past _check_kill_switch and not yet committed.
PastCheck == {"rate", "apply"}

\* What a request for the decision asks for: "decision.action or ...".
RequestedAction(d) ==
  CASE action[d] # None              -> action[d]
    [] verdict[d] = "AUTO_EXECUTE"   -> "MARK_EXCEPTION_RESOLVED"
    [] OTHER                         -> "MARK_EXCEPTION_REVIEWED"

NoTally == [c \in Counters |-> 0]

Init ==
  /\ status \in [Exceptions -> {"OPEN", "IN_REVIEW"}]
  /\ runStatus = [r \in Runs |-> None]
  /\ dryRun = [r \in Runs |-> FALSE]
  /\ tally = [r \in Runs |-> NoTally]
  /\ decision = [d \in Decisions |-> None]
  /\ verdict = [d \in Decisions |-> None]
  /\ action = [d \in Decisions |-> None]
  /\ approval = [d \in Decisions |-> None]
  /\ result = [d \in Decisions |-> None]
  /\ killSwitch = FALSE
  /\ pc = [p \in Procs |-> "idle"]
  /\ todo = [r \in Runs |-> {}]
  /\ job = [p \in Procs |-> None]
  /\ seen = [p \in Procs |-> None]
  /\ overdue = {}
  /\ recent = {}
  /\ crashes = 0
  /\ toggles = 0
  /\ effects = [d \in Decisions |-> 0]
  /\ inFlight = {}

\* The rows and the sessions hold values of their columns' types.
TypeOK ==
  /\ status \in [Exceptions -> Statuses]
  /\ runStatus \in [Runs -> RunStatuses \cup {None}]
  /\ dryRun \in [Runs -> BOOLEAN]
  /\ tally \in [Runs -> [Counters -> Nat]]
  /\ decision \in [Decisions -> DecisionStatuses \cup {None}]
  /\ verdict \in [Decisions -> Verdicts \cup {None}]
  /\ action \in [Decisions -> Actions \cup {None}]
  /\ approval \in [Decisions -> ApprovalStatuses \cup {None}]
  /\ result \in [Decisions -> ActionStatuses \cup {None}]
  /\ killSwitch \in BOOLEAN
  /\ pc \in [Procs -> Labels]
  /\ todo \in [Runs -> SUBSET Exceptions]
  /\ job \in [Procs -> Decisions \cup {None}]
  /\ seen \in [Procs -> Statuses \cup {None}]
  /\ overdue \subseteq Decisions
  /\ recent \subseteq Decisions
  /\ crashes \in Nat
  /\ toggles \in Nat
  /\ effects \in [Decisions -> Nat]
  /\ inFlight \subseteq Procs
===============================================================================
