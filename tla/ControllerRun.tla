----------------------------- MODULE ControllerRun -----------------------------
(***************************************************************************)
(* A controller run (backend/app/controller/controller_service.py): list   *)
(* the eligible exceptions, decide each one, route the decision to the     *)
(* executor, to an approval request, to escalation or to nothing, and      *)
(* count it.  Two runs may be active at once: the API and the Celery task  *)
(* both start one, and a redelivered task starts a new one.                *)
(***************************************************************************)
EXTENDS ActionExecutor

Eligible == {e \in Exceptions : status[e] \in {"OPEN", "IN_REVIEW"}}

StartRun(r) ==
  /\ pc[r] = "idle"
  /\ \E dry \in BOOLEAN : dryRun' = [dryRun EXCEPT ![r] = dry]
  /\ runStatus' = [runStatus EXCEPT ![r] = "RUNNING"]
  /\ tally' = [tally EXCEPT ![r].total = Cardinality(Eligible)]
  /\ todo' = [todo EXCEPT ![r] = Eligible]
  /\ pc' = [pc EXCEPT ![r] = "decide"]
  /\ UNCHANGED <<status, decision, verdict, action, approval, result, killSwitch,
                 job, seen, world, history>>

----------------------------------------------------------------------------
(* Decide.  The engine's verdict is any of Proposals, limited by what it   *)
(* reads of the kill switch: policy evaluation turns every verdict it      *)
(* reaches into BLOCK, and the stopping rules before it only escalate or   *)
(* block.  The exception's status is not looked at again.                  *)

VerdictsNow == IF killSwitch THEN {"ESCALATE", "BLOCK"} ELSE Verdicts

Decide(r) ==
  /\ pc[r] = "decide"
  /\ \E e \in todo[r], prop \in Proposals :
       LET d == <<r, e>> IN
       /\ prop[1] \in VerdictsNow
       /\ decision' = [decision EXCEPT ![d] = "PENDING"]
       /\ verdict' = [verdict EXCEPT ![d] = prop[1]]
       /\ action' = [action EXCEPT ![d] = prop[2]]
       /\ job' = [job EXCEPT ![r] = d]
       /\ todo' = [todo EXCEPT ![r] = @ \ {e}]
  /\ pc' = [pc EXCEPT ![r] = "route"]
  /\ UNCHANGED <<status, runStatus, dryRun, tally, approval, result, killSwitch,
                 seen, world, history>>

\* Malformed investigation data raises before the decision is stored; the loop
\* counts the failure and goes on.
DecideFails(r) ==
  /\ pc[r] = "decide"
  /\ \E e \in todo[r] : todo' = [todo EXCEPT ![r] = @ \ {e}]
  /\ tally' = [tally EXCEPT ![r].failed = @ + 1]
  /\ UNCHANGED <<status, runStatus, dryRun, decision, verdict, action, approval, result,
                 killSwitch, pc, job, seen, world, history>>

----------------------------------------------------------------------------
(* Route.                                                                  *)

DryRunStatus_Unlisted == "DRY_RUN"

DryRunStatus == "EXECUTED"

\* A dry run records the automatic action as done and does nothing.
RouteDryRun(r) ==
  /\ pc[r] = "route"
  /\ verdict[job[r]] = "AUTO_EXECUTE"
  /\ dryRun[r]
  /\ decision' = [decision EXCEPT ![job[r]] = DryRunStatus]
  /\ pc' = [pc EXCEPT ![r] = "account"]
  /\ UNCHANGED <<status, runStatus, dryRun, tally, verdict, action, approval, result,
                 killSwitch, todo, job, seen, world, history>>

ExecutesForReal_DryRunForgotten(r) == verdict[job[r]] = "AUTO_EXECUTE"

ExecutesForReal(r) == verdict[job[r]] = "AUTO_EXECUTE" /\ ~dryRun[r]

\* Reading exception.amount loads the whole record: its status is what the
\* executor goes on to believe.
RouteToExecutor(r) ==
  /\ pc[r] = "route"
  /\ ExecutesForReal(r)
  /\ seen' = [seen EXCEPT ![r] = status[job[r][2]]]
  /\ pc' = [pc EXCEPT ![r] = "idem"]
  /\ UNCHANGED <<tables, todo, job, world, history>>

\* create_approval_request: the request and the decision's status, one commit.
RouteToApproval(r) ==
  /\ pc[r] = "route"
  /\ verdict[job[r]] = "RECOMMEND"
  /\ approval' = [approval EXCEPT ![job[r]] = "PENDING"]
  /\ decision' = [decision EXCEPT ![job[r]] = "AWAITING_APPROVAL"]
  /\ pc' = [pc EXCEPT ![r] = "account"]
  /\ UNCHANGED <<status, runStatus, dryRun, tally, verdict, action, result,
                 killSwitch, todo, job, seen, world, history>>

\* escalate_decision, in two steps: the record is loaded with its amount, ...
RouteToEscalation(r) ==
  /\ pc[r] = "route"
  /\ verdict[job[r]] = "ESCALATE"
  /\ seen' = [seen EXCEPT ![r] = status[job[r][2]]]
  /\ pc' = [pc EXCEPT ![r] = "escalate"]
  /\ UNCHANGED <<tables, todo, job, world, history>>

\* ... and written back IN_REVIEW when it was loaded OPEN, without a lock.
Escalate(r) ==
  /\ pc[r] = "escalate"
  /\ decision' = [decision EXCEPT ![job[r]] = "ESCALATED"]
  /\ status' = [status EXCEPT ![job[r][2]] =
                  IF seen[r] = "OPEN" THEN "IN_REVIEW" ELSE @]
  /\ seen' = [seen EXCEPT ![r] = None]
  /\ pc' = [pc EXCEPT ![r] = "account"]
  /\ UNCHANGED <<runStatus, dryRun, tally, verdict, action, approval, result,
                 killSwitch, todo, job, world, history>>

\* block_decision.
RouteToBlock(r) ==
  /\ pc[r] = "route"
  /\ verdict[job[r]] = "BLOCK"
  /\ decision' = [decision EXCEPT ![job[r]] = "BLOCKED"]
  /\ pc' = [pc EXCEPT ![r] = "account"]
  /\ UNCHANGED <<status, runStatus, dryRun, tally, verdict, action, approval, result,
                 killSwitch, todo, job, seen, world, history>>

----------------------------------------------------------------------------
(* Count and finish.                                                       *)

CounterOf_NoBlockBranch(v) ==
  CASE v = "AUTO_EXECUTE" -> "auto_executed"
    [] v = "RECOMMEND"    -> "recommended"
    [] OTHER              -> "escalated"

CounterOf(v) ==
  CASE v = "AUTO_EXECUTE" -> "auto_executed"
    [] v = "RECOMMEND"    -> "recommended"
    [] v = "ESCALATE"     -> "escalated"
    [] OTHER              -> "blocked"

\* The counter of the branch taken and `processed`, committed together.
Account(r) ==
  /\ pc[r] = "account"
  /\ tally' = [tally EXCEPT ![r].processed = @ + 1,
                            ![r][CounterOf(verdict[job[r]])] = @ + 1]
  /\ job' = [job EXCEPT ![r] = None]
  /\ pc' = [pc EXCEPT ![r] = "decide"]
  /\ UNCHANGED <<status, runStatus, dryRun, decision, verdict, action, approval, result,
                 killSwitch, todo, seen, world, history>>

FinalStatus_FailuresForgotten(r) ==
  IF tally[r].processed > 0 THEN "COMPLETED" ELSE "PARTIAL"

FinalStatus(r) == IF tally[r].failed > 0 THEN "PARTIAL" ELSE "COMPLETED"

MayFinalize_AllProcessed(r) == tally[r].processed = tally[r].total

MayFinalize(r) == todo[r] = {}

FinalizeRun(r) ==
  /\ pc[r] = "decide"
  /\ MayFinalize(r)
  /\ runStatus' = [runStatus EXCEPT ![r] = FinalStatus(r)]
  /\ pc' = [pc EXCEPT ![r] = "done"]
  /\ UNCHANGED <<status, dryRun, tally, decision, verdict, action, approval, result,
                 killSwitch, todo, job, seen, world, history>>

RunStep(r) ==
  \/ Decide(r)
  \/ DecideFails(r)
  \/ RouteDryRun(r)
  \/ RouteToExecutor(r)
  \/ RouteToApproval(r)
  \/ RouteToEscalation(r)
  \/ Escalate(r)
  \/ RouteToBlock(r)
  \/ Account(r)
  \/ FinalizeRun(r)
===============================================================================
