----------------------------- MODULE ApprovalPortal -----------------------------
(***************************************************************************)
(* The staff requests: approve_request and reject_request                  *)
(* (backend/app/controller/approval_service.py) and rollback_action        *)
(* (backend/app/controller/rollback.py).  Each reads the row it decides on *)
(* without a lock and commits its decision later, so two requests for one  *)
(* row may both find it undecided.  A retried or redelivered Celery task   *)
(* is one more request.                                                    *)
(***************************************************************************)
EXTENDS ActionExecutor

\* A request q for decision d starts: the guard it read is remembered by pc alone.
Begin(q, d, label) ==
  /\ pc[q] = "idle"
  /\ pc' = [pc EXCEPT ![q] = label]
  /\ job' = [job EXCEPT ![q] = d]
  /\ UNCHANGED <<tables, todo, seen, world, history>>

ApprovalIsPending_Unchecked(d) == approval[d] # None

ApprovalIsPending(d) == approval[d] = "PENDING"

----------------------------------------------------------------------------
(* approve_request.                                                        *)

BeginApprove(q, d) ==
  /\ ApprovalIsPending(d)
  /\ d \notin overdue
  /\ Begin(q, d, "approve")

\* Nothing expires a request but an attempt to approve it.
BeginExpire(q, d) ==
  /\ ApprovalIsPending(d)
  /\ d \in overdue
  /\ Begin(q, d, "expire")

CommitExpiry(q) ==
  /\ pc[q] = "expire"
  /\ approval' = [approval EXCEPT ![job[q]] = "EXPIRED"]
  /\ pc' = [pc EXCEPT ![q] = "idle"]
  /\ job' = [job EXCEPT ![q] = None]
  /\ UNCHANGED <<status, runStatus, dryRun, tally, decision, verdict, action, result,
                 killSwitch, todo, seen, world, history>>

AfterApproval_NotExecuted == "mark"

AfterApproval == "idem"

\* APPROVED is committed before the executor runs.
CommitApproval(q) ==
  /\ pc[q] = "approve"
  /\ approval' = [approval EXCEPT ![job[q]] = "APPROVED"]
  /\ pc' = [pc EXCEPT ![q] = AfterApproval]
  /\ UNCHANGED <<status, runStatus, dryRun, tally, decision, verdict, action, result,
                 killSwitch, todo, job, seen, world, history>>

----------------------------------------------------------------------------
(* reject_request: the expiry is not looked at.                            *)

BeginReject(q, d) ==
  /\ ApprovalIsPending(d)
  /\ Begin(q, d, "reject")

CommitRejection(q) ==
  /\ pc[q] = "reject"
  /\ approval' = [approval EXCEPT ![job[q]] = "REJECTED"]
  /\ decision' = [decision EXCEPT ![job[q]] = "REJECTED"]
  /\ pc' = [pc EXCEPT ![q] = "idle"]
  /\ job' = [job EXCEPT ![q] = None]
  /\ UNCHANGED <<status, runStatus, dryRun, tally, verdict, action, result,
                 killSwitch, todo, seen, world, history>>

----------------------------------------------------------------------------
(* rollback_action: the result is checked before the exception is locked,  *)
(* and the status is set from the action alone.                            *)

CanRollBack_AnyResult(d) ==
  result[d] \in {"SUCCESS", "FAILED"} /\ RequestedAction(d) \in Reversible

CanRollBack(d) == result[d] = "SUCCESS" /\ RequestedAction(d) \in Reversible

BeginRollback(q, d) ==
  /\ CanRollBack(d)
  /\ Begin(q, d, "rollback")

CommitRollback(q) ==
  /\ pc[q] = "rollback"
  /\ status' = [status EXCEPT ![job[q][2]] = RollbackTarget(RequestedAction(job[q]))]
  /\ result' = [result EXCEPT ![job[q]] = "ROLLED_BACK"]
  /\ pc' = [pc EXCEPT ![q] = "idle"]
  /\ job' = [job EXCEPT ![q] = None]
  /\ UNCHANGED <<runStatus, dryRun, tally, decision, verdict, action, approval,
                 killSwitch, todo, seen, world, history>>

----------------------------------------------------------------------------
BeginRequest(q, d) ==
  \/ BeginApprove(q, d)
  \/ BeginExpire(q, d)
  \/ BeginReject(q, d)
  \/ BeginRollback(q, d)

RequestStep(q) ==
  \/ CommitExpiry(q)
  \/ CommitApproval(q)
  \/ CommitRejection(q)
  \/ CommitRollback(q)
===============================================================================
