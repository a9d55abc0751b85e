-------------------------- MODULE AutonomousController --------------------------
(***************************************************************************)
(* The autonomous controller as a whole: controller runs, staff requests,  *)
(* the kill switch, staff who patch exceptions, time, and sessions that    *)
(* die part-way.                                                           *)
(***************************************************************************)
EXTENDS ControllerRun, ApprovalPortal

----------------------------------------------------------------------------
(* The environment.                                                        *)

\* PATCH /controller/config.
TurnOnKillSwitch ==
  /\ ~killSwitch
  /\ toggles < MaxToggles
  /\ killSwitch' = TRUE
  /\ toggles' = toggles + 1
  /\ inFlight' = {p \in Procs : pc[p] \in PastCheck}
  /\ UNCHANGED <<status, runStatus, dryRun, tally, decision, verdict, action, approval,
                 result, sessions, overdue, recent, crashes, effects>>

TurnOffKillSwitch ==
  /\ killSwitch
  /\ killSwitch' = FALSE
  /\ UNCHANGED <<status, runStatus, dryRun, tally, decision, verdict, action, approval,
                 result, sessions, world, history>>

\* PATCH /exceptions/{id}: any status to any status, no lock, nothing recorded.
PatchException(e) ==
  /\ \E s \in PatchTargets \ {status[e]} : status' = [status EXCEPT ![e] = s]
  /\ UNCHANGED <<runStatus, dryRun, tally, decision, verdict, action, approval,
                 result, killSwitch, sessions, world, history>>

\* The 72 hours of an open approval request run out.
PassDeadline(d) ==
  /\ approval[d] = "PENDING"
  /\ d \notin overdue
  /\ overdue' = overdue \cup {d}
  /\ UNCHANGED <<tables, sessions, recent, crashes, toggles, history>>

\* A new clock hour begins.
PassHour ==
  /\ recent # {}
  /\ recent' = {}
  /\ UNCHANGED <<tables, sessions, overdue, crashes, toggles, history>>

Crash(p) ==
  /\ pc[p] \notin {"idle", "done", "dead"}
  /\ crashes < MaxCrashes
  /\ crashes' = crashes + 1
  /\ Abandon(p)
  /\ UNCHANGED <<tables, todo, overdue, recent, toggles, effects>>

Environment ==
  \/ TurnOnKillSwitch
  \/ TurnOffKillSwitch
  \/ \E e \in Exceptions : PatchException(e)
  \/ \E d \in Decisions : PassDeadline(d)
  \/ PassHour
  \/ \E p \in Procs : Crash(p)

----------------------------------------------------------------------------
Next ==
  \/ \E r \in Runs : StartRun(r) \/ RunStep(r)
  \/ \E q \in Staff, d \in Decisions : BeginRequest(q, d)
  \/ \E q \in Staff : RequestStep(q)
  \/ \E p \in Procs : ExecuteAction(p)
  \/ Environment

Spec == Init /\ [][Next]_vars

\* A session that has started goes on: it is one synchronous call.  Nobody has
\* to start a run or a request.
Fairness ==
  /\ \A r \in Runs  : WF_vars(RunStep(r) \/ ExecuteAction(r))
  /\ \A q \in Staff : WF_vars(RequestStep(q) \/ ExecuteAction(q))

FairSpec == Spec /\ Fairness

----------------------------------------------------------------------------
(* Safety.                                                                 *)

\* However many sessions execute one decision, at most one change of its
\* exception is ever committed for it, and only with a result that says so
\* (action_executor: the idempotency key and its unique constraint).
AtMostOneEffect ==
  \A d \in Decisions :
    /\ effects[d] <= 1
    /\ effects[d] = 1 => result[d] \in {"SUCCESS", "ROLLED_BACK"}

\* A decision that was escalated, blocked or only tried in a dry run leaves no
\* action result, and a recommended one leaves none until its approval request
\* has been answered (escalation_service, controller_service, approval_service).
NoActionWithoutMandate ==
  \A d \in Decisions :
    result[d] # None =>
      \/ verdict[d] = "AUTO_EXECUTE" /\ ~dryRun[d[1]]
      \/ verdict[d] = "RECOMMEND" /\ approval[d] \notin {None, "PENDING"}

\* While the kill switch is on, only sessions that had passed their check when
\* it was turned on are still on their way to a commit, each for the one action
\* it had in hand (action_executor: _check_kill_switch).
OnlyInFlightWorkPastSwitch ==
  killSwitch => \A p \in Procs : pc[p] \in PastCheck => p \in inFlight

\* Between two exceptions a run's row agrees with its decisions: each listed
\* exception is counted once, under the branch its decision took
\* (controller_service: _process_exception, the loop of start_controller_run).
RunCountsAgree ==
  \A r \in Runs :
    pc[r] \in {"decide", "done"} =>
      LET Number(v) == Cardinality({e \in Exceptions : verdict[<<r, e>>] = v}) IN
      /\ tally[r].total = tally[r].processed + tally[r].failed + Cardinality(todo[r])
      /\ tally[r].auto_executed = Number("AUTO_EXECUTE")
      /\ tally[r].recommended = Number("RECOMMEND")
      /\ tally[r].escalated = Number("ESCALATE")
      /\ tally[r].blocked = Number("BLOCK")
      /\ tally[r].processed = Cardinality({e \in Exceptions : verdict[<<r, e>>] # None})

\* A run that finished has left none of its decisions unrouted, and says
\* COMPLETED only when no exception of its list failed (_finalize_run).
FinishedRunIsSettled ==
  \A r \in Runs :
    runStatus[r] \in {"COMPLETED", "PARTIAL"} =>
      /\ todo[r] = {}
      /\ \A e \in Exceptions : decision[<<r, e>>] # "PENDING"
      /\ runStatus[r] = "COMPLETED" <=> tally[r].processed = tally[r].total

\* An exception the controller resolved (no one patches to RESOLVED here) is
\* backed by a result that resolved it and has not been rolled back.
ResolutionIsBacked ==
  \A e \in Exceptions :
    status[e] = "RESOLVED" /\ "RESOLVED" \notin PatchTargets =>
      \E r \in Runs : /\ result[<<r, e>>] = "SUCCESS"
                      /\ RequestedAction(<<r, e>>) \in Resolving

Answering(q, d) == pc[q] \in {"expire", "approve", "reject"} /\ job[q] = d

AnsweredAlone(d) == \A q, s \in Staff : Answering(q, d) /\ Answering(s, d) => q = s

\* An approval request that was rejected or has expired is executed only if two
\* answers to this very request overlapped, each past its PENDING check before the
\* other's commit: runs, retries, patches, crashes, the expiry and answers to other
\* requests do not bring it about (approval_service).
TurnedDownIsNotExecuted ==
  \A d \in Decisions :
    []AnsweredAlone(d) => [](approval[d] \in {"REJECTED", "EXPIRED"} => result[d] = None)

\* In one clock hour the count may pass the limit only by the sessions that
\* checked it at the same time (action_executor: _check_rate_limits).
HourlyOvershootBounded ==
  HourlyLimit # NoLimit =>
    Cardinality(CountedThisHour) < HourlyLimit + Cardinality(Procs)

----------------------------------------------------------------------------
(* The abstract specification.                                             *)

LedgerEntry(d) ==
  CASE result[d] = None          -> "open"
    [] result[d] = "SUCCESS"     -> "done"
    [] result[d] = "ROLLED_BACK" -> "undone"
    [] OTHER                     -> "refused"

Ledger == INSTANCE ActionLedger WITH
  Overrides <- PatchTargets \cup {"OPEN", "IN_REVIEW"},
  goal  <- [d \in Decisions |-> TargetStatus(RequestedAction(d), status[d[2]])],
  entry <- [d \in Decisions |-> LedgerEntry(d)]

\* The controller implements the ledger: no result is ever revised except to be
\* rolled back, and an exception becomes RESOLVED only in the step that records
\* a SUCCESS for a decision about it.
ImplementsLedger == Ledger!Spec

----------------------------------------------------------------------------
(* What the documentation says and the code does not do.                   *)

\* simulation/scenarios.py:101, README.md:132: a failed action is marked FAILED
\* and gives no false success.  The callers of execute_action mark the decision
\* EXECUTED whatever the result.
ExecutedMeansActed ==
  \A d \in Decisions :
    decision[d] = "EXECUTED" =>
      \/ result[d] \in {"SUCCESS", "ROLLED_BACK"}
      \/ verdict[d] = "AUTO_EXECUTE" /\ dryRun[d[1]]

\* README.md:134: the idempotency key blocks the duplicate execution of a task
\* that is retried.  The key holds the decision, and a second run decides anew.
RetriedTaskActsOnce ==
  \A e \in Exceptions : \A r1, r2 \in Runs :
    r1 # r2 => ~(effects[<<r1, e>>] > 0 /\ effects[<<r2, e>>] > 0)

\* approval_service.py:88 and :157: a pending request is approved, a pending
\* request is rejected.  Neither function locks the row between its check and
\* its commit.
AnsweredOnce ==
  [][\A d \in Decisions :
       approval[d] \notin {None, "PENDING"} => approval'[d] = approval[d]]_vars

----------------------------------------------------------------------------
(* Liveness.                                                               *)

\* A run that was started ends, unless its session dies (start_controller_run).
StartedRunEnds ==
  \A r \in Runs : pc[r] = "decide" ~> pc[r] \in {"done", "dead"}

\* When no session dies, an approved request gets its action result
\* (approve_request commits APPROVED before it executes).
ApprovedGetsResult ==
  \A d \in Decisions :
    approval[d] = "APPROVED" ~> result[d] # None
===============================================================================
