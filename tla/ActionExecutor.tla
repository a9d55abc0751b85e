---------------------------- MODULE ActionExecutor ----------------------------
(***************************************************************************)
(* execute_action (backend/app/controller/action_executor.py) as run by a  *)
(* session p for the decision job[p]: look the idempotency key up, check   *)
(* the kill switch, check the hourly limit, then lock the exception,       *)
(* change it, verify it and commit the change together with its result.    *)
(* Each check reads committed rows and holds no lock on them, so other     *)
(* sessions act between the steps.  The caller marks the decision EXECUTED *)
(* whatever the result says.                                               *)
(***************************************************************************)
EXTENDS ControllerTables

\* Where the caller continues once execute_action has returned: a run goes on
\* to its counters, a staff request is over.
Returned(p) == IF p \in Runs THEN "account" ELSE "idle"

\* The session ends with its uncommitted work undone: the process is killed, or
\* a database error leaves the function.  The row of a run stays RUNNING.
Abandon(p) ==
  /\ pc' = [pc EXCEPT ![p] = IF p \in Runs THEN "dead" ELSE "idle"]
  /\ job' = [job EXCEPT ![p] = None]
  /\ seen' = [seen EXCEPT ![p] = None]
  /\ inFlight' = inFlight \ {p}

ToMark(p) ==
  /\ pc' = [pc EXCEPT ![p] = "mark"]
  /\ seen' = [seen EXCEPT ![p] = None]
  /\ inFlight' = inFlight \ {p}
  /\ UNCHANGED job

Finish(p) ==
  /\ pc' = [pc EXCEPT ![p] = Returned(p)]
  /\ job' = [job EXCEPT ![p] = IF p \in Runs THEN @ ELSE None]

----------------------------------------------------------------------------
(* 1. Idempotency: a result under the key, of any status, is returned.     *)

\* The key is found and the caller marks the decision, which it loaded just
\* before; a decision loaded as EXECUTED is not written again.
FindKey(p) ==
  /\ pc[p] = "idem"
  /\ result[job[p]] # None
  /\ IF decision[job[p]] = "EXECUTED"
       THEN Finish(p)
       ELSE pc' = [pc EXCEPT ![p] = "mark"] /\ UNCHANGED job
  /\ seen' = [seen EXCEPT ![p] = None]
  /\ UNCHANGED <<tables, todo, world, history>>

MissKey(p) ==
  /\ pc[p] = "idem"
  /\ result[job[p]] = None
  /\ pc' = [pc EXCEPT ![p] = "kill"]
  /\ UNCHANGED <<tables, todo, job, seen, world, history>>

----------------------------------------------------------------------------
(* 2, 3. Kill switch and rate limit: a refusal commits a FAILED result.    *)
(* The unique key makes a second insert fail and its session with it.      *)

KeyIsFree_Unchecked(p) == TRUE

\* The unique constraint on action_results.idempotency_key.
KeyIsFree(p) == result[job[p]] = None

RecordRefusal(p) ==
  /\ \/ /\ KeyIsFree(p)
        /\ result' = [result EXCEPT ![job[p]] = "FAILED"]
        /\ ToMark(p)
     \/ /\ ~KeyIsFree(p)
        /\ Abandon(p)
        /\ UNCHANGED result
  /\ UNCHANGED <<status, runStatus, dryRun, tally, decision, verdict, action,
                 approval, killSwitch, todo, world, effects>>

KillSwitchActive_Ignored == FALSE

\* _check_kill_switch: one read of the committed configuration row.
KillSwitchActive == killSwitch

CheckKillSwitch(p) ==
  /\ pc[p] = "kill"
  /\ ~KillSwitchActive
  /\ pc' = [pc EXCEPT ![p] = "rate"]
  /\ UNCHANGED <<tables, todo, job, seen, world, history>>

RefuseByKillSwitch(p) ==
  /\ pc[p] = "kill"
  /\ KillSwitchActive
  /\ RecordRefusal(p)

\* The results the hourly count sees: dated in this clock hour and SUCCESS now,
\* so a rolled-back action is no longer counted.
CountedThisHour == {d \in recent : result[d] = "SUCCESS"}

UnderLimit_Unchecked == TRUE

UnderLimit == HourlyLimit # NoLimit => Cardinality(CountedThisHour) < HourlyLimit

CheckRateLimits(p) ==
  /\ pc[p] = "rate"
  /\ UnderLimit
  /\ pc' = [pc EXCEPT ![p] = "apply"]
  /\ UNCHANGED <<tables, todo, job, seen, world, history>>

RefuseByRateLimit(p) ==
  /\ pc[p] = "rate"
  /\ ~UnderLimit
  /\ RecordRefusal(p)

----------------------------------------------------------------------------
(* 5 - 11. Lock, change, verify and commit.                                *)

\* What the session believes the status to be.  SELECT ... FOR UPDATE does not
\* refresh a record the session has loaded since its last commit: a run loaded
\* it for its amount before it called the executor, a staff request did not.
View(p) == IF seen[p] = None THEN status[job[p][2]] ELSE seen[p]

\* An attribute set to the value it already has sends no UPDATE.
Writes(p) == TargetStatus(RequestedAction(job[p]), View(p)) # View(p)

\* The row as the verification re-reads it.
StatusAfter(p) ==
  IF Writes(p) THEN TargetStatus(RequestedAction(job[p]), View(p))
               ELSE status[job[p][2]]

\* A record seen RESOLVED takes the early return and is not re-read.
Verified(p) ==
  \/ RequestedAction(job[p]) \in Resolving /\ View(p) = "RESOLVED"
  \/ StatusAfter(p) = TargetStatus(RequestedAction(job[p]), View(p))

\* The change of the exception and the result commit together.
CommitAction(p) ==
  LET d == job[p] IN
  /\ pc[p] = "apply"
  /\ KeyIsFree(p)
  /\ status' = [status EXCEPT ![d[2]] = StatusAfter(p)]
  /\ result' = [result EXCEPT ![d] = IF Verified(p) THEN "SUCCESS"
                                     ELSE "FAILED_VERIFICATION"]
  /\ recent' = IF Verified(p) /\ HourlyLimit # NoLimit THEN recent \cup {d} ELSE recent
  /\ effects' = [effects EXCEPT ![d] = IF Writes(p) THEN @ + 1 ELSE @]
  /\ ToMark(p)
  /\ UNCHANGED <<runStatus, dryRun, tally, decision, verdict, action, approval,
                 killSwitch, todo, overdue, crashes, toggles>>

\* A result with the same key was committed meanwhile: the unique constraint
\* rejects this one and the transaction, the change of the exception included,
\* is rolled back.
LoseToKey(p) ==
  /\ pc[p] = "apply"
  /\ ~KeyIsFree(p)
  /\ Abandon(p)
  /\ UNCHANGED <<tables, todo, world, effects>>

----------------------------------------------------------------------------
(* Back in the caller: the decision becomes EXECUTED, whatever the result. *)
MarkExecuted(p) ==
  /\ pc[p] = "mark"
  /\ decision' = [decision EXCEPT ![job[p]] = "EXECUTED"]
  /\ Finish(p)
  /\ UNCHANGED <<status, runStatus, dryRun, tally, verdict, action, approval, result,
                 killSwitch, todo, seen, world, history>>

ExecuteAction(p) ==
  \/ FindKey(p)
  \/ MissKey(p)
  \/ CheckKillSwitch(p)
  \/ RefuseByKillSwitch(p)
  \/ CheckRateLimits(p)
  \/ RefuseByRateLimit(p)
  \/ CommitAction(p)
  \/ LoseToKey(p)
  \/ MarkExecuted(p)
===============================================================================
