--------------------------- MODULE ControllerProofs ---------------------------
(***************************************************************************)
(* Types and safety of the autonomous controller, for every number of      *)
(* runs, staff sessions and exceptions: what the tables and sessions hold, *)
(* what a decision needs before it may act, how often it acts, and what    *)
(* the kill switch stops.                                                  *)
(***************************************************************************)
EXTENDS AutonomousController, FiniteSetTheorems, TLAPS

----------------------------------------------------------------------------
(* Types.  TypeOK alone is not inductive: the executor writes to the       *)
(* exception of job[p], so a session at work has to have a decision.       *)

StaffOnly == {"expire", "approve", "reject", "rollback"}
RunOnly   == {"done", "dead", "decide", "route", "escalate", "account"}
Working   == {"route", "escalate", "account"} \cup StaffOnly \cup ExecutorLabels

SessionsOK ==
  /\ \A p \in Procs : pc[p] \in Working => job[p] \in Decisions
  /\ \A r \in Runs  : pc[r] \notin StaffOnly
  /\ \A r \in Runs  : pc[r] \in Working => job[r][1] = r
  /\ \A q \in Staff : pc[q] \notin RunOnly

TypeInv == TypeOK /\ SessionsOK

\* The tables are typed before any run starts.
LEMMA TypeInvInit == Init => TypeInv
<1>. SUFFICES ASSUME Init PROVE TypeInv
  OBVIOUS
<1>1. TypeOK
  BY ConstantsAssumption DEF Init, TypeOK, Statuses, Labels, NoTally
<1>2. SessionsOK
  BY DEF Init, SessionsOK, Working, StaffOnly, RunOnly, ExecutorLabels, Procs
<1>. QED
  BY <1>1, <1>2 DEF TypeInv

\* What each label allows the session at it to hold.
MayHold(p, label, d) ==
  /\ label \in Labels
  /\ d \in Decisions \cup {None}
  /\ label \in Working => d \in Decisions
  /\ p \in Runs => label \notin StaffOnly /\ (label \in Working => d[1] = p)
  /\ p \in Staff => label \notin RunOnly

\* What a session holds now is what it may hold at its label.
LEMMA MayHoldNow ==
  ASSUME TypeInv, NEW p \in Procs
  PROVE  MayHold(p, pc[p], job[p])
BY DEF TypeInv, TypeOK, SessionsOK, MayHold

\* A step that moves one session to a label and decision it may hold keeps them all.
LEMMA SessionMoves ==
  ASSUME TypeInv, NEW p \in Procs, NEW label, NEW d, MayHold(p, label, d),
         pc' = [pc EXCEPT ![p] = label], job' = [job EXCEPT ![p] = d]
  PROVE  /\ pc' \in [Procs -> Labels]
         /\ job' \in [Procs -> Decisions \cup {None}]
         /\ SessionsOK'
<1>1. /\ pc' \in [Procs -> Labels]
      /\ job' \in [Procs -> Decisions \cup {None}]
  BY DEF TypeInv, TypeOK, MayHold
<1>2. \A x \in Procs : MayHold(x, pc[x], job[x])
  BY MayHoldNow
<1>3. \A x \in Procs : MayHold(x, pc'[x], job'[x])
  BY <1>2 DEF TypeInv, TypeOK
<1>4. SessionsOK'
  BY <1>3 DEF SessionsOK, MayHold, Procs
<1>. QED
  BY <1>1, <1>4

\* A session that goes on with its decision moves as above.
LEMMA SessionGoesOn ==
  ASSUME TypeInv, NEW p \in Procs, NEW label, MayHold(p, label, job[p]),
         pc' = [pc EXCEPT ![p] = label], UNCHANGED job
  PROVE  /\ pc' \in [Procs -> Labels]
         /\ job' \in [Procs -> Decisions \cup {None}]
         /\ SessionsOK'
<1>1. job' = [job EXCEPT ![p] = job[p]]
  BY DEF TypeInv, TypeOK
<1>. QED
  BY <1>1, SessionMoves

\* A session that gives its call up holds nothing afterwards.
LEMMA Abandoning ==
  ASSUME TypeInv, NEW p \in Procs, Abandon(p)
  PROVE  /\ pc' \in [Procs -> Labels]
         /\ job' \in [Procs -> Decisions \cup {None}]
         /\ seen' \in [Procs -> Statuses \cup {None}]
         /\ inFlight' \subseteq Procs
         /\ SessionsOK'
<1>1. MayHold(p, IF p \in Runs THEN "dead" ELSE "idle", None)
  BY ConstantsAssumption
     DEF MayHold, Labels, Working, StaffOnly, RunOnly, ExecutorLabels, Procs
<1>2. /\ pc' \in [Procs -> Labels]
      /\ job' \in [Procs -> Decisions \cup {None}]
      /\ SessionsOK'
  BY <1>1, SessionMoves DEF Abandon
<1>3. /\ seen' \in [Procs -> Statuses \cup {None}]
      /\ inFlight' \subseteq Procs
  BY DEF TypeInv, TypeOK, Abandon
<1>. QED
  BY <1>2, <1>3

\* The labels of the executor are open to runs and to staff.
LEMMA ExecutorMayHold ==
  ASSUME TypeInv, NEW p \in Procs, pc[p] \in ExecutorLabels,
         NEW label \in ExecutorLabels
  PROVE  MayHold(p, label, job[p])
BY MayHoldNow
   DEF MayHold, Labels, Working, StaffOnly, RunOnly, ExecutorLabels

\* Back from the executor, a session goes on with the decision it called it for.
LEMMA Marking ==
  ASSUME TypeInv, NEW p \in Procs, pc[p] \in ExecutorLabels, ToMark(p)
  PROVE  /\ pc' \in [Procs -> Labels]
         /\ job' \in [Procs -> Decisions \cup {None}]
         /\ seen' \in [Procs -> Statuses \cup {None}]
         /\ inFlight' \subseteq Procs
         /\ SessionsOK'
<1>1. MayHold(p, "mark", job[p])
  BY ExecutorMayHold DEF ExecutorLabels
<1>2. /\ pc' \in [Procs -> Labels]
      /\ job' \in [Procs -> Decisions \cup {None}]
      /\ SessionsOK'
  BY <1>1, SessionGoesOn DEF ToMark
<1>3. /\ seen' \in [Procs -> Statuses \cup {None}]
      /\ inFlight' \subseteq Procs
  BY DEF TypeInv, TypeOK, ToMark
<1>. QED
  BY <1>2, <1>3

\* A call that ends leaves its session where its caller goes on.
LEMMA Finishing ==
  ASSUME TypeInv, NEW p \in Procs, pc[p] \in ExecutorLabels, Finish(p)
  PROVE  /\ pc' \in [Procs -> Labels]
         /\ job' \in [Procs -> Decisions \cup {None}]
         /\ SessionsOK'
<1>1. MayHold(p, Returned(p), IF p \in Runs THEN job[p] ELSE None)
  BY MayHoldNow, ConstantsAssumption
     DEF MayHold, Returned, Labels, Working, StaffOnly, RunOnly, ExecutorLabels, Procs
<1>2. job' = [job EXCEPT ![p] = IF p \in Runs THEN job[p] ELSE None]
  BY DEF Finish
<1>. QED
  BY <1>1, <1>2, SessionMoves DEF Finish

\* Every step of the executor keeps the types.
LEMMA ExecutorKeepsTypes ==
  ASSUME TypeInv, NEW p \in Procs, ExecuteAction(p)
  PROVE  TypeInv'
<1>1. pc[p] \in ExecutorLabels /\ job[p] \in Decisions
  BY MayHoldNow
     DEF ExecuteAction, FindKey, MissKey, CheckKillSwitch, RefuseByKillSwitch,
         CheckRateLimits, RefuseByRateLimit, CommitAction, LoseToKey, MarkExecuted,
         ExecutorLabels, MayHold, Working
<1>2. ASSUME NEW label \in ExecutorLabels,
             pc' = [pc EXCEPT ![p] = label], UNCHANGED job
      PROVE  /\ pc' \in [Procs -> Labels]
             /\ job' \in [Procs -> Decisions \cup {None}]
             /\ SessionsOK'
  BY <1>1, <1>2, ExecutorMayHold, SessionGoesOn
<1>3. CASE FindKey(p)
  <2>1. /\ pc' \in [Procs -> Labels]
        /\ job' \in [Procs -> Decisions \cup {None}]
        /\ SessionsOK'
    <3>1. CASE Finish(p)
      BY <1>1, <3>1, Finishing
    <3>2. CASE pc' = [pc EXCEPT ![p] = "mark"] /\ UNCHANGED job
      BY <1>2, <3>2 DEF ExecutorLabels
    <3>. QED
      BY <1>3, <3>1, <3>2 DEF FindKey
  <2>. QED
    BY <1>3, <2>1 DEF TypeInv, TypeOK, FindKey, tables, world, history
<1>4. CASE MissKey(p)
  BY <1>2, <1>4
     DEF TypeInv, TypeOK, MissKey, tables, world, history, ExecutorLabels
<1>5. CASE CheckKillSwitch(p)
  BY <1>2, <1>5
     DEF TypeInv, TypeOK, CheckKillSwitch, tables, world, history, ExecutorLabels
<1>6. CASE CheckRateLimits(p)
  BY <1>2, <1>6
     DEF TypeInv, TypeOK, CheckRateLimits, tables, world, history, ExecutorLabels
<1>7. CASE RecordRefusal(p)
  <2>1. /\ pc' \in [Procs -> Labels]
        /\ job' \in [Procs -> Decisions \cup {None}]
        /\ seen' \in [Procs -> Statuses \cup {None}]
        /\ inFlight' \subseteq Procs
        /\ SessionsOK'
    BY <1>1, <1>7, Abandoning, Marking DEF RecordRefusal
  <2>2. result' \in [Decisions -> ActionStatuses \cup {None}]
    BY <1>7 DEF TypeInv, TypeOK, RecordRefusal, ActionStatuses
  <2>. QED
    BY <1>7, <2>1, <2>2 DEF TypeInv, TypeOK, RecordRefusal, world
<1>8. CASE CommitAction(p)
  <2>1. /\ pc' \in [Procs -> Labels]
        /\ job' \in [Procs -> Decisions \cup {None}]
        /\ seen' \in [Procs -> Statuses \cup {None}]
        /\ inFlight' \subseteq Procs
        /\ SessionsOK'
    BY <1>1, <1>8, Marking DEF CommitAction
  <2>2. View(p) \in Statuses /\ StatusAfter(p) \in Statuses
    BY <1>1, ConstantsAssumption
       DEF TypeInv, TypeOK, View, StatusAfter, TargetStatus, Statuses, Decisions
  <2>3. status' \in [Exceptions -> Statuses]
    BY <1>8, <2>2 DEF TypeInv, TypeOK, CommitAction
  <2>4. result' \in [Decisions -> ActionStatuses \cup {None}]
    BY <1>8 DEF TypeInv, TypeOK, CommitAction, ActionStatuses
  <2>5. recent' \subseteq Decisions /\ effects' \in [Decisions -> Nat]
    BY <1>1, <1>8 DEF TypeInv, TypeOK, CommitAction
  <2>. QED
    BY <1>8, <2>1, <2>3, <2>4, <2>5 DEF TypeInv, TypeOK, CommitAction
<1>9. CASE LoseToKey(p)
  <2>1. /\ pc' \in [Procs -> Labels]
        /\ job' \in [Procs -> Decisions \cup {None}]
        /\ seen' \in [Procs -> Statuses \cup {None}]
        /\ inFlight' \subseteq Procs
        /\ SessionsOK'
    BY <1>9, Abandoning DEF LoseToKey
  <2>. QED
    BY <1>9, <2>1 DEF TypeInv, TypeOK, LoseToKey, tables, world
<1>10. CASE MarkExecuted(p)
  <2>1. /\ pc' \in [Procs -> Labels]
        /\ job' \in [Procs -> Decisions \cup {None}]
        /\ SessionsOK'
    BY <1>1, <1>10, Finishing DEF MarkExecuted
  <2>. QED
    BY <1>10, <2>1
       DEF TypeInv, TypeOK, MarkExecuted, world, history, DecisionStatuses
<1>. QED
  BY <1>3, <1>4, <1>5, <1>6, <1>7, <1>8, <1>9, <1>10
     DEF ExecuteAction, RefuseByKillSwitch, RefuseByRateLimit

\* Every step of a started run keeps the types.
LEMMA RunKeepsTypes ==
  ASSUME TypeInv, NEW r \in Runs, RunStep(r)
  PROVE  TypeInv'
<1>. USE DEF TypeInv, TypeOK
<1>1. r \in Procs /\ r \notin Staff
  BY ConstantsAssumption DEF Procs
<1>2. MayHold(r, pc[r], job[r])
  BY <1>1, MayHoldNow
<1>3. ASSUME NEW label \in RunOnly \cup {"idem"}, pc[r] \in Working,
             pc' = [pc EXCEPT ![r] = label], UNCHANGED job
      PROVE  /\ pc' \in [Procs -> Labels]
             /\ job' \in [Procs -> Decisions \cup {None}]
             /\ SessionsOK'
  <2>1. MayHold(r, label, job[r])
    BY <1>1, <1>2, <1>3
       DEF MayHold, RunOnly, StaffOnly, Working, Labels, ExecutorLabels
  <2>. QED
    BY <1>1, <1>3, <2>1, SessionGoesOn
<1>4. CASE Decide(r)
  <2>1. PICK e \in todo[r], prop \in Proposals :
          /\ decision' = [decision EXCEPT ![<<r, e>>] = "PENDING"]
          /\ verdict' = [verdict EXCEPT ![<<r, e>>] = prop[1]]
          /\ action' = [action EXCEPT ![<<r, e>>] = prop[2]]
          /\ job' = [job EXCEPT ![r] = <<r, e>>]
          /\ todo' = [todo EXCEPT ![r] = @ \ {e}]
    BY <1>4 DEF Decide
  <2>2. <<r, e>> \in Decisions
    BY <2>1 DEF Decisions
  <2>3. MayHold(r, "route", <<r, e>>)
    BY <1>1, <2>2 DEF MayHold, Labels, Working, StaffOnly, RunOnly
  <2>4. /\ pc' \in [Procs -> Labels]
        /\ job' \in [Procs -> Decisions \cup {None}]
        /\ SessionsOK'
    BY <1>1, <1>4, <2>1, <2>3, SessionMoves DEF Decide
  <2>5. prop[1] \in Verdicts /\ prop[2] \in Actions \cup {None}
    BY <2>1, ConstantsAssumption
  <2>6. /\ verdict' \in [Decisions -> Verdicts \cup {None}]
        /\ action' \in [Decisions -> Actions \cup {None}]
    BY <2>1, <2>5
  <2>7. /\ decision' \in [Decisions -> DecisionStatuses \cup {None}]
        /\ todo' \in [Runs -> SUBSET Exceptions]
    BY <2>1 DEF DecisionStatuses
  <2>. QED
    BY <1>4, <2>4, <2>6, <2>7 DEF Decide, world, history
<1>5. CASE DecideFails(r)
  <2>1. tally' \in [Runs -> [Counters -> Nat]]
    BY <1>5 DEF DecideFails, Counters
  <2>2. todo' \in [Runs -> SUBSET Exceptions]
    BY <1>5 DEF DecideFails
  <2>3. SessionsOK'
    BY <1>5 DEF DecideFails, SessionsOK
  <2>. QED
    BY <1>5, <2>1, <2>2, <2>3 DEF DecideFails, world, history
<1>6. CASE RouteDryRun(r)
  BY <1>3, <1>6
     DEF RouteDryRun, DryRunStatus, DecisionStatuses, world, history, RunOnly, Working
<1>7. CASE RouteToExecutor(r)
  <2>1. seen' \in [Procs -> Statuses \cup {None}]
    BY <1>1, <1>2, <1>7 DEF RouteToExecutor, MayHold, Working, Decisions
  <2>. QED
    BY <1>3, <1>7, <2>1 DEF RouteToExecutor, tables, world, history, Working
<1>8. CASE RouteToApproval(r)
  BY <1>3, <1>8
     DEF RouteToApproval, ApprovalStatuses, DecisionStatuses, world, history, RunOnly,
         Working
<1>9. CASE RouteToEscalation(r)
  <2>1. seen' \in [Procs -> Statuses \cup {None}]
    BY <1>1, <1>2, <1>9 DEF RouteToEscalation, MayHold, Working, Decisions
  <2>. QED
    BY <1>3, <1>9, <2>1
       DEF RouteToEscalation, tables, world, history, RunOnly, Working
<1>10. CASE Escalate(r)
  <2>1. status' \in [Exceptions -> Statuses]
    BY <1>1, <1>2, <1>10 DEF Escalate, Statuses, MayHold, Working, Decisions
  <2>. QED
    BY <1>3, <1>10, <2>1
       DEF Escalate, DecisionStatuses, world, history, RunOnly, Working
<1>11. CASE RouteToBlock(r)
  BY <1>3, <1>11
     DEF RouteToBlock, DecisionStatuses, world, history, RunOnly, Working
<1>12. CASE Account(r)
  <2>1. tally' \in [Runs -> [Counters -> Nat]]
    BY <1>12 DEF Account, Counters, CounterOf
  <2>2. MayHold(r, "decide", None)
    BY <1>1, ConstantsAssumption
       DEF MayHold, Labels, Working, StaffOnly, RunOnly, ExecutorLabels
  <2>3. /\ pc' \in [Procs -> Labels]
        /\ job' \in [Procs -> Decisions \cup {None}]
        /\ SessionsOK'
    BY <1>1, <1>12, <2>2, SessionMoves DEF Account
  <2>. QED
    BY <1>12, <2>1, <2>3 DEF Account, world, history
<1>13. CASE FinalizeRun(r)
  <2>1. MayHold(r, "done", job[r])
    BY <1>1, <1>2 DEF MayHold, Labels, Working, StaffOnly, RunOnly, ExecutorLabels
  <2>2. /\ pc' \in [Procs -> Labels]
        /\ job' \in [Procs -> Decisions \cup {None}]
        /\ SessionsOK'
    BY <1>1, <1>13, <2>1, SessionGoesOn DEF FinalizeRun
  <2>3. runStatus' \in [Runs -> RunStatuses \cup {None}]
    BY <1>13 DEF FinalizeRun, FinalStatus, RunStatuses
  <2>. QED
    BY <1>13, <2>2, <2>3 DEF FinalizeRun, world, history
<1>. QED
  BY <1>4, <1>5, <1>6, <1>7, <1>8, <1>9, <1>10, <1>11, <1>12, <1>13 DEF RunStep

\* Starting a run keeps the types.
LEMMA StartKeepsTypes ==
  ASSUME TypeInv, NEW r \in Runs, StartRun(r)
  PROVE  TypeInv'
<1>. USE DEF TypeInv, TypeOK
<1>1. r \in Procs /\ r \notin Staff
  BY ConstantsAssumption DEF Procs
<1>2. Cardinality(Eligible) \in Nat
  BY ConstantsAssumption, FS_Subset, FS_CardinalityType DEF Eligible
<1>3. tally' \in [Runs -> [Counters -> Nat]]
  BY <1>2 DEF StartRun, Counters
<1>4. MayHold(r, "decide", job[r])
  BY <1>1, MayHoldNow
     DEF MayHold, Labels, Working, StaffOnly, RunOnly, ExecutorLabels
<1>5. /\ pc' \in [Procs -> Labels]
      /\ job' \in [Procs -> Decisions \cup {None}]
      /\ SessionsOK'
  BY <1>1, <1>4, SessionGoesOn DEF StartRun
<1>6. dryRun' \in [Runs -> BOOLEAN]
  BY DEF StartRun
<1>7. /\ runStatus' \in [Runs -> RunStatuses \cup {None}]
      /\ todo' \in [Runs -> SUBSET Exceptions]
  BY DEF StartRun, RunStatuses, Eligible
<1>. QED
  BY <1>3, <1>5, <1>6, <1>7 DEF StartRun, world, history

\* Every step of a staff request keeps the types.
LEMMA RequestsKeepTypes ==
  ASSUME TypeInv, NEW q \in Staff,
         RequestStep(q) \/ \E d \in Decisions : BeginRequest(q, d)
  PROVE  TypeInv'
<1>. USE DEF TypeInv, TypeOK
<1>1. q \in Procs /\ q \notin Runs
  BY ConstantsAssumption DEF Procs
<1>2. MayHold(q, pc[q], job[q])
  BY <1>1, MayHoldNow
<1>3. ASSUME pc' = [pc EXCEPT ![q] = "idle"], job' = [job EXCEPT ![q] = None]
      PROVE  /\ pc' \in [Procs -> Labels]
             /\ job' \in [Procs -> Decisions \cup {None}]
             /\ SessionsOK'
  <2>1. MayHold(q, "idle", None)
    BY <1>1 DEF MayHold, Labels, Working, StaffOnly, RunOnly, ExecutorLabels
  <2>. QED
    BY <1>1, <1>3, <2>1, SessionMoves
<1>4. ASSUME NEW d \in Decisions, NEW label \in StaffOnly, Begin(q, d, label)
      PROVE  TypeInv'
  <2>1. MayHold(q, label, d)
    BY <1>1, <1>4 DEF MayHold, Labels, StaffOnly, RunOnly
  <2>2. /\ pc' \in [Procs -> Labels]
        /\ job' \in [Procs -> Decisions \cup {None}]
        /\ SessionsOK'
    BY <1>1, <1>4, <2>1, SessionMoves DEF Begin
  <2>. QED
    BY <1>4, <2>2 DEF Begin, tables, world, history
<1>5. CASE \E d \in Decisions : BeginRequest(q, d)
  BY <1>4, <1>5
     DEF BeginRequest, BeginApprove, BeginExpire, BeginReject, BeginRollback, StaffOnly
<1>6. CASE CommitExpiry(q)
  BY <1>3, <1>6 DEF CommitExpiry, ApprovalStatuses, world, history
<1>7. CASE CommitApproval(q)
  <2>1. MayHold(q, "idem", job[q])
    BY <1>1, <1>2, <1>7
       DEF CommitApproval, MayHold, Labels, Working, StaffOnly, RunOnly, ExecutorLabels
  <2>2. /\ pc' \in [Procs -> Labels]
        /\ job' \in [Procs -> Decisions \cup {None}]
        /\ SessionsOK'
    BY <1>1, <1>7, <2>1, SessionGoesOn DEF CommitApproval, AfterApproval
  <2>. QED
    BY <1>7, <2>2 DEF CommitApproval, ApprovalStatuses, world, history
<1>8. CASE CommitRejection(q)
  BY <1>3, <1>8
     DEF CommitRejection, ApprovalStatuses, DecisionStatuses, world, history
<1>9. CASE CommitRollback(q)
  <2>1. status' \in [Exceptions -> Statuses]
    BY <1>9 DEF CommitRollback, RollbackTarget, Statuses
  <2>. QED
    BY <1>3, <1>9, <2>1 DEF CommitRollback, ActionStatuses, world, history
<1>. QED
  BY <1>5, <1>6, <1>7, <1>8, <1>9 DEF RequestStep

\* The switch, patches, time and crashes keep the types.
LEMMA EnvironmentKeepsTypes ==
  ASSUME TypeInv, Environment
  PROVE  TypeInv'
<1>. USE DEF TypeInv, TypeOK
<1>1. CASE TurnOnKillSwitch
  BY <1>1 DEF TurnOnKillSwitch, sessions, SessionsOK
<1>2. CASE TurnOffKillSwitch
  BY <1>2 DEF TurnOffKillSwitch, sessions, world, history, SessionsOK
<1>3. CASE \E e \in Exceptions : PatchException(e)
  BY <1>3, ConstantsAssumption DEF PatchException, sessions, world, history, SessionsOK
<1>4. CASE \E d \in Decisions : PassDeadline(d)
  BY <1>4 DEF PassDeadline, tables, sessions, history, SessionsOK
<1>5. CASE PassHour
  BY <1>5 DEF PassHour, tables, sessions, history, SessionsOK
<1>6. ASSUME NEW p \in Procs, Crash(p)
      PROVE  TypeInv'
  <2>1. /\ pc' \in [Procs -> Labels]
        /\ job' \in [Procs -> Decisions \cup {None}]
        /\ seen' \in [Procs -> Statuses \cup {None}]
        /\ inFlight' \subseteq Procs
        /\ SessionsOK'
    BY <1>6, Abandoning DEF Crash
  <2>. QED
    BY <1>6, <2>1 DEF Crash, tables
<1>. QED
  BY <1>1, <1>2, <1>3, <1>4, <1>5, <1>6 DEF Environment

\* Every step keeps the types.
LEMMA TypeInvNext == TypeInv /\ [Next]_vars => TypeInv'
<1>. SUFFICES ASSUME TypeInv, [Next]_vars PROVE TypeInv'
  OBVIOUS
<1>1. CASE UNCHANGED vars
  BY <1>1 DEF TypeInv, TypeOK, SessionsOK, vars, tables, sessions, world, history
<1>. QED
  BY <1>1, ExecutorKeepsTypes, RunKeepsTypes, StartKeepsTypes, RequestsKeepTypes,
     EnvironmentKeepsTypes DEF Next

\* The strengthened type invariant holds in every reachable state.
LEMMA AlwaysTypeInv == Spec => []TypeInv
BY TypeInvInit, TypeInvNext, PTL DEF Spec

\* Every row and every session of the controller holds values of its types, for
\* any number of runs, staff sessions and exceptions (models/controller.py).
THEOREM TypeCorrect == Spec => []TypeOK
<1>1. TypeInv => TypeOK
  BY DEF TypeInv
<1>. QED
  BY <1>1, AlwaysTypeInv, PTL

----------------------------------------------------------------------------
(* Safety: the inductive invariant.                                        *)

\* What entitles a decision to be executed.
Mandated(d) ==
  \/ verdict[d] = "AUTO_EXECUTE" /\ ~dryRun[d[1]]
  \/ verdict[d] = "RECOMMEND" /\ approval[d] \notin {None, "PENDING"}

\* The rows of one decision: no row without the ones it follows from.
RowsFollow ==
  \A d \in Decisions :
    /\ result[d] # None => Mandated(d)
    /\ approval[d] # None => verdict[d] = "RECOMMEND"
    /\ verdict[d] # None => pc[d[1]] # "idle" /\ d[2] \notin todo[d[1]]

\* What a session relies on: the check it made before still stands.
ChecksStand ==
  \A p \in Procs :
    /\ pc[p] \in ExecutorLabels => Mandated(job[p])
    /\ pc[p] \in {"expire", "approve", "reject"} => approval[job[p]] # None
    /\ pc[p] = "rollback" => result[job[p]] \in {"SUCCESS", "ROLLED_BACK"}
    /\ pc[p] = "route" => approval[job[p]] = None

EffectsHaveResults ==
  \A d \in Decisions :
    \/ effects[d] = 0
    \/ effects[d] = 1 /\ result[d] \in {"SUCCESS", "ROLLED_BACK"}

SafeInv ==
  /\ TypeInv
  /\ RowsFollow
  /\ ChecksStand
  /\ EffectsHaveResults

\* Empty tables and idle sessions satisfy the invariant.
LEMMA SafeInvInit == Init => SafeInv
BY TypeInvInit, ConstantsAssumption
   DEF Init, SafeInv, RowsFollow, ChecksStand, EffectsHaveResults, Procs, ExecutorLabels

\* Every step of the executor keeps the invariant.
LEMMA ExecutorIsSafe ==
  ASSUME SafeInv, NEW p \in Procs, ExecuteAction(p)
  PROVE  RowsFollow' /\ ChecksStand' /\ EffectsHaveResults'
<1>. USE DEF SafeInv, TypeInv, TypeOK
<1>1. /\ pc[p] \in ExecutorLabels
      /\ job[p] \in Decisions
      /\ Mandated(job[p])
  BY MayHoldNow
     DEF ExecuteAction, FindKey, MissKey, CheckKillSwitch, RefuseByKillSwitch,
         CheckRateLimits, RefuseByRateLimit, CommitAction, LoseToKey, MarkExecuted,
         ExecutorLabels, MayHold, Working, ChecksStand
<1>2. UNCHANGED <<verdict, dryRun, approval, todo>>
  BY DEF ExecuteAction, FindKey, MissKey, CheckKillSwitch, RefuseByKillSwitch,
         CheckRateLimits, RefuseByRateLimit, RecordRefusal, CommitAction, LoseToKey,
         MarkExecuted, tables
\* The session moves within the executor or out of it, the others stay.
<1>3. /\ \A x \in Procs \ {p} : pc'[x] = pc[x] /\ job'[x] = job[x]
      /\ \/ pc'[p] \in ExecutorLabels /\ job'[p] = job[p]
         \/ pc'[p] \in {"account", "dead"}
         \/ pc'[p] = "idle" /\ p \notin Runs
  BY DEF ExecuteAction, FindKey, MissKey, CheckKillSwitch, RefuseByKillSwitch,
         CheckRateLimits, RefuseByRateLimit, RecordRefusal, CommitAction, LoseToKey,
         MarkExecuted, Finish, Returned, Abandon, ToMark, ExecutorLabels
\* The only result that changes is one there was not.
<1>4. \/ UNCHANGED <<result, effects>>
      \/ /\ result[job[p]] = None
         /\ \E s \in ActionStatuses : result' = [result EXCEPT ![job[p]] = s]
         /\ \/ UNCHANGED effects
            \/ /\ result'[job[p]] = "SUCCESS"
               /\ effects' = [effects EXCEPT ![job[p]] = @ + 1]
  <2>1. CASE RecordRefusal(p)
    BY <2>1 DEF RecordRefusal, KeyIsFree, ActionStatuses
  <2>2. CASE CommitAction(p)
    <3>1. Writes(p) => Verified(p)
      BY DEF Verified, StatusAfter
    <3>2. CASE Verified(p)
      <4>1. result' = [result EXCEPT ![job[p]] = "SUCCESS"]
        BY <2>2, <3>2 DEF CommitAction
      <4>2. UNCHANGED effects \/ effects' = [effects EXCEPT ![job[p]] = @ + 1]
        BY <1>1, <2>2 DEF CommitAction
      <4>. QED
        BY <1>1, <2>2, <4>1, <4>2 DEF CommitAction, KeyIsFree, ActionStatuses
    <3>3. CASE ~Verified(p)
      <4>1. result' = [result EXCEPT ![job[p]] = "FAILED_VERIFICATION"]
        BY <2>2, <3>3 DEF CommitAction
      <4>2. UNCHANGED effects
        BY <1>1, <2>2, <3>1, <3>3 DEF CommitAction
      <4>. QED
        BY <2>2, <4>1, <4>2 DEF CommitAction, KeyIsFree, ActionStatuses
    <3>. QED
      BY <3>2, <3>3
  <2>. QED
    BY <2>1, <2>2
       DEF ExecuteAction, FindKey, MissKey, CheckKillSwitch, RefuseByKillSwitch,
           CheckRateLimits, RefuseByRateLimit, LoseToKey, MarkExecuted, tables, history
<1>5. RowsFollow'
  <2>1. ASSUME NEW d \in Decisions, result'[d] # None
        PROVE  Mandated(d)'
    <3>1. d = job[p] \/ result[d] # None
      BY <1>1, <1>4, <2>1
    <3>2. Mandated(d)
      BY <1>1, <3>1 DEF RowsFollow
    <3>. QED
      BY <1>2, <3>2 DEF Mandated
  <2>2. \A r \in Runs : pc'[r] = "idle" => pc[r] = "idle"
    BY <1>3 DEF Procs, ExecutorLabels
  <2>3. \A d \in Decisions : d[1] \in Runs
    BY DEF Decisions
  <2>. QED
    BY <1>2, <2>1, <2>2, <2>3 DEF RowsFollow
<1>6. ChecksStand'
  <2>1. \A d \in Decisions : result[d] # None => result'[d] = result[d]
    BY <1>4
  <2>2. ASSUME NEW x \in Procs \ {p}
        PROVE  /\ pc'[x] \in ExecutorLabels => Mandated(job[x])'
               /\ pc'[x] \in {"expire", "approve", "reject"} => approval'[job'[x]] # None
               /\ pc'[x] = "rollback" => result'[job'[x]] \in {"SUCCESS", "ROLLED_BACK"}
               /\ pc'[x] = "route" => approval'[job'[x]] = None
    <3>1. pc[x] \in Working => job[x] \in Decisions
      BY MayHoldNow DEF MayHold
    <3>. QED
      BY <1>2, <1>3, <2>1, <3>1, ConstantsAssumption
         DEF ChecksStand, Mandated, Working, ExecutorLabels, StaffOnly, ActionStatuses
  <2>3. /\ pc'[p] \in ExecutorLabels => Mandated(job[p])'
        /\ pc'[p] \notin {"expire", "approve", "reject", "rollback", "route"}
    BY <1>1, <1>2, <1>3 DEF Mandated, ExecutorLabels
  <2>. QED
    BY <2>2, <2>3 DEF ChecksStand
<1>7. EffectsHaveResults'
  <2>1. ASSUME NEW d \in Decisions
        PROVE  \/ effects'[d] = 0
               \/ effects'[d] = 1 /\ result'[d] \in {"SUCCESS", "ROLLED_BACK"}
    <3>1. CASE d = job[p]
      BY <1>1, <1>4, <3>1, ConstantsAssumption DEF EffectsHaveResults, ActionStatuses
    <3>2. CASE d # job[p]
      BY <1>1, <1>4, <3>2 DEF EffectsHaveResults
    <3>. QED
      BY <3>1, <3>2
  <2>. QED
    BY <2>1 DEF EffectsHaveResults
<1>. QED
  BY <1>5, <1>6, <1>7

\* A run in the middle of a decision has it in hand.
LEMMA RunHolds ==
  ASSUME SafeInv, NEW r \in Runs, pc[r] \in Working
  PROVE  job[r] \in Decisions /\ job[r][1] = r
BY MayHoldNow DEF SafeInv, MayHold, Procs

\* Any session in the middle of a decision has it in hand.
LEMMA OthersHold ==
  ASSUME SafeInv, NEW x \in Procs, pc[x] \in Working
  PROVE  job[x] \in Decisions
BY MayHoldNow DEF SafeInv, MayHold

\* Every step of a started run keeps the invariant.
LEMMA RunIsSafe ==
  ASSUME SafeInv, NEW r \in Runs, RunStep(r)
  PROVE  RowsFollow' /\ ChecksStand' /\ EffectsHaveResults'
<1>1. TypeOK /\ RowsFollow /\ ChecksStand /\ EffectsHaveResults
  BY DEF SafeInv, TypeInv
<1>2. r \in Procs
  BY DEF Procs
\* No step of a run touches a result; the effects are as before.
<1>3. UNCHANGED <<result, effects, dryRun>>
  BY DEF RunStep, Decide, DecideFails, RouteDryRun, RouteToExecutor, RouteToApproval,
         RouteToEscalation, Escalate, RouteToBlock, Account, FinalizeRun, tables, history
<1>4. EffectsHaveResults'
  BY <1>1, <1>3 DEF EffectsHaveResults
<1>. SUFFICES RowsFollow' /\ ChecksStand'
  BY <1>4
\* The steps that neither record nor start anything.
<1>5. ASSUME UNCHANGED <<verdict, approval>>,
             \A x \in Runs : todo'[x] \subseteq todo[x],
             \A x \in Procs \ {r} : pc'[x] = pc[x] /\ job'[x] = job[x],
             pc'[r] \in {"decide", "account", "escalate", "done"}
      PROVE  RowsFollow' /\ ChecksStand'
  <2>1. ASSUME NEW d \in Decisions
        PROVE  /\ result'[d] # None => Mandated(d)'
               /\ approval'[d] # None => verdict'[d] = "RECOMMEND"
               /\ verdict'[d] # None => pc'[d[1]] # "idle" /\ d[2] \notin todo'[d[1]]
    <3>1. d[1] \in Runs /\ d[1] \in Procs
      BY DEF Decisions, Procs
    <3>2. todo'[d[1]] \subseteq todo[d[1]] /\ (pc'[d[1]] = "idle" => pc[d[1]] = "idle")
      BY <1>5, <3>1
    <3>. QED
      BY <1>1, <1>3, <1>5, <3>2 DEF RowsFollow, Mandated
  <2>2. RowsFollow'
    BY <2>1 DEF RowsFollow
  <2>3. ChecksStand'
    BY <1>1, <1>3, <1>5 DEF ChecksStand, Mandated, ExecutorLabels
  <2>. QED
    BY <2>2, <2>3
<1>6. CASE Decide(r)
  <2>1. PICK e \in todo[r], prop \in Proposals :
          /\ verdict' = [verdict EXCEPT ![<<r, e>>] = prop[1]]
          /\ job' = [job EXCEPT ![r] = <<r, e>>]
          /\ todo' = [todo EXCEPT ![r] = @ \ {e}]
    BY <1>6 DEF Decide
  <2>2. /\ UNCHANGED approval
        /\ pc' = [pc EXCEPT ![r] = "route"]
    BY <1>6 DEF Decide
  <2>3. <<r, e>> \in Decisions
    BY <1>1, <2>1 DEF TypeOK, Decisions
  \* The exception was still to do, so the decision had no rows.
  <2>4. /\ verdict[<<r, e>>] = None
        /\ result[<<r, e>>] = None
        /\ approval[<<r, e>>] = None
    <3>1. verdict[<<r, e>>] = None
      BY <1>1, <2>1, <2>3 DEF RowsFollow
    <3>. QED
      BY <1>1, <2>3, <3>1, ConstantsAssumption DEF RowsFollow, Mandated, Verdicts
  <2>5. RowsFollow'
    <3>1. ASSUME NEW d \in Decisions
          PROVE  /\ result'[d] # None => Mandated(d)'
                 /\ approval'[d] # None => verdict'[d] = "RECOMMEND"
                 /\ verdict'[d] # None => pc'[d[1]] # "idle" /\ d[2] \notin todo'[d[1]]
      <4>1. d[1] \in Runs /\ d = <<d[1], d[2]>>
        BY DEF Decisions
      <4>2. CASE d = <<r, e>>
        BY <1>1, <1>2, <1>3, <2>1, <2>2, <2>4, <4>2 DEF TypeOK
      <4>3. CASE d # <<r, e>>
        <5>1. verdict'[d] = verdict[d] /\ result'[d] = result[d] /\ approval'[d] = approval[d]
          BY <1>1, <1>3, <2>1, <2>2, <4>3 DEF TypeOK
        <5>2. todo'[d[1]] \subseteq todo[d[1]] /\ (pc'[d[1]] = "idle" => pc[d[1]] = "idle")
          BY <1>1, <1>2, <2>1, <2>2, <4>1 DEF TypeOK, Procs
        <5>. QED
          BY <1>1, <1>3, <5>1, <5>2 DEF RowsFollow, Mandated
      <4>. QED
        BY <4>2, <4>3
    <3>. QED
      BY <3>1 DEF RowsFollow
  <2>6. ChecksStand'
    <3>1. ASSUME NEW x \in Procs
          PROVE  /\ pc'[x] \in ExecutorLabels => Mandated(job[x])'
                 /\ pc'[x] \in {"expire", "approve", "reject"} => approval'[job'[x]] # None
                 /\ pc'[x] = "rollback" => result'[job'[x]] \in {"SUCCESS", "ROLLED_BACK"}
                 /\ pc'[x] = "route" => approval'[job'[x]] = None
      <4>1. CASE x = r
        BY <1>1, <1>2, <2>1, <2>2, <2>4, <4>1 DEF TypeOK, ExecutorLabels
      <4>2. CASE x # r
        <5>1. pc'[x] = pc[x] /\ job'[x] = job[x]
          BY <1>1, <2>1, <2>2, <4>2 DEF TypeOK
        <5>2. ASSUME pc[x] \in ExecutorLabels
              PROVE  Mandated(job[x])'
          <6>1. job[x] \in Decisions /\ Mandated(job[x])
            BY <1>1, <5>2, OthersHold DEF ChecksStand, Working
          <6>2. job[x] # <<r, e>>
            BY <2>4, <6>1, ConstantsAssumption DEF Mandated, Verdicts
          <6>3. verdict'[job[x]] = verdict[job[x]]
            BY <1>1, <2>1, <6>1, <6>2 DEF TypeOK
          <6>. QED
            BY <1>3, <2>2, <5>1, <6>1, <6>3 DEF Mandated
        <5>. QED
          BY <1>1, <1>3, <2>2, <5>1, <5>2 DEF ChecksStand
      <4>. QED
        BY <4>1, <4>2
    <3>. QED
      BY <3>1 DEF ChecksStand, Mandated
  <2>. QED
    BY <2>5, <2>6
<1>7. CASE DecideFails(r)
  <2>1. \A x \in Runs : todo'[x] \subseteq todo[x]
    BY <1>1, <1>7 DEF DecideFails, TypeOK
  <2>2. /\ UNCHANGED <<verdict, approval>>
        /\ \A x \in Procs \ {r} : pc'[x] = pc[x] /\ job'[x] = job[x]
        /\ pc'[r] \in {"decide", "account", "escalate", "done"}
    BY <1>1, <1>2, <1>7 DEF DecideFails, TypeOK
  <2>. QED
    BY <1>5, <2>1, <2>2
<1>8. CASE RouteDryRun(r)
  <2>1. \A x \in Runs : todo'[x] \subseteq todo[x]
    BY <1>1, <1>8 DEF RouteDryRun, TypeOK
  <2>2. /\ UNCHANGED <<verdict, approval>>
        /\ \A x \in Procs \ {r} : pc'[x] = pc[x] /\ job'[x] = job[x]
        /\ pc'[r] \in {"decide", "account", "escalate", "done"}
    BY <1>1, <1>2, <1>8 DEF RouteDryRun, TypeOK
  <2>. QED
    BY <1>5, <2>1, <2>2
<1>9. CASE RouteToExecutor(r)
  <2>1. job[r] \in Decisions /\ job[r][1] = r
    BY <1>9, RunHolds DEF RouteToExecutor, Working
  <2>2. Mandated(job[r])
    BY <1>9, <2>1 DEF RouteToExecutor, ExecutesForReal, Mandated
  <2>3. /\ UNCHANGED <<verdict, approval, todo, job>>
        /\ pc' = [pc EXCEPT ![r] = "idem"]
    BY <1>9 DEF RouteToExecutor, tables
  <2>4. RowsFollow'
    BY <1>1, <1>2, <1>3, <2>3 DEF RowsFollow, Mandated, TypeOK
  <2>5. ChecksStand'
    BY <1>1, <1>2, <1>3, <2>2, <2>3 DEF ChecksStand, Mandated, TypeOK
  <2>. QED
    BY <2>4, <2>5
<1>10. CASE RouteToApproval(r)
  <2>1. job[r] \in Decisions /\ verdict[job[r]] = "RECOMMEND" /\ approval[job[r]] = None
    BY <1>1, <1>2, <1>10, RunHolds DEF RouteToApproval, Working, ChecksStand
  <2>2. /\ UNCHANGED <<verdict, todo, job>>
        /\ approval' = [approval EXCEPT ![job[r]] = "PENDING"]
        /\ pc' = [pc EXCEPT ![r] = "account"]
    BY <1>10 DEF RouteToApproval
  \* Nothing of this decision was mandated before.
  <2>3. ~Mandated(job[r])
    BY <2>1 DEF Mandated
  <2>4. \A d \in Decisions : d # job[r] => approval'[d] = approval[d]
    BY <1>1, <2>2 DEF TypeOK
  <2>5. approval'[job[r]] = "PENDING"
    BY <1>1, <2>1, <2>2 DEF TypeOK
  <2>6. \A d \in Decisions : Mandated(d) => d # job[r] /\ Mandated(d)'
    BY <1>3, <2>2, <2>3, <2>4 DEF Mandated
  <2>7. /\ \A x \in Procs \ {r} : pc'[x] = pc[x] /\ job'[x] = job[x]
        /\ pc'[r] = "account"
    BY <1>1, <1>2, <2>2 DEF TypeOK
  <2>8. RowsFollow'
    BY <1>1, <1>2, <1>3, <2>1, <2>2, <2>4, <2>6, <2>7
       DEF RowsFollow, Decisions, Procs
  <2>9. ChecksStand'
    <3>1. ASSUME NEW x \in Procs
          PROVE  /\ pc'[x] \in ExecutorLabels => Mandated(job[x])'
                 /\ pc'[x] \in {"expire", "approve", "reject"} => approval'[job'[x]] # None
                 /\ pc'[x] = "rollback" => result'[job'[x]] \in {"SUCCESS", "ROLLED_BACK"}
                 /\ pc'[x] = "route" => approval'[job'[x]] = None
      <4>1. CASE x = r
        BY <2>7, <4>1 DEF ExecutorLabels
      <4>2. CASE x # r
        <5>1. pc[x] \in Working => job[x] \in Decisions
          BY OthersHold
        <5>2. pc[x] \in ExecutorLabels => Mandated(job[x])'
          BY <1>1, <2>2, <2>6, <5>1 DEF ChecksStand, Mandated, Working
        <5>3. pc[x] = "route" => approval'[job[x]] = None
          <6>1. ASSUME pc[x] = "route"
                PROVE  x \in Runs /\ job[x] # job[r] /\ job[x] \in Decisions
            <7>1. x \in Runs
              BY <6>1 DEF SafeInv, TypeInv, SessionsOK, RunOnly, Procs
            <7>2. job[x] \in Decisions /\ job[x][1] = x /\ job[r][1] = r
              BY <1>10, <6>1, <7>1, RunHolds DEF RouteToApproval, Working
            <7>. QED
              BY <4>2, <7>1, <7>2
          <6>. QED
            BY <1>1, <2>4, <6>1 DEF ChecksStand
        <5>4. pc[x] \in {"expire", "approve", "reject"} => approval'[job[x]] # None
          BY <1>1, <2>4, <2>5, <5>1, ConstantsAssumption
             DEF ChecksStand, Working, StaffOnly, ApprovalStatuses
        <5>. QED
          BY <1>1, <1>3, <2>7, <4>2, <5>2, <5>3, <5>4 DEF ChecksStand
      <4>. QED
        BY <4>1, <4>2
    <3>. QED
      BY <3>1 DEF ChecksStand, Mandated
  <2>. QED
    BY <2>8, <2>9
<1>11. CASE RouteToEscalation(r)
  <2>1. \A x \in Runs : todo'[x] \subseteq todo[x]
    BY <1>1, <1>11 DEF RouteToEscalation, TypeOK
  <2>2. /\ UNCHANGED <<verdict, approval>>
        /\ \A x \in Procs \ {r} : pc'[x] = pc[x] /\ job'[x] = job[x]
        /\ pc'[r] \in {"decide", "account", "escalate", "done"}
    BY <1>1, <1>2, <1>11 DEF RouteToEscalation, TypeOK, tables
  <2>. QED
    BY <1>5, <2>1, <2>2
<1>12. CASE Escalate(r)
  <2>1. \A x \in Runs : todo'[x] \subseteq todo[x]
    BY <1>1, <1>12 DEF Escalate, TypeOK
  <2>2. /\ UNCHANGED <<verdict, approval>>
        /\ \A x \in Procs \ {r} : pc'[x] = pc[x] /\ job'[x] = job[x]
        /\ pc'[r] \in {"decide", "account", "escalate", "done"}
    BY <1>1, <1>2, <1>12 DEF Escalate, TypeOK
  <2>. QED
    BY <1>5, <2>1, <2>2
<1>13. CASE RouteToBlock(r)
  <2>1. \A x \in Runs : todo'[x] \subseteq todo[x]
    BY <1>1, <1>13 DEF RouteToBlock, TypeOK
  <2>2. /\ UNCHANGED <<verdict, approval>>
        /\ \A x \in Procs \ {r} : pc'[x] = pc[x] /\ job'[x] = job[x]
        /\ pc'[r] \in {"decide", "account", "escalate", "done"}
    BY <1>1, <1>2, <1>13 DEF RouteToBlock, TypeOK
  <2>. QED
    BY <1>5, <2>1, <2>2
<1>14. CASE Account(r)
  <2>1. \A x \in Runs : todo'[x] \subseteq todo[x]
    BY <1>1, <1>14 DEF Account, TypeOK
  <2>2. /\ UNCHANGED <<verdict, approval>>
        /\ \A x \in Procs \ {r} : pc'[x] = pc[x] /\ job'[x] = job[x]
        /\ pc'[r] \in {"decide", "account", "escalate", "done"}
    BY <1>1, <1>2, <1>14 DEF Account, TypeOK
  <2>. QED
    BY <1>5, <2>1, <2>2
<1>15. CASE FinalizeRun(r)
  <2>1. \A x \in Runs : todo'[x] \subseteq todo[x]
    BY <1>1, <1>15 DEF FinalizeRun, TypeOK
  <2>2. /\ UNCHANGED <<verdict, approval>>
        /\ \A x \in Procs \ {r} : pc'[x] = pc[x] /\ job'[x] = job[x]
        /\ pc'[r] \in {"decide", "account", "escalate", "done"}
    BY <1>1, <1>2, <1>15 DEF FinalizeRun, TypeOK
  <2>. QED
    BY <1>5, <2>1, <2>2
<1>. QED
  BY <1>6, <1>7, <1>8, <1>9, <1>10, <1>11, <1>12, <1>13, <1>14, <1>15 DEF RunStep

\* Starting a run keeps the invariant.
LEMMA StartIsSafe ==
  ASSUME SafeInv, NEW r \in Runs, StartRun(r)
  PROVE  RowsFollow' /\ ChecksStand' /\ EffectsHaveResults'
<1>1. TypeOK /\ RowsFollow /\ ChecksStand /\ EffectsHaveResults
  BY DEF SafeInv, TypeInv
<1>2. /\ UNCHANGED <<verdict, approval, result, effects, job>>
      /\ pc[r] = "idle" /\ pc' = [pc EXCEPT ![r] = "decide"]
      /\ \A x \in Runs \ {r} : dryRun'[x] = dryRun[x] /\ todo'[x] = todo[x]
  BY <1>1 DEF StartRun, TypeOK, history
\* An idle run has decided nothing, so its dry_run flag is not yet looked at.
<1>3. ASSUME NEW d \in Decisions, verdict[d] # None
      PROVE  /\ d[1] \in Runs \ {r}
             /\ Mandated(d) => Mandated(d)'
  <2>1. d[1] \in Runs \ {r}
    BY <1>1, <1>2, <1>3 DEF RowsFollow, Decisions
  <2>. QED
    BY <1>2, <2>1 DEF Mandated
<1>4. \A d \in Decisions : Mandated(d) => verdict[d] # None /\ Mandated(d)'
  BY <1>3, ConstantsAssumption DEF Mandated, Verdicts
<1>5. ASSUME NEW d \in Decisions
      PROVE  /\ result'[d] # None => Mandated(d)'
             /\ approval'[d] # None => verdict'[d] = "RECOMMEND"
             /\ verdict'[d] # None => pc'[d[1]] # "idle" /\ d[2] \notin todo'[d[1]]
  <2>1. result'[d] # None => Mandated(d)'
    BY <1>1, <1>2, <1>4 DEF RowsFollow
  <2>2. approval'[d] # None => verdict'[d] = "RECOMMEND"
    BY <1>1, <1>2 DEF RowsFollow
  <2>3. ASSUME verdict[d] # None
        PROVE  pc'[d[1]] # "idle" /\ d[2] \notin todo'[d[1]]
    BY <1>1, <1>2, <1>3, <2>3 DEF RowsFollow, TypeOK, Procs
  <2>. QED
    BY <1>2, <2>1, <2>2, <2>3
<1>6. RowsFollow'
  BY <1>5 DEF RowsFollow
<1>7. ASSUME NEW x \in Procs
      PROVE  /\ pc'[x] \in ExecutorLabels => Mandated(job[x])'
             /\ pc'[x] \in {"expire", "approve", "reject"} => approval'[job'[x]] # None
             /\ pc'[x] = "rollback" => result'[job'[x]] \in {"SUCCESS", "ROLLED_BACK"}
             /\ pc'[x] = "route" => approval'[job'[x]] = None
  <2>1. pc'[x] = "decide" \/ pc'[x] = pc[x]
    BY <1>1, <1>2 DEF TypeOK
  <2>2. pc[x] \in ExecutorLabels => Mandated(job[x])'
    BY <1>1, <1>2, <1>4, OthersHold DEF ChecksStand, Mandated, Working
  <2>. QED
    BY <1>1, <1>2, <2>1, <2>2 DEF ChecksStand, ExecutorLabels
<1>8. ChecksStand'
  BY <1>7 DEF ChecksStand, Mandated
<1>9. EffectsHaveResults'
  BY <1>1, <1>2 DEF EffectsHaveResults
<1>. QED
  BY <1>6, <1>8, <1>9

\* Every step of a staff request keeps the invariant.
LEMMA RequestsAreSafe ==
  ASSUME SafeInv, NEW q \in Staff,
         RequestStep(q) \/ \E d \in Decisions : BeginRequest(q, d)
  PROVE  RowsFollow' /\ ChecksStand' /\ EffectsHaveResults'
<1>1. TypeOK /\ RowsFollow /\ ChecksStand /\ EffectsHaveResults
  BY DEF SafeInv, TypeInv
<1>2. q \in Procs /\ q \notin Runs
  BY ConstantsAssumption DEF Procs
<1>3. UNCHANGED <<verdict, dryRun, todo, effects>>
  BY DEF RequestStep, CommitExpiry, CommitApproval, CommitRejection, CommitRollback,
         BeginRequest, BeginApprove, BeginExpire, BeginReject, BeginRollback, Begin,
         tables, history
\* An answered request stays answered, and only an answered request changes.
<1>4. \A d \in Decisions :
        \/ approval'[d] = approval[d]
        \/ approval[d] # None /\ approval'[d] \in {"EXPIRED", "APPROVED", "REJECTED"}
  <2>1. pc[q] \in {"expire", "approve", "reject"} =>
           job[q] \in Decisions /\ approval[job[q]] # None
    BY <1>1, <1>2, OthersHold DEF ChecksStand, Working, StaffOnly
  <2>. QED
    BY <1>1, <2>1
       DEF RequestStep, CommitExpiry, CommitApproval, CommitRejection, CommitRollback,
           BeginRequest, BeginApprove, BeginExpire, BeginReject, BeginRollback, Begin,
           tables, TypeOK
<1>5. \A d \in Decisions :
        \/ result'[d] = result[d]
        \/ result[d] \in {"SUCCESS", "ROLLED_BACK"} /\ result'[d] = "ROLLED_BACK"
  <2>1. pc[q] = "rollback" =>
           job[q] \in Decisions /\ result[job[q]] \in {"SUCCESS", "ROLLED_BACK"}
    BY <1>1, <1>2, OthersHold DEF ChecksStand, Working, StaffOnly
  <2>. QED
    BY <1>1, <2>1
       DEF RequestStep, CommitExpiry, CommitApproval, CommitRejection, CommitRollback,
           BeginRequest, BeginApprove, BeginExpire, BeginReject, BeginRollback, Begin,
           tables, TypeOK
<1>6. \A d \in Decisions : Mandated(d) => Mandated(d)'
  BY <1>3, <1>4, ConstantsAssumption DEF Mandated, ApprovalStatuses
<1>7. /\ \A x \in Procs \ {q} : pc'[x] = pc[x] /\ job'[x] = job[x]
      /\ \A r \in Runs : pc'[r] = pc[r]
  <2>1. ASSUME NEW d \in Decisions, BeginRequest(q, d)
        PROVE  \A x \in Procs \ {q} : pc'[x] = pc[x] /\ job'[x] = job[x]
    BY <1>1, <2>1
       DEF BeginRequest, BeginApprove, BeginExpire, BeginReject, BeginRollback, Begin,
           TypeOK
  <2>2. ASSUME RequestStep(q)
        PROVE  \A x \in Procs \ {q} : pc'[x] = pc[x] /\ job'[x] = job[x]
    BY <1>1, <2>2
       DEF RequestStep, CommitExpiry, CommitApproval, CommitRejection, CommitRollback,
           TypeOK
  <2>3. \A x \in Procs \ {q} : pc'[x] = pc[x] /\ job'[x] = job[x]
    BY <2>1, <2>2
  <2>. QED
    BY <1>2, <2>3 DEF Procs
\* What the request itself has checked.
<1>8. /\ pc'[q] \in ExecutorLabels => Mandated(job[q])'
      /\ pc'[q] \in {"expire", "approve", "reject"} => approval'[job'[q]] # None
      /\ pc'[q] = "rollback" => result'[job'[q]] \in {"SUCCESS", "ROLLED_BACK"}
      /\ pc'[q] # "route"
  <2>1. CASE CommitApproval(q)
    <3>1. job[q] \in Decisions /\ verdict[job[q]] = "RECOMMEND"
      BY <1>1, <1>2, <2>1, OthersHold
         DEF CommitApproval, ChecksStand, RowsFollow, Working, StaffOnly
    <3>2. /\ approval'[job[q]] = "APPROVED"
          /\ UNCHANGED <<job, verdict>>
          /\ pc'[q] = "idem"
      BY <1>1, <1>2, <2>1, <3>1 DEF CommitApproval, AfterApproval, TypeOK
    <3>. QED
      BY <3>1, <3>2, ConstantsAssumption DEF Mandated, ApprovalStatuses
  <2>2. CASE pc' = [pc EXCEPT ![q] = "idle"]
    BY <1>1, <1>2, <2>2 DEF TypeOK, ExecutorLabels
  <2>3. CASE \E d \in Decisions : BeginRequest(q, d)
    BY <1>1, <1>2, <2>3, ConstantsAssumption
       DEF BeginRequest, BeginApprove, BeginExpire, BeginReject, BeginRollback, Begin,
           ApprovalIsPending, CanRollBack, TypeOK, ExecutorLabels, tables, ApprovalStatuses
  <2>. QED
    BY <2>1, <2>2, <2>3 DEF RequestStep, CommitExpiry, CommitRejection, CommitRollback
<1>9. ASSUME NEW d \in Decisions
      PROVE  /\ result'[d] # None => Mandated(d)'
             /\ approval'[d] # None => verdict'[d] = "RECOMMEND"
             /\ verdict'[d] # None => pc'[d[1]] # "idle" /\ d[2] \notin todo'[d[1]]
  <2>1. result'[d] # None => result[d] # None
    BY <1>5, ConstantsAssumption DEF ActionStatuses
  <2>2. d[1] \in Runs
    BY DEF Decisions
  <2>. QED
    BY <1>1, <1>3, <1>4, <1>6, <1>7, <2>1, <2>2 DEF RowsFollow
<1>10. ASSUME NEW x \in Procs \ {q}
       PROVE  /\ pc'[x] \in ExecutorLabels => Mandated(job[x])'
              /\ pc'[x] \in {"expire", "approve", "reject"} => approval'[job'[x]] # None
              /\ pc'[x] = "rollback" => result'[job'[x]] \in {"SUCCESS", "ROLLED_BACK"}
              /\ pc'[x] = "route" => approval'[job'[x]] = None
  <2>1. pc'[x] = pc[x] /\ job'[x] = job[x]
    BY <1>7
  <2>2. pc[x] \in Working => job[x] \in Decisions
    BY OthersHold
  <2>3. pc[x] \in ExecutorLabels => Mandated(job[x])'
    BY <1>1, <1>6, <2>1, <2>2 DEF ChecksStand, Mandated, Working
  <2>4. /\ pc[x] \in {"expire", "approve", "reject"} => approval'[job[x]] # None
        /\ pc[x] = "route" => approval'[job[x]] = None
    BY <1>1, <1>4, <2>2, ConstantsAssumption
       DEF ChecksStand, Working, StaffOnly, ApprovalStatuses
  <2>5. pc[x] = "rollback" => result'[job[x]] \in {"SUCCESS", "ROLLED_BACK"}
    BY <1>1, <1>5, <2>2 DEF ChecksStand, Working, StaffOnly
  <2>. QED
    BY <2>1, <2>3, <2>4, <2>5
<1>11. RowsFollow'
  BY <1>9 DEF RowsFollow
<1>12. ChecksStand'
  BY <1>8, <1>10 DEF ChecksStand, Mandated
<1>13. EffectsHaveResults'
  BY <1>1, <1>3, <1>5 DEF EffectsHaveResults
<1>. QED
  BY <1>11, <1>12, <1>13

\* The switch, patches, time and crashes keep the invariant.
LEMMA EnvironmentIsSafe ==
  ASSUME SafeInv, Environment
  PROVE  RowsFollow' /\ ChecksStand' /\ EffectsHaveResults'
<1>1. TypeOK /\ RowsFollow /\ ChecksStand /\ EffectsHaveResults
  BY DEF SafeInv, TypeInv
<1>2. UNCHANGED <<verdict, dryRun, approval, result, todo, effects>>
  BY DEF Environment, TurnOnKillSwitch, TurnOffKillSwitch, PatchException, PassDeadline,
         PassHour, Crash, Abandon, tables, sessions, history
<1>3. EffectsHaveResults'
  BY <1>1, <1>2 DEF EffectsHaveResults
<1>4. CASE UNCHANGED <<pc, job>>
  <2>1. RowsFollow' /\ ChecksStand'
    BY <1>1, <1>2, <1>4 DEF RowsFollow, ChecksStand, Mandated
  <2>. QED
    BY <1>3, <2>1
<1>5. ASSUME NEW p \in Procs, Crash(p)
      PROVE  RowsFollow' /\ ChecksStand'
  <2>1. /\ \A x \in Procs \ {p} : pc'[x] = pc[x] /\ job'[x] = job[x]
        /\ pc'[p] \in {"dead", "idle"} /\ (p \in Runs => pc'[p] = "dead")
    BY <1>1, <1>5 DEF Crash, Abandon, TypeOK
  <2>2. \A r \in Runs : pc'[r] = "idle" => pc[r] = "idle"
    BY <2>1 DEF Procs
  <2>3. \A d \in Decisions : d[1] \in Runs
    BY DEF Decisions
  <2>4. RowsFollow'
    BY <1>1, <1>2, <2>2, <2>3 DEF RowsFollow, Mandated
  <2>5. ChecksStand'
    BY <1>1, <1>2, <2>1 DEF ChecksStand, Mandated, ExecutorLabels
  <2>. QED
    BY <2>4, <2>5
<1>. QED
  BY <1>3, <1>4, <1>5
     DEF Environment, TurnOnKillSwitch, TurnOffKillSwitch, PatchException, PassDeadline,
         PassHour, sessions

\* Every step keeps the invariant.
LEMMA SafeInvNext == SafeInv /\ [Next]_vars => SafeInv'
<1>. SUFFICES ASSUME SafeInv, [Next]_vars PROVE SafeInv'
  OBVIOUS
<1>1. TypeInv'
  BY TypeInvNext DEF SafeInv
<1>2. CASE UNCHANGED vars
  BY <1>1, <1>2
     DEF SafeInv, RowsFollow, ChecksStand, EffectsHaveResults, Mandated, vars, tables,
         sessions, world, history
<1>3. CASE Next
  <2>1. RowsFollow' /\ ChecksStand' /\ EffectsHaveResults'
    BY <1>3, ExecutorIsSafe, RunIsSafe, StartIsSafe, RequestsAreSafe, EnvironmentIsSafe
       DEF Next
  <2>. QED
    BY <1>1, <2>1 DEF SafeInv
<1>. QED
  BY <1>2, <1>3

\* The invariant holds in every reachable state.
LEMMA AlwaysSafe == Spec => []SafeInv
BY SafeInvInit, SafeInvNext, PTL DEF Spec

----------------------------------------------------------------------------
\* However many sessions execute a decision, its exception is changed for it at
\* most once, and only together with a result that says so (action_executor).
THEOREM AtMostOneEffectHolds == Spec => []AtMostOneEffect
<1>1. SafeInv => AtMostOneEffect
  BY DEF SafeInv, EffectsHaveResults, AtMostOneEffect
<1>. QED
  BY <1>1, AlwaysSafe, PTL

\* An action result exists only for a decision that was automatic and no dry run,
\* or recommended and answered (controller_service, approval_service).
THEOREM NoActionWithoutMandateHolds == Spec => []NoActionWithoutMandate
<1>1. SafeInv => NoActionWithoutMandate
  BY DEF SafeInv, RowsFollow, Mandated, NoActionWithoutMandate
<1>. QED
  BY <1>1, AlwaysSafe, PTL

\* A session is past the kill-switch check while the switch is on only if it was
\* past it when the switch was turned on (action_executor: _check_kill_switch).
THEOREM OnlyInFlightWorkPastSwitchHolds == Spec => []OnlyInFlightWorkPastSwitch
<1>1. Init => OnlyInFlightWorkPastSwitch
  BY DEF Init, OnlyInFlightWorkPastSwitch
<1>2. TypeInv /\ OnlyInFlightWorkPastSwitch /\ [Next]_vars => OnlyInFlightWorkPastSwitch'
  <2>. SUFFICES ASSUME TypeOK, OnlyInFlightWorkPastSwitch, [Next]_vars
                PROVE  OnlyInFlightWorkPastSwitch'
    BY DEF TypeInv
  \* A step of one session: it leaves inFlight only when it is no longer past the
  \* check, and enters past it only by way of the check.
  <2>1. ASSUME NEW p \in Procs, UNCHANGED killSwitch,
               \A x \in Procs \ {p} : pc'[x] = pc[x] /\ (x \in inFlight => x \in inFlight'),
               \/ pc'[p] \notin PastCheck
               \/ pc[p] \in PastCheck /\ UNCHANGED inFlight
               \/ ~killSwitch
        PROVE  OnlyInFlightWorkPastSwitch'
    BY <2>1 DEF OnlyInFlightWorkPastSwitch
  <2>2. ASSUME NEW p \in Procs, ExecuteAction(p)
        PROVE  OnlyInFlightWorkPastSwitch'
    <3>1. UNCHANGED killSwitch
      BY <2>2
         DEF ExecuteAction, FindKey, MissKey, CheckKillSwitch, RefuseByKillSwitch,
             CheckRateLimits, RefuseByRateLimit, RecordRefusal, CommitAction, LoseToKey,
             MarkExecuted, tables
    <3>2. \A x \in Procs \ {p} : pc'[x] = pc[x] /\ (x \in inFlight => x \in inFlight')
      BY <2>2
         DEF ExecuteAction, FindKey, MissKey, CheckKillSwitch, RefuseByKillSwitch,
             CheckRateLimits, RefuseByRateLimit, RecordRefusal, CommitAction, LoseToKey,
             MarkExecuted, Finish, Abandon, ToMark, history, TypeOK
    <3>3. \/ pc'[p] \notin PastCheck
          \/ pc[p] \in PastCheck /\ UNCHANGED inFlight
          \/ ~killSwitch
      BY <2>2
         DEF ExecuteAction, FindKey, MissKey, CheckKillSwitch, RefuseByKillSwitch,
             CheckRateLimits, RefuseByRateLimit, RecordRefusal, CommitAction, LoseToKey,
             MarkExecuted, Finish, Returned, Abandon, ToMark, history, TypeOK, PastCheck,
             KillSwitchActive
    <3>. QED
      BY <2>1, <3>1, <3>2, <3>3
  <2>3. ASSUME NEW r \in Runs, StartRun(r) \/ RunStep(r)
        PROVE  OnlyInFlightWorkPastSwitch'
    <3>1. r \in Procs /\ UNCHANGED <<killSwitch, inFlight>>
      BY <2>3
         DEF StartRun, RunStep, Decide, DecideFails, RouteDryRun, RouteToExecutor,
             RouteToApproval, RouteToEscalation, Escalate, RouteToBlock, Account,
             FinalizeRun, tables, history, Procs
    <3>2. (\A x \in Procs \ {r} : pc'[x] = pc[x]) /\ pc'[r] \notin PastCheck
      BY <2>3, <3>1
         DEF StartRun, RunStep, Decide, DecideFails, RouteDryRun, RouteToExecutor,
             RouteToApproval, RouteToEscalation, Escalate, RouteToBlock, Account,
             FinalizeRun, TypeOK, PastCheck
    <3>. QED
      BY <2>1, <3>1, <3>2
  <2>4. ASSUME NEW q \in Staff, RequestStep(q) \/ \E d \in Decisions : BeginRequest(q, d)
        PROVE  OnlyInFlightWorkPastSwitch'
    <3>1. q \in Procs /\ UNCHANGED <<killSwitch, inFlight>>
      BY <2>4
         DEF RequestStep, CommitExpiry, CommitApproval, CommitRejection, CommitRollback,
             BeginRequest, BeginApprove, BeginExpire, BeginReject, BeginRollback, Begin,
             tables, history, Procs
    <3>2. \E label \in {"expire", "approve", "reject", "rollback", "idle", "idem"} :
            pc' = [pc EXCEPT ![q] = label]
      BY <2>4
         DEF RequestStep, CommitExpiry, CommitApproval, CommitRejection, CommitRollback,
             BeginRequest, BeginApprove, BeginExpire, BeginReject, BeginRollback, Begin,
             AfterApproval
    <3>3. (\A x \in Procs \ {q} : pc'[x] = pc[x]) /\ pc'[q] \notin PastCheck
      BY <3>1, <3>2 DEF TypeOK, PastCheck
    <3>. QED
      BY <2>1, <3>1, <3>3
  <2>5. CASE Environment
    <3>1. CASE TurnOnKillSwitch
      BY <3>1 DEF TurnOnKillSwitch, OnlyInFlightWorkPastSwitch, sessions
    <3>2. CASE TurnOffKillSwitch
      BY <3>2 DEF TurnOffKillSwitch, OnlyInFlightWorkPastSwitch
    <3>3. ASSUME NEW p \in Procs, Crash(p)
          PROVE  OnlyInFlightWorkPastSwitch'
      <4>1. /\ \A x \in Procs \ {p} : pc'[x] = pc[x] /\ (x \in inFlight => x \in inFlight')
            /\ pc'[p] \notin PastCheck
            /\ UNCHANGED killSwitch
        BY <3>3 DEF Crash, Abandon, TypeOK, PastCheck, tables
      <4>. QED
        BY <2>1, <4>1
    <3>. QED
      BY <2>5, <3>1, <3>2, <3>3
         DEF Environment, PatchException, PassDeadline, PassHour, tables, sessions,
             history, OnlyInFlightWorkPastSwitch
  <2>6. CASE UNCHANGED vars
    BY <2>6 DEF OnlyInFlightWorkPastSwitch, vars, tables, sessions, history
  <2>. QED
    BY <2>2, <2>3, <2>4, <2>5, <2>6 DEF Next
<1>. QED
  BY <1>1, <1>2, AlwaysTypeInv, PTL DEF Spec
===============================================================================
