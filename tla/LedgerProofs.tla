----------------------------- MODULE LedgerProofs -----------------------------
(***************************************************************************)
(* The controller implements ActionLedger, what it resolved stays backed   *)
(* by a result, and what was turned down is executed only if answers to    *)
(* the same request overlapped, for every value of the constants.          *)
(***************************************************************************)
EXTENDS ControllerProofs

\* A write always brings about the status that the verification expects.
LEMMA WritesAreVerified ==
  ASSUME NEW p \in Procs, Writes(p)
  PROVE  Verified(p) /\ StatusAfter(p) = TargetStatus(RequestedAction(job[p]), View(p))
BY DEF Verified, StatusAfter

\* A write leads to the goal of the action, whatever stale status was believed.
LEMMA WritesReachGoal ==
  ASSUME NEW p \in Procs, Writes(p)
  PROVE  StatusAfter(p) = TargetStatus(RequestedAction(job[p]), status[job[p][2]])
BY WritesAreVerified DEF Writes, TargetStatus

\* Before any run, every entry of the ledger is open.
LEMMA LedgerInit == Init => Ledger!Init
<1>. SUFFICES ASSUME Init PROVE Ledger!Init
  OBVIOUS
<1>1. status \in [Exceptions -> Statuses]
  BY DEF Init, Statuses
<1>2. \A d \in Decisions : LedgerEntry(d) = "open"
  BY ConstantsAssumption DEF Init, LedgerEntry, ActionStatuses
<1>. QED
  BY <1>1, <1>2 DEF Ledger!Init

\* Every step of the executor is a step of the ledger or a stutter.
LEMMA ExecutorImplementsLedger ==
  ASSUME SafeInv, NEW p \in Procs, ExecuteAction(p)
  PROVE  [Ledger!Next]_<<status, [d \in Decisions |-> LedgerEntry(d)]>>
<1>1. TypeOK
  BY DEF SafeInv, TypeInv
<1>2. pc[p] \in ExecutorLabels => job[p] \in Decisions
  BY OthersHold DEF Working
<1>3. CASE UNCHANGED <<status, result>>
  BY <1>3 DEF LedgerEntry
<1>4. CASE RecordRefusal(p) /\ pc[p] \in ExecutorLabels /\ ~ UNCHANGED result
  <2>1. /\ job[p] \in Decisions
        /\ result[job[p]] = None
        /\ result' = [result EXCEPT ![job[p]] = "FAILED"]
        /\ UNCHANGED status
    BY <1>2, <1>4 DEF RecordRefusal, KeyIsFree
  <2>2. Ledger!Refuse(job[p])
    BY <1>1, <2>1, ConstantsAssumption DEF Ledger!Refuse, LedgerEntry, TypeOK, ActionStatuses
  <2>. QED
    BY <2>1, <2>2 DEF Ledger!Next
<1>5. CASE CommitAction(p)
  <2>1. job[p] \in Decisions /\ result[job[p]] = None
    BY <1>2, <1>5 DEF CommitAction, KeyIsFree, ExecutorLabels
  <2>2. status' = [status EXCEPT ![job[p][2]] = StatusAfter(p)]
    BY <1>5 DEF CommitAction
  <2>3. ~Writes(p) => UNCHANGED status
    BY <1>1, <2>1, <2>2 DEF StatusAfter, TypeOK, Decisions
  <2>4. CASE Verified(p)
    <3>1. result' = [result EXCEPT ![job[p]] = "SUCCESS"]
      BY <1>5, <2>4 DEF CommitAction
    <3>2. LedgerEntry(job[p]) = "open"
      BY <2>1, ConstantsAssumption DEF LedgerEntry, ActionStatuses
    <3>3. [d \in Decisions |-> LedgerEntry(d)]' =
            [[d \in Decisions |-> LedgerEntry(d)] EXCEPT ![job[p]] = "done"]
      BY <1>1, <2>1, <3>1, ConstantsAssumption DEF LedgerEntry, TypeOK, ActionStatuses
    <3>4. \/ UNCHANGED status
          \/ status' = [status EXCEPT ![job[p][2]] =
                          TargetStatus(RequestedAction(job[p]), status[job[p][2]])]
      BY <2>2, <2>3, WritesReachGoal
    <3>5. Ledger!Perform(job[p])
      BY <2>1, <3>2, <3>3, <3>4 DEF Ledger!Perform
    <3>. QED
      BY <2>1, <3>5 DEF Ledger!Next
  <2>5. CASE ~Verified(p)
    <3>1. result' = [result EXCEPT ![job[p]] = "FAILED_VERIFICATION"]
      BY <1>5, <2>5 DEF CommitAction
    <3>2. UNCHANGED status
      BY <2>3, <2>5, WritesAreVerified
    <3>3. Ledger!Refuse(job[p])
      BY <1>1, <2>1, <3>1, <3>2, ConstantsAssumption
         DEF Ledger!Refuse, LedgerEntry, TypeOK, ActionStatuses
    <3>. QED
      BY <2>1, <3>3 DEF Ledger!Next
  <2>. QED
    BY <2>4, <2>5
<1>. QED
  BY <1>3, <1>4, <1>5
     DEF ExecuteAction, FindKey, MissKey, CheckKillSwitch, RefuseByKillSwitch,
         CheckRateLimits, RefuseByRateLimit, RecordRefusal, LoseToKey, MarkExecuted,
         ExecutorLabels, tables

\* Only a result that someone is rolling back changes outside the executor.
LEMMA OthersImplementLedger ==
  ASSUME SafeInv,
         \/ \E r \in Runs : StartRun(r) \/ RunStep(r)
         \/ \E q \in Staff, d \in Decisions : BeginRequest(q, d)
         \/ \E q \in Staff : RequestStep(q)
         \/ Environment
  PROVE  [Ledger!Next]_<<status, [d \in Decisions |-> LedgerEntry(d)]>>
<1>1. TypeOK /\ ChecksStand
  BY DEF SafeInv, TypeInv
<1>2. CASE UNCHANGED <<status, result>>
  BY <1>2 DEF LedgerEntry
<1>3. ASSUME NEW e \in Exceptions, UNCHANGED result,
             NEW s \in PatchTargets \cup {"OPEN", "IN_REVIEW"},
             status' = [status EXCEPT ![e] = s]
      PROVE  Ledger!Next
  <2>1. [d \in Decisions |-> LedgerEntry(d)]' = [d \in Decisions |-> LedgerEntry(d)]
    BY <1>3 DEF LedgerEntry
  <2>2. Ledger!Override(e)
    BY <1>3, <2>1 DEF Ledger!Override
  <2>. QED
    BY <2>2 DEF Ledger!Next
<1>4. ASSUME NEW r \in Runs, Escalate(r), ~ UNCHANGED status
      PROVE  Ledger!Next
  <2>1. job[r] \in Decisions
    BY <1>4, RunHolds DEF Escalate, Working
  <2>2. job[r][2] \in Exceptions
    BY <2>1 DEF Decisions
  <2>3. seen[r] = "OPEN"
    BY <1>1, <1>4, <2>2 DEF Escalate, TypeOK
  <2>4. status' = [status EXCEPT ![job[r][2]] = "IN_REVIEW"] /\ UNCHANGED result
    BY <1>4, <2>3 DEF Escalate
  <2>. QED
    BY <1>3, <2>2, <2>4
<1>5. ASSUME NEW e \in Exceptions, PatchException(e)
      PROVE  Ledger!Next
  <2>1. PICK s \in PatchTargets \ {status[e]} : status' = [status EXCEPT ![e] = s]
    BY <1>5 DEF PatchException
  <2>. QED
    BY <1>3, <1>5, <2>1 DEF PatchException
<1>6. ASSUME NEW q \in Staff, CommitRollback(q)
      PROVE  [Ledger!Next]_<<status, [d \in Decisions |-> LedgerEntry(d)]>>
  <2>1. q \in Procs /\ job[q] \in Decisions /\ job[q][2] \in Exceptions
    BY <1>6, OthersHold DEF CommitRollback, Working, StaffOnly, Procs, Decisions
  <2>2. result[job[q]] \in {"SUCCESS", "ROLLED_BACK"}
    BY <1>1, <1>6, <2>1 DEF CommitRollback, ChecksStand
  <2>3. PICK s \in {"OPEN", "IN_REVIEW"} : status' = [status EXCEPT ![job[q][2]] = s]
    BY <1>6 DEF CommitRollback, RollbackTarget
  <2>4. result' = [result EXCEPT ![job[q]] = "ROLLED_BACK"]
    BY <1>6 DEF CommitRollback
  <2>5. CASE result[job[q]] = "SUCCESS"
    <3>1. LedgerEntry(job[q]) = "done"
      BY <2>5, ConstantsAssumption DEF LedgerEntry, ActionStatuses
    <3>2. [d \in Decisions |-> LedgerEntry(d)]' =
            [[d \in Decisions |-> LedgerEntry(d)] EXCEPT ![job[q]] = "undone"]
      BY <1>1, <2>1, <2>4, ConstantsAssumption DEF LedgerEntry, TypeOK, ActionStatuses
    <3>3. Ledger!Undo(job[q])
      BY <2>1, <2>3, <3>1, <3>2 DEF Ledger!Undo
    <3>. QED
      BY <2>1, <3>3 DEF Ledger!Next
  \* A second rollback of the same result: it only sets the status again.
  <2>6. CASE result[job[q]] = "ROLLED_BACK"
    <3>1. UNCHANGED result
      BY <1>1, <2>4, <2>6 DEF TypeOK
    <3>. QED
      BY <1>3, <2>1, <2>3, <3>1
  <2>. QED
    BY <2>2, <2>5, <2>6
<1>7. ASSUME NEW r \in Runs, StartRun(r) \/ RunStep(r)
      PROVE  Escalate(r) \/ UNCHANGED <<status, result>>
  BY <1>7
     DEF StartRun, RunStep, Decide, DecideFails, RouteDryRun, RouteToExecutor,
         RouteToApproval, RouteToEscalation, RouteToBlock, Account, FinalizeRun, tables
<1>8. ASSUME NEW q \in Staff, RequestStep(q) \/ \E d \in Decisions : BeginRequest(q, d)
      PROVE  CommitRollback(q) \/ UNCHANGED <<status, result>>
  BY <1>8
     DEF RequestStep, CommitExpiry, CommitApproval, CommitRejection, BeginRequest,
         BeginApprove, BeginExpire, BeginReject, BeginRollback, Begin, tables
<1>9. ASSUME Environment
      PROVE  (\E e \in Exceptions : PatchException(e)) \/ UNCHANGED <<status, result>>
  BY <1>9
     DEF Environment, TurnOnKillSwitch, TurnOffKillSwitch, PassDeadline, PassHour, Crash,
         tables
<1>10. ASSUME NEW r \in Runs, Escalate(r)
       PROVE  UNCHANGED result
  BY <1>10 DEF Escalate
<1>. QED
  BY <1>2, <1>4, <1>5, <1>6, <1>7, <1>8, <1>9, <1>10

\* The controller implements the ledger: an entry is settled once, an exception
\* changes on behalf of a decision only in the step that settles it as done, and
\* only a done entry is undone (action_executor, rollback, escalation_service).
THEOREM LedgerImplemented == Spec => ImplementsLedger
<1>1. SafeInv /\ [Next]_vars =>
        [Ledger!Next]_<<status, [d \in Decisions |-> LedgerEntry(d)]>>
  <2>. SUFFICES ASSUME SafeInv, [Next]_vars
                PROVE  [Ledger!Next]_<<status, [d \in Decisions |-> LedgerEntry(d)]>>
    OBVIOUS
  <2>1. CASE UNCHANGED vars
    BY <2>1 DEF vars, tables, LedgerEntry
  <2>2. CASE Next
    BY <2>2, ExecutorImplementsLedger, OthersImplementLedger DEF Next
  <2>. QED
    BY <2>1, <2>2
<1>. QED
  BY <1>1, LedgerInit, AlwaysSafe, PTL DEF Spec, ImplementsLedger, Ledger!Spec

----------------------------------------------------------------------------
(* What was resolved is backed by a result.                                *)

Backs(d) == result[d] = "SUCCESS" /\ RequestedAction(d) \in Resolving

\* A decision that has a result asks for the same action ever after.
LEMMA RequestIsSettled ==
  ASSUME SafeInv, [Next]_vars, NEW d \in Decisions, result[d] # None
  PROVE  RequestedAction(d)' = RequestedAction(d)
<1>1. TypeOK /\ RowsFollow
  BY DEF SafeInv, TypeInv
<1>2. verdict[d] # None
  BY <1>1, ConstantsAssumption DEF RowsFollow, Mandated, Verdicts
<1>3. ASSUME NEW r \in Runs, Decide(r)
      PROVE  verdict'[d] = verdict[d] /\ action'[d] = action[d]
  <2>1. PICK e \in todo[r], prop \in Proposals :
          /\ verdict' = [verdict EXCEPT ![<<r, e>>] = prop[1]]
          /\ action' = [action EXCEPT ![<<r, e>>] = prop[2]]
    BY <1>3 DEF Decide
  <2>2. <<r, e>> \in Decisions
    BY <1>1, <2>1 DEF TypeOK, Decisions
  <2>3. verdict[<<r, e>>] = None
    BY <1>1, <2>1, <2>2 DEF RowsFollow
  <2>4. d # <<r, e>>
    BY <1>2, <2>3
  <2>. QED
    BY <1>1, <2>1, <2>4 DEF TypeOK
<1>4. (\E r \in Runs : Decide(r)) \/ UNCHANGED <<verdict, action>>
  <2>1. ASSUME NEW r \in Runs, StartRun(r) \/ RunStep(r)
        PROVE  Decide(r) \/ UNCHANGED <<verdict, action>>
    BY <2>1
       DEF StartRun, RunStep, DecideFails, RouteDryRun, RouteToExecutor,
           RouteToApproval, RouteToEscalation, Escalate, RouteToBlock, Account,
           FinalizeRun, tables
  <2>2. ASSUME NEW q \in Staff, RequestStep(q) \/ \E x \in Decisions : BeginRequest(q, x)
        PROVE  UNCHANGED <<verdict, action>>
    BY <2>2
       DEF RequestStep, CommitExpiry, CommitApproval, CommitRejection, CommitRollback,
           BeginRequest, BeginApprove, BeginExpire, BeginReject, BeginRollback, Begin,
           tables
  <2>3. ASSUME NEW p \in Procs, ExecuteAction(p)
        PROVE  UNCHANGED <<verdict, action>>
    BY <2>3
       DEF ExecuteAction, FindKey, MissKey, CheckKillSwitch, RefuseByKillSwitch,
           CheckRateLimits, RefuseByRateLimit, RecordRefusal, CommitAction, LoseToKey,
           MarkExecuted, tables
  <2>4. ASSUME Environment
        PROVE  UNCHANGED <<verdict, action>>
    BY <2>4
       DEF Environment, TurnOnKillSwitch, TurnOffKillSwitch, PatchException,
           PassDeadline, PassHour, Crash, tables
  <2>. QED
    BY <2>1, <2>2, <2>3, <2>4 DEF Next, vars, tables
<1>. QED
  BY <1>3, <1>4 DEF RequestedAction

\* An exception that the controller resolved is backed by a result that resolved
\* it and was not rolled back, when no one patches exceptions to RESOLVED
\* (action_executor, rollback: _ROLLBACK_MAP).
THEOREM ResolutionIsBackedHolds == Spec => []ResolutionIsBacked
<1>1. Init => ResolutionIsBacked
  BY DEF Init, ResolutionIsBacked
<1>2. SafeInv /\ ResolutionIsBacked /\ [Next]_vars => ResolutionIsBacked'
  <2>. SUFFICES ASSUME SafeInv, ResolutionIsBacked, [Next]_vars,
                       "RESOLVED" \notin PatchTargets,
                       NEW e \in Exceptions, status'[e] = "RESOLVED"
                PROVE  \E r \in Runs : Backs(<<r, e>>)'
    BY DEF ResolutionIsBacked, Backs
  <2>1. TypeOK /\ ChecksStand
    BY DEF SafeInv, TypeInv
  <2>2. ASSUME NEW d \in Decisions, Backs(d), result'[d] = "SUCCESS"
        PROVE  Backs(d)'
    BY <2>2, RequestIsSettled, ConstantsAssumption DEF Backs, ActionStatuses
  \* What backed it before the step backs it still, if it keeps its result.
  <2>3. ASSUME status[e] = "RESOLVED",
               \A d \in Decisions : result[d] = "SUCCESS" /\ d[2] = e => result'[d] = "SUCCESS"
        PROVE  \E r \in Runs : Backs(<<r, e>>)'
    <3>1. PICK r \in Runs : Backs(<<r, e>>)
      BY <2>3 DEF ResolutionIsBacked, Backs
    <3>2. <<r, e>> \in Decisions /\ <<r, e>>[2] = e
      BY DEF Decisions
    <3>3. result'[<<r, e>>] = "SUCCESS"
      BY <2>3, <3>1, <3>2 DEF Backs
    <3>. QED
      BY <2>2, <3>1, <3>2, <3>3
  <2>4. CASE UNCHANGED <<status, result>>
    BY <2>3, <2>4
  <2>5. ASSUME NEW p \in Procs, ExecuteAction(p)
        PROVE  \E r \in Runs : Backs(<<r, e>>)'
    <3>1. pc[p] \in ExecutorLabels => job[p] \in Decisions
      BY OthersHold DEF Working
    <3>2. CASE RecordRefusal(p) /\ pc[p] \in ExecutorLabels
      <4>1. UNCHANGED status
        BY <3>2 DEF RecordRefusal
      <4>2. \A d \in Decisions : result[d] = "SUCCESS" => result'[d] = "SUCCESS"
        BY <2>1, <3>1, <3>2, ConstantsAssumption
           DEF RecordRefusal, KeyIsFree, TypeOK, ActionStatuses
      <4>. QED
        BY <2>3, <4>1, <4>2
    <3>3. CASE CommitAction(p)
      <4>1. job[p] \in Decisions /\ result[job[p]] = None
        BY <3>1, <3>3 DEF CommitAction, KeyIsFree, ExecutorLabels
      <4>2. job[p] = <<job[p][1], job[p][2]>> /\ job[p][1] \in Runs /\ job[p][2] \in Exceptions
        BY <4>1 DEF Decisions
      <4>3. \A d \in Decisions : result[d] = "SUCCESS" => result'[d] = "SUCCESS"
        BY <2>1, <3>3, <4>1, ConstantsAssumption DEF CommitAction, TypeOK, ActionStatuses
      <4>4. CASE status[e] = "RESOLVED"
        BY <2>3, <4>3, <4>4
      <4>5. CASE status[e] # "RESOLVED"
        <5>1. job[p][2] = e /\ StatusAfter(p) = "RESOLVED"
          BY <2>1, <3>3, <4>2, <4>5 DEF CommitAction, TypeOK
        <5>2. Writes(p)
          BY <4>5, <5>1 DEF StatusAfter
        <5>3. RequestedAction(job[p]) \in Resolving
          BY <4>5, <5>1, <5>2, WritesReachGoal DEF TargetStatus
        <5>4. result'[job[p]] = "SUCCESS"
          BY <2>1, <3>3, <4>1, <5>2, WritesAreVerified DEF CommitAction, TypeOK
        <5>5. PICK r \in Runs : job[p] = <<r, e>>
          BY <4>2, <5>1
        <5>6. UNCHANGED <<verdict, action>>
          BY <3>3 DEF CommitAction
        <5>7. RequestedAction(<<r, e>>)' = RequestedAction(<<r, e>>)
          BY <5>6 DEF RequestedAction
        <5>8. Backs(<<r, e>>)'
          BY <5>3, <5>4, <5>5, <5>7 DEF Backs
        <5>. QED
          BY <5>8
      <4>. QED
        BY <4>4, <4>5
    <3>. QED
      BY <2>4, <2>5, <3>2, <3>3
         DEF ExecuteAction, FindKey, MissKey, CheckKillSwitch, RefuseByKillSwitch,
             CheckRateLimits, RefuseByRateLimit, LoseToKey, MarkExecuted, ExecutorLabels,
             tables
  <2>6. ASSUME NEW r \in Runs, StartRun(r) \/ RunStep(r)
        PROVE  \E x \in Runs : Backs(<<x, e>>)'
    <3>1. UNCHANGED result /\ (UNCHANGED status \/ Escalate(r))
      BY <2>6
         DEF StartRun, RunStep, Decide, DecideFails, RouteDryRun, RouteToExecutor,
             RouteToApproval, RouteToEscalation, Escalate, RouteToBlock, Account,
             FinalizeRun, tables
    <3>2. Escalate(r) => status[e] = "RESOLVED"
      BY <2>1 DEF Escalate, TypeOK
    <3>. QED
      BY <2>3, <3>1, <3>2
  <2>7. ASSUME NEW q \in Staff, RequestStep(q) \/ \E d \in Decisions : BeginRequest(q, d)
        PROVE  \E r \in Runs : Backs(<<r, e>>)'
    <3>1. CASE CommitRollback(q)
      <4>1. job[q] \in Decisions /\ job[q][2] \in Exceptions
        BY <3>1, OthersHold DEF CommitRollback, Working, StaffOnly, Procs, Decisions
      <4>2. job[q][2] # e
        BY <2>1, <3>1, <4>1 DEF CommitRollback, RollbackTarget, TypeOK
      <4>3. status[e] = "RESOLVED"
        BY <2>1, <3>1, <4>2 DEF CommitRollback, TypeOK
      <4>4. \A d \in Decisions : d[2] = e => result'[d] = result[d]
        BY <2>1, <3>1, <4>1, <4>2 DEF CommitRollback, TypeOK
      <4>. QED
        BY <2>3, <4>3, <4>4
    <3>. QED
      BY <2>4, <2>7, <3>1
         DEF RequestStep, CommitExpiry, CommitApproval, CommitRejection, BeginRequest,
             BeginApprove, BeginExpire, BeginReject, BeginRollback, Begin, tables
  <2>8. CASE Environment
    <3>1. UNCHANGED result
      BY <2>8
         DEF Environment, TurnOnKillSwitch, TurnOffKillSwitch, PatchException,
             PassDeadline, PassHour, Crash, tables
    <3>2. status[e] = "RESOLVED"
      BY <2>1, <2>8
         DEF Environment, TurnOnKillSwitch, TurnOffKillSwitch, PatchException,
             PassDeadline, PassHour, Crash, tables, TypeOK
    <3>. QED
      BY <2>3, <3>1, <3>2
  <2>. QED
    BY <2>4, <2>5, <2>6, <2>7, <2>8 DEF Next, vars, tables
<1>. QED
  BY <1>1, <1>2, AlwaysSafe, PTL DEF Spec

----------------------------------------------------------------------------
(* Answers to one request.  The property is not inductive: it rests on     *)
(* what whoever answers has read, and on who has taken the decision to     *)
(* the executor.                                                           *)

AnswersStand(d) ==
  /\ approval[d] \in {"REJECTED", "EXPIRED"} => result[d] = None
  /\ \A q \in Staff : Answering(q, d) => approval[d] = "PENDING"
  /\ \A p \in Procs : pc[p] \in ExecutorLabels /\ job[p] = d => approval[d] \in {None, "APPROVED"}

\* A result is only recorded for what is not turned down.
LEMMA ExecutorAnswers ==
  ASSUME SafeInv, NEW d \in Decisions, AnswersStand(d), NEW p \in Procs, ExecuteAction(p)
  PROVE  AnswersStand(d)'
<1>. USE DEF SafeInv, TypeInv, TypeOK
<1>1. /\ pc[p] \in ExecutorLabels
      /\ job[p] \in Decisions
  BY MayHoldNow
     DEF ExecuteAction, FindKey, MissKey, CheckKillSwitch, RefuseByKillSwitch,
         CheckRateLimits, RefuseByRateLimit, CommitAction, LoseToKey, MarkExecuted,
         ExecutorLabels, MayHold, Working
<1>2. UNCHANGED approval
  BY DEF ExecuteAction, FindKey, MissKey, CheckKillSwitch, RefuseByKillSwitch,
         CheckRateLimits, RefuseByRateLimit, RecordRefusal, CommitAction, LoseToKey,
         MarkExecuted, tables
<1>3. /\ \A x \in Procs \ {p} : pc'[x] = pc[x] /\ job'[x] = job[x]
      /\ \/ pc'[p] \in ExecutorLabels /\ job'[p] = job[p]
         \/ pc'[p] \in {"account", "dead", "idle"}
  BY DEF ExecuteAction, FindKey, MissKey, CheckKillSwitch, RefuseByKillSwitch,
         CheckRateLimits, RefuseByRateLimit, RecordRefusal, CommitAction, LoseToKey,
         MarkExecuted, Finish, Returned, Abandon, ToMark, ExecutorLabels
<1>4. d # job[p] => result'[d] = result[d]
  BY <1>1 DEF ExecuteAction, FindKey, MissKey, CheckKillSwitch, RefuseByKillSwitch,
         CheckRateLimits, RefuseByRateLimit, RecordRefusal, CommitAction, LoseToKey,
         MarkExecuted, tables
<1>5. d = job[p] => approval[d] \notin {"REJECTED", "EXPIRED"}
  BY <1>1, ConstantsAssumption DEF AnswersStand, ApprovalStatuses
<1>6. approval'[d] \in {"REJECTED", "EXPIRED"} => result'[d] = None
  BY <1>2, <1>4, <1>5 DEF AnswersStand
<1>7. \A q \in Staff : Answering(q, d)' => approval'[d] = "PENDING"
  BY <1>2, <1>3 DEF AnswersStand, Answering, Procs, ExecutorLabels
<1>8. \A x \in Procs : pc'[x] \in ExecutorLabels /\ job'[x] = d => approval'[d] \in {None, "APPROVED"}
  BY <1>1, <1>2, <1>3 DEF AnswersStand, ExecutorLabels
<1>. QED
  BY <1>6, <1>7, <1>8 DEF AnswersStand

\* A run asks for an approval where no one is at work on the decision, and takes to the
\* executor only what asks for none.
LEMMA RunAnswers ==
  ASSUME SafeInv, NEW d \in Decisions, AnswersStand(d), NEW r \in Runs, StartRun(r) \/ RunStep(r)
  PROVE  AnswersStand(d)'
<1>1. TypeOK /\ RowsFollow /\ ChecksStand
  BY DEF SafeInv, TypeInv
<1>2. r \in Procs /\ r \notin Staff
  BY ConstantsAssumption DEF Procs
<1>3. UNCHANGED result
  BY DEF StartRun, RunStep, Decide, DecideFails, RouteDryRun, RouteToExecutor, RouteToApproval,
         RouteToEscalation, Escalate, RouteToBlock, Account, FinalizeRun, tables
<1>4. \A x \in Procs \ {r} : pc'[x] = pc[x] /\ job'[x] = job[x]
  BY <1>1 DEF StartRun, RunStep, Decide, DecideFails, RouteDryRun, RouteToExecutor,
         RouteToApproval, RouteToEscalation, Escalate, RouteToBlock, Account, FinalizeRun, TypeOK
<1>5. \A q \in Staff : pc'[q] = pc[q] /\ job'[q] = job[q]
  BY <1>2, <1>4 DEF Procs
<1>6. CASE RouteToApproval(r)
  <2>1. job[r] \in Decisions /\ approval[job[r]] = None /\ verdict[job[r]] = "RECOMMEND"
    BY <1>1, <1>2, <1>6, RunHolds DEF RouteToApproval, ChecksStand, Working
  <2>2. approval' = [approval EXCEPT ![job[r]] = "PENDING"] /\ pc'[r] = "account"
    BY <1>1, <1>2, <1>6 DEF RouteToApproval, TypeOK
  <2>3. ASSUME NEW x \in Procs, pc[x] \in ExecutorLabels
        PROVE  job[x] # job[r]
    BY <1>1, <2>1, <2>3 DEF ChecksStand, Mandated
  <2>4. \A x \in Procs : pc'[x] \in ExecutorLabels /\ job'[x] = d => approval'[d] \in {None, "APPROVED"}
    BY <1>1, <1>4, <2>2, <2>3 DEF AnswersStand, ExecutorLabels, TypeOK
  <2>5. \A q \in Staff : Answering(q, d)' => approval'[d] = "PENDING"
    BY <1>1, <1>5, <2>1, <2>2 DEF AnswersStand, Answering, TypeOK
  <2>6. approval'[d] \in {"REJECTED", "EXPIRED"} => result'[d] = None
    BY <1>1, <1>3, <2>1, <2>2 DEF AnswersStand, TypeOK
  <2>. QED
    BY <2>4, <2>5, <2>6 DEF AnswersStand
<1>7. CASE ~RouteToApproval(r)
  <2>1. UNCHANGED approval
    BY <1>7 DEF StartRun, RunStep, Decide, DecideFails, RouteDryRun, RouteToExecutor,
           RouteToEscalation, Escalate, RouteToBlock, Account, FinalizeRun, tables
  <2>2. pc'[r] \in ExecutorLabels => job'[r] = job[r] /\ approval[job[r]] = None
    BY <1>1, <1>2, <1>7
       DEF StartRun, RunStep, Decide, DecideFails, RouteDryRun, RouteToExecutor,
           RouteToEscalation, Escalate, RouteToBlock, Account, FinalizeRun, TypeOK,
           ExecutorLabels, ChecksStand
  <2>. QED
    BY <1>3, <1>4, <1>5, <2>1, <2>2 DEF AnswersStand, Answering
<1>. QED
  BY <1>6, <1>7

\* Who answers alone finds the request as it was read: the step that turns it down
\* finds it PENDING, and what is pending has no result.
LEMMA RequestAnswers ==
  ASSUME SafeInv, NEW d \in Decisions, AnswersStand(d), AnsweredAlone(d), NEW q \in Staff,
         RequestStep(q) \/ \E e \in Decisions : BeginRequest(q, e)
  PROVE  AnswersStand(d)'
<1>1. TypeOK /\ RowsFollow /\ ChecksStand
  BY DEF SafeInv, TypeInv
<1>2. q \in Procs /\ q \notin Runs
  BY ConstantsAssumption DEF Procs
<1>3. pc[q] \in {"expire", "approve", "reject", "rollback"} => job[q] \in Decisions
  BY <1>2, OthersHold DEF Working, StaffOnly
<1>4. /\ \A x \in Procs \ {q} : pc'[x] = pc[x] /\ job'[x] = job[x]
      /\ \A s \in Staff \ {q} : Answering(s, d)' <=> Answering(s, d)
  <2>1. \A x \in Procs \ {q} : pc'[x] = pc[x] /\ job'[x] = job[x]
    BY <1>1 DEF RequestStep, CommitExpiry, CommitApproval, CommitRejection, CommitRollback,
           BeginRequest, BeginApprove, BeginExpire, BeginReject, BeginRollback, Begin, TypeOK
  <2>. QED
    BY <2>1 DEF Answering, Procs
<1>5. approval[d] = "PENDING" => result[d] = None
  BY <1>1, ConstantsAssumption DEF RowsFollow, Mandated, ApprovalStatuses
\* An answer, which is the only one under way if it is to this request.
<1>6. ASSUME NEW a \in {"APPROVED", "REJECTED", "EXPIRED"}, UNCHANGED result,
             job[q] \in Decisions, pc[q] \in {"expire", "approve", "reject"},
             approval' = [approval EXCEPT ![job[q]] = a],
             \/ pc'[q] = "idle"
             \/ pc'[q] = "idem" /\ a = "APPROVED" /\ job'[q] = job[q]
      PROVE  AnswersStand(d)'
  <2>1. CASE job[q] = d
    <3>1. Answering(q, d) /\ approval[d] = "PENDING" /\ approval'[d] = a
      BY <1>1, <1>6, <2>1 DEF Answering, AnswersStand, TypeOK
    <3>2. approval'[d] \in {"REJECTED", "EXPIRED"} => result'[d] = None
      BY <1>5, <1>6, <3>1
    <3>3. \A s \in Staff : ~Answering(s, d)'
      BY <1>4, <1>6, <3>1 DEF AnsweredAlone, Answering
    <3>4. ASSUME NEW x \in Procs, pc'[x] \in ExecutorLabels, job'[x] = d
          PROVE  approval'[d] \in {None, "APPROVED"}
      <4>1. CASE x = q
        BY <1>6, <3>1, <3>4, <4>1 DEF ExecutorLabels
      <4>2. CASE x # q
        BY <1>4, <3>1, <3>4, <4>2, ConstantsAssumption DEF AnswersStand, ApprovalStatuses
      <4>. QED
        BY <4>1, <4>2
    <3>. QED
      BY <3>2, <3>3, <3>4 DEF AnswersStand
  <2>2. CASE job[q] # d
    <3>1. approval'[d] = approval[d] /\ result'[d] = result[d]
      BY <1>1, <1>6, <2>2 DEF TypeOK
    <3>2. ~Answering(q, d)' /\ ~(pc'[q] \in ExecutorLabels /\ job'[q] = d)
      BY <1>6, <2>2 DEF Answering, ExecutorLabels
    <3>. QED
      BY <1>4, <3>1, <3>2 DEF AnswersStand
  <2>. QED
    BY <2>1, <2>2
<1>7. CASE CommitExpiry(q) \/ CommitApproval(q) \/ CommitRejection(q)
  <2>1. job[q] \in Decisions /\ pc[q] \in {"expire", "approve", "reject"} /\ UNCHANGED result
    BY <1>3, <1>7 DEF CommitExpiry, CommitApproval, CommitRejection
  <2>2. CASE CommitExpiry(q)
    <3>1. approval' = [approval EXCEPT ![job[q]] = "EXPIRED"] /\ pc'[q] = "idle"
      BY <1>1, <1>2, <2>2 DEF CommitExpiry, TypeOK
    <3>. QED
      BY <1>6, <2>1, <3>1
  <2>3. CASE CommitApproval(q)
    <3>1. approval' = [approval EXCEPT ![job[q]] = "APPROVED"] /\ pc'[q] = "idem" /\ job'[q] = job[q]
      BY <1>1, <1>2, <2>3 DEF CommitApproval, AfterApproval, TypeOK
    <3>. QED
      BY <1>6, <2>1, <3>1
  <2>4. CASE CommitRejection(q)
    <3>1. approval' = [approval EXCEPT ![job[q]] = "REJECTED"] /\ pc'[q] = "idle"
      BY <1>1, <1>2, <2>4 DEF CommitRejection, TypeOK
    <3>. QED
      BY <1>6, <2>1, <3>1
  <2>. QED
    BY <1>7, <2>2, <2>3, <2>4
<1>8. CASE CommitRollback(q)
  <2>1. /\ job[q] \in Decisions /\ result[job[q]] # None
        /\ UNCHANGED approval /\ pc'[q] = "idle"
        /\ result' = [result EXCEPT ![job[q]] = "ROLLED_BACK"]
    BY <1>1, <1>2, <1>3, <1>8, ConstantsAssumption
       DEF CommitRollback, ChecksStand, ActionStatuses, TypeOK
  <2>2. approval'[d] \in {"REJECTED", "EXPIRED"} => result'[d] = None
    BY <1>1, <2>1 DEF AnswersStand, TypeOK
  <2>3. ~Answering(q, d)' /\ pc'[q] \notin ExecutorLabels
    BY <2>1 DEF Answering, ExecutorLabels
  <2>. QED
    BY <1>4, <2>1, <2>2, <2>3 DEF AnswersStand
<1>9. CASE \E e \in Decisions : BeginRequest(q, e)
  <2>1. UNCHANGED <<approval, result>> /\ pc'[q] \notin ExecutorLabels
    BY <1>1, <1>2, <1>9
       DEF BeginRequest, BeginApprove, BeginExpire, BeginReject, BeginRollback, Begin,
           tables, TypeOK, ExecutorLabels
  <2>2. Answering(q, d)' => approval[d] = "PENDING"
    BY <1>1, <1>2, <1>9
       DEF BeginRequest, BeginApprove, BeginExpire, BeginReject, BeginRollback, Begin,
           ApprovalIsPending, Answering, TypeOK
  <2>. QED
    BY <1>4, <2>1, <2>2 DEF AnswersStand
<1>. QED
  BY <1>7, <1>8, <1>9 DEF RequestStep

\* The switch, patches, time and crashes answer nothing and record nothing.
LEMMA EnvironmentAnswers ==
  ASSUME SafeInv, NEW d \in Decisions, AnswersStand(d), Environment \/ UNCHANGED vars
  PROVE  AnswersStand(d)'
<1>1. UNCHANGED <<approval, result>>
  BY DEF Environment, TurnOnKillSwitch, TurnOffKillSwitch, PatchException, PassDeadline,
         PassHour, Crash, Abandon, vars, tables
<1>2. ASSUME NEW x \in Procs
      PROVE  \/ pc'[x] = pc[x] /\ job'[x] = job[x]
             \/ pc'[x] \in {"dead", "idle"}
  BY DEF Environment, TurnOnKillSwitch, TurnOffKillSwitch, PatchException, PassDeadline,
         PassHour, Crash, Abandon, vars, sessions, SafeInv, TypeInv, TypeOK
<1>3. \A q \in Staff : \/ pc'[q] = pc[q] /\ job'[q] = job[q]
                      \/ pc'[q] \in {"dead", "idle"}
  BY <1>2 DEF Procs
<1>. QED
  BY <1>1, <1>2, <1>3 DEF AnswersStand, Answering, ExecutorLabels

\* Whatever else goes on, for any number of staff and runs, what was rejected or has
\* expired is never executed unless answers to this very request overlapped
\* (approval_service).
THEOREM TurnedDownIsNotExecutedHolds == Spec => TurnedDownIsNotExecuted
<1>1. ASSUME NEW d \in Decisions
      PROVE  Spec => ([]AnsweredAlone(d) =>
                        [](approval[d] \in {"REJECTED", "EXPIRED"} => result[d] = None))
  <2>1. Init => AnswersStand(d)
    BY ConstantsAssumption DEF Init, AnswersStand, Answering, Procs, ExecutorLabels
  <2>2. SafeInv /\ AnsweredAlone(d) /\ AnswersStand(d) /\ [Next]_vars => AnswersStand(d)'
    BY ExecutorAnswers, RunAnswers, RequestAnswers, EnvironmentAnswers DEF Next
  <2>3. AnswersStand(d) => (approval[d] \in {"REJECTED", "EXPIRED"} => result[d] = None)
    BY DEF AnswersStand
  <2>. QED
    BY <2>1, <2>2, <2>3, AlwaysSafe, PTL DEF Spec
<1>. QED
  BY <1>1 DEF TurnedDownIsNotExecuted
===============================================================================
