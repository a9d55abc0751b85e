----------------------------- MODULE CountingProofs -----------------------------
(***************************************************************************)
(* Proofs about what the controller counts.  The row of a run: its         *)
(* counters agree with its decisions between any two exceptions, and a run *)
(* that finished has left none of its decisions unrouted.  The hourly      *)
(* limit: it holds up to the sessions that check it together.              *)
(***************************************************************************)
EXTENDS ControllerProofs

----------------------------------------------------------------------------
(* The row of a run: the inductive invariant.                              *)

\* The labels at which a run may hold a decision that no branch has taken yet.
Unrouted == {"route", "escalate"} \cup ExecutorLabels

Counted(r, v) == Cardinality({e \in Exceptions : verdict[<<r, e>>] = v})
Decided(r)    == Cardinality({e \in Exceptions : verdict[<<r, e>>] # None})

\* The decision in hand, which the row does not count yet.
InHand(r)      == IF pc[r] \in Working THEN 1 ELSE 0
InHandAs(r, v) == IF pc[r] \in Working /\ verdict[job[r]] = v THEN 1 ELSE 0

RowAgrees(r) ==
  /\ tally[r].total = tally[r].processed + tally[r].failed + Cardinality(todo[r]) + InHand(r)
  /\ Decided(r) = tally[r].processed + InHand(r)
  /\ \A v \in Verdicts : Counted(r, v) = tally[r][CounterOf(v)] + InHandAs(r, v)

CountsOK(r) ==
  /\ pc[r] = "idle" => tally[r] = NoTally
  /\ pc[r] \notin {"idle", "dead"} => RowAgrees(r)
  /\ pc[r] \in Working => verdict[job[r]] # None
  /\ \A e \in Exceptions : decision[<<r, e>>] = "PENDING" =>
       pc[r] = "dead" \/ (pc[r] \in Unrouted /\ job[r] = <<r, e>>)
  /\ runStatus[r] \in {"COMPLETED", "PARTIAL"} => pc[r] = "done"
  /\ pc[r] = "done" => /\ todo[r] = {}
                       /\ runStatus[r] = "COMPLETED" <=> tally[r].failed = 0

CountsInv == \A r \in Runs : CountsOK(r)

\* Every set of exceptions is finite.
LEMMA SubsetsAreFinite ==
  ASSUME NEW S \in SUBSET Exceptions
  PROVE  IsFiniteSet(S) /\ Cardinality(S) \in Nat
BY ConstantsAssumption, FS_Subset, FS_CardinalityType

\* A decision in hand is one of its run's.
LEMMA HandIsOwn ==
  ASSUME SafeInv, NEW r \in Runs, pc[r] \in Working
  PROVE  \E e \in Exceptions : job[r] = <<r, e>>
BY RunHolds DEF Decisions

\* A step that neither moves a run nor writes its row, and leaves no decision of it
\* pending, keeps what its row says.
LEMMA RowUntouched ==
  ASSUME SafeInv, NEW r \in Runs, CountsOK(r),
         pc'[r] = pc[r], job'[r] = job[r], tally'[r] = tally[r], todo'[r] = todo[r],
         runStatus'[r] = runStatus[r],
         \A e \in Exceptions : verdict'[<<r, e>>] = verdict[<<r, e>>],
         \A e \in Exceptions : decision'[<<r, e>>] = "PENDING" => decision[<<r, e>>] = "PENDING"
  PROVE  CountsOK(r)'
<1>1. /\ \A v : {e \in Exceptions : verdict'[<<r, e>>] = v} = {e \in Exceptions : verdict[<<r, e>>] = v}
      /\ {e \in Exceptions : verdict'[<<r, e>>] # None} = {e \in Exceptions : verdict[<<r, e>>] # None}
  OBVIOUS
<1>2. \A v : Counted(r, v)' = Counted(r, v)
  BY <1>1 DEF Counted
<1>3. Decided(r)' = Decided(r)
  BY <1>1 DEF Decided
<1>4. pc[r] \in Working => verdict'[job'[r]] = verdict[job[r]]
  <2> SUFFICES ASSUME pc[r] \in Working PROVE verdict'[job'[r]] = verdict[job[r]]
    OBVIOUS
  <2>1. PICK e \in Exceptions : job[r] = <<r, e>>
    BY HandIsOwn
  <2> QED BY <2>1
<1>5. InHand(r)' = InHand(r) /\ \A v : InHandAs(r, v)' = InHandAs(r, v)
  BY <1>4 DEF InHand, InHandAs
<1>6. RowAgrees(r) => RowAgrees(r)'
  BY <1>2, <1>3, <1>5 DEF RowAgrees
<1> QED BY <1>4, <1>6 DEF CountsOK

\* So does a step of the run itself that keeps its decision in hand.
LEMMA HandKept ==
  ASSUME SafeInv, NEW r \in Runs, CountsOK(r),
         pc[r] \in Working, pc'[r] \in Working,
         job'[r] = job[r], tally'[r] = tally[r], todo'[r] = todo[r],
         runStatus'[r] = runStatus[r],
         \A e \in Exceptions : verdict'[<<r, e>>] = verdict[<<r, e>>],
         \A e \in Exceptions : decision'[<<r, e>>] = "PENDING" =>
           decision[<<r, e>>] = "PENDING" /\ pc'[r] \in Unrouted
  PROVE  CountsOK(r)'
<1>1. /\ \A v : {e \in Exceptions : verdict'[<<r, e>>] = v} = {e \in Exceptions : verdict[<<r, e>>] = v}
      /\ {e \in Exceptions : verdict'[<<r, e>>] # None} = {e \in Exceptions : verdict[<<r, e>>] # None}
  OBVIOUS
<1>2. \A v : Counted(r, v)' = Counted(r, v)
  BY <1>1 DEF Counted
<1>3. Decided(r)' = Decided(r)
  BY <1>1 DEF Decided
<1>4. verdict'[job'[r]] = verdict[job[r]]
  <2>1. PICK e \in Exceptions : job[r] = <<r, e>>
    BY HandIsOwn
  <2> QED BY <2>1
<1>5. InHand(r)' = InHand(r) /\ \A v : InHandAs(r, v)' = InHandAs(r, v)
  BY <1>4 DEF InHand, InHandAs
<1>6. pc[r] \notin {"idle", "dead", "done"} /\ pc'[r] \notin {"idle", "dead", "done"}
  BY DEF Working, StaffOnly, ExecutorLabels
<1>7. RowAgrees(r)'
  BY <1>2, <1>3, <1>5, <1>6 DEF RowAgrees, CountsOK
<1> QED BY <1>4, <1>6, <1>7 DEF CountsOK

\* A run that dies leaves its row as it is, for good.
LEMMA DeadRow ==
  ASSUME SafeInv, NEW r \in Runs, CountsOK(r), pc[r] # "done", pc'[r] = "dead",
         runStatus'[r] = runStatus[r]
  PROVE  CountsOK(r)'
BY DEF CountsOK, Working, StaffOnly, ExecutorLabels

----------------------------------------------------------------------------
(* The run itself.                                                         *)

\* A run that starts has an empty row, and lists what is eligible.
LEMMA StartCounts ==
  ASSUME SafeInv, NEW r \in Runs, CountsOK(r), StartRun(r)
  PROVE  CountsOK(r)'
<1>1. /\ pc[r] = "idle" /\ pc'[r] = "decide" /\ todo'[r] = Eligible
      /\ tally'[r] = [NoTally EXCEPT !["total"] = Cardinality(Eligible)]
      /\ runStatus'[r] = "RUNNING"
      /\ UNCHANGED <<verdict, decision>>
  BY DEF StartRun, CountsOK, SafeInv, TypeInv, TypeOK, Procs
<1>2. \A e \in Exceptions : verdict'[<<r, e>>] = None
  BY <1>1 DEF SafeInv, RowsFollow, Decisions
<1>3. Cardinality(Eligible) \in Nat
  BY SubsetsAreFinite DEF Eligible
<1>4. /\ tally'[r].total = Cardinality(Eligible)
      /\ \A c \in Counters \ {"total"} : tally'[r][c] = 0
  BY <1>1 DEF NoTally, Counters
<1>5. /\ pc'[r] \notin Working
      /\ \A v \in Verdicts : CounterOf(v) \in Counters \ {"total"}
  BY <1>1 DEF Working, StaffOnly, ExecutorLabels, Verdicts, CounterOf, Counters
<1>6. Cardinality({}) = 0
  BY FS_EmptySet
<1>7. Decided(r)' = 0 /\ \A v \in Verdicts : Counted(r, v)' = 0
  <2>1. {e \in Exceptions : verdict'[<<r, e>>] # None} = {}
    BY <1>2
  <2>2. ASSUME NEW v \in Verdicts
        PROVE  {e \in Exceptions : verdict'[<<r, e>>] = v} = {}
    BY <1>2, ConstantsAssumption
  <2> QED BY <1>6, <2>1, <2>2 DEF Decided, Counted
<1>8. RowAgrees(r)'
  BY <1>1, <1>3, <1>4, <1>5, <1>7 DEF RowAgrees, InHand, InHandAs, Counters
<1> QED BY <1>1, <1>5, <1>8 DEF CountsOK, Unrouted, ExecutorLabels

\* A decision takes one exception off the list and holds it, counted nowhere yet.
LEMMA DecideCounts ==
  ASSUME SafeInv, NEW r \in Runs, CountsOK(r), Decide(r)
  PROVE  CountsOK(r)'
<1>0. TypeOK /\ r \in Procs
  BY DEF SafeInv, TypeInv, Procs
<1>1. PICK x \in todo[r], prop \in Proposals :
        /\ verdict' = [verdict EXCEPT ![<<r, x>>] = prop[1]]
        /\ decision' = [decision EXCEPT ![<<r, x>>] = "PENDING"]
        /\ job' = [job EXCEPT ![r] = <<r, x>>]
        /\ todo' = [todo EXCEPT ![r] = @ \ {x}]
  BY DEF Decide
<1>2. /\ pc[r] = "decide" /\ pc'[r] = "route"
      /\ UNCHANGED <<tally, runStatus>>
  BY <1>0 DEF Decide, TypeOK
<1>3. /\ x \in Exceptions /\ <<r, x>> \in Decisions /\ todo[r] \in SUBSET Exceptions
      /\ prop[1] \in Verdicts
  BY <1>0, <1>1, ConstantsAssumption DEF TypeOK, Decisions
<1>4. verdict[<<r, x>>] = None
  BY <1>1, <1>3 DEF SafeInv, RowsFollow
<1>5. /\ verdict'[<<r, x>>] = prop[1]
      /\ \A e \in Exceptions \ {x} : verdict'[<<r, e>>] = verdict[<<r, e>>]
      /\ job'[r] = <<r, x>> /\ todo'[r] = todo[r] \ {x}
      /\ \A e \in Exceptions \ {x} : decision'[<<r, e>>] = decision[<<r, e>>]
  BY <1>0, <1>1, <1>3 DEF TypeOK, Decisions
<1>6. pc[r] \notin Working /\ pc'[r] \in Working
  BY <1>2 DEF Working, StaffOnly, ExecutorLabels
<1>7. /\ Cardinality(todo'[r]) = Cardinality(todo[r]) - 1
      /\ Cardinality(todo[r]) \in Nat /\ Cardinality(todo'[r]) \in Nat
  <2>1. IsFiniteSet(todo[r]) /\ Cardinality(todo[r]) \in Nat
    BY <1>3, SubsetsAreFinite
  <2>2. Cardinality(todo[r] \ {x}) = Cardinality(todo[r]) - 1
    BY <1>1, <2>1, FS_RemoveElement
  <2>3. Cardinality(todo'[r]) \in Nat
    BY <1>3, <1>5, SubsetsAreFinite
  <2> QED BY <1>5, <2>1, <2>2, <2>3
<1>8. Decided(r)' = Decided(r) + 1
  <2> DEFINE S == {e \in Exceptions : verdict[<<r, e>>] # None}
  <2>1. {e \in Exceptions : verdict'[<<r, e>>] # None} = S \cup {x} /\ x \notin S
    BY <1>3, <1>4, <1>5, ConstantsAssumption
  <2>2. IsFiniteSet(S)
    BY SubsetsAreFinite
  <2> HIDE DEF S
  <2>3. Cardinality(S \cup {x}) = Cardinality(S) + 1
    BY <2>1, <2>2, FS_AddElement
  <2> QED BY <2>1, <2>3 DEF Decided, S
<1>9. ASSUME NEW v \in Verdicts
      PROVE  Counted(r, v)' = Counted(r, v) + (IF prop[1] = v THEN 1 ELSE 0)
  <2> DEFINE S == {e \in Exceptions : verdict[<<r, e>>] = v}
             T == {e \in Exceptions : verdict'[<<r, e>>] = v}
  <2>1. Counted(r, v) = Cardinality(S) /\ Counted(r, v)' = Cardinality(T)
    BY DEF Counted
  <2>2. IsFiniteSet(S) /\ Cardinality(S) \in Nat
    BY SubsetsAreFinite
  <2>3. CASE prop[1] = v
    <3>1. T = S \cup {x} /\ x \notin S
      BY <1>3, <1>4, <1>5, <2>3, ConstantsAssumption
    <3> HIDE DEF S, T
    <3>2. Cardinality(S \cup {x}) = Cardinality(S) + 1
      BY <2>2, <3>1, FS_AddElement
    <3> QED BY <2>1, <2>3, <3>1, <3>2
  <2>4. CASE prop[1] # v
    <3>1. T = S
      BY <1>3, <1>4, <1>5, <2>4, ConstantsAssumption
    <3> HIDE DEF S, T
    <3> QED BY <2>1, <2>2, <2>4, <3>1
  <2> QED BY <2>3, <2>4
<1>10. RowAgrees(r)'
  <2>1. RowAgrees(r)
    BY <1>2 DEF CountsOK
  <2>2. tally[r] \in [Counters -> Nat] /\ Counted(r, None) = Counted(r, None)
    BY <1>0 DEF TypeOK
  <2>3. /\ InHand(r) = 0 /\ InHand(r)' = 1
        /\ \A v \in Verdicts : InHandAs(r, v) = 0 /\ InHandAs(r, v)' = (IF prop[1] = v THEN 1 ELSE 0)
    BY <1>5, <1>6 DEF InHand, InHandAs
  <2>4. tally'[r].total = tally'[r].processed + tally'[r].failed + Cardinality(todo'[r]) + 1
    BY <1>2, <1>7, <2>1, <2>2, <2>3 DEF RowAgrees, Counters
  <2>5. Decided(r)' = tally'[r].processed + 1
    BY <1>2, <1>8, <2>1, <2>2, <2>3 DEF RowAgrees, Counters
  <2>6. ASSUME NEW v \in Verdicts
        PROVE  Counted(r, v)' = tally'[r][CounterOf(v)] + InHandAs(r, v)'
    <3>1. CounterOf(v) \in Counters
      BY DEF Verdicts, CounterOf, Counters
    <3> QED BY <1>2, <1>9, <2>1, <2>2, <2>3, <3>1 DEF RowAgrees
  <2> QED BY <2>3, <2>4, <2>5, <2>6 DEF RowAgrees
<1>11. \A e \in Exceptions : decision'[<<r, e>>] = "PENDING" => job'[r] = <<r, e>> /\ pc'[r] \in Unrouted
  BY <1>2, <1>5 DEF CountsOK, Unrouted, ExecutorLabels
<1> QED
  <2>1. verdict'[job'[r]] # None
    BY <1>3, <1>5, ConstantsAssumption
  <2> QED BY <1>2, <1>10, <1>11, <2>1 DEF CountsOK

\* A decision that fails is counted as failed and off the list.
LEMMA FailureCounts ==
  ASSUME SafeInv, NEW r \in Runs, CountsOK(r), DecideFails(r)
  PROVE  CountsOK(r)'
<1>0. TypeOK
  BY DEF SafeInv, TypeInv
<1>1. PICK x \in todo[r] : todo' = [todo EXCEPT ![r] = @ \ {x}]
  BY DEF DecideFails
<1>2. /\ pc[r] = "decide" /\ UNCHANGED <<pc, job, verdict, decision, runStatus>>
      /\ tally'[r] = [tally[r] EXCEPT !["failed"] = @ + 1]
  BY <1>0 DEF DecideFails, TypeOK
<1>3. todo'[r] = todo[r] \ {x} /\ todo[r] \in SUBSET Exceptions
  BY <1>0, <1>1 DEF TypeOK
<1>4. Cardinality(todo'[r]) = Cardinality(todo[r]) - 1 /\ Cardinality(todo[r]) \in Nat
  BY <1>1, <1>3, SubsetsAreFinite, FS_RemoveElement
<1>5. tally[r] \in [Counters -> Nat]
  BY <1>0 DEF TypeOK
<1>6. /\ tally'[r].failed = tally[r].failed + 1
      /\ \A c \in Counters \ {"failed"} : tally'[r][c] = tally[r][c]
  BY <1>2, <1>5 DEF Counters
<1>7. \A v \in Verdicts : CounterOf(v) \in Counters \ {"failed"}
  BY DEF Verdicts, CounterOf, Counters
<1>8. /\ InHand(r)' = InHand(r) /\ Decided(r)' = Decided(r)
      /\ \A v : InHandAs(r, v)' = InHandAs(r, v) /\ Counted(r, v)' = Counted(r, v)
  BY <1>2 DEF InHand, InHandAs, Decided, Counted
<1>9. RowAgrees(r)'
  <2>1. RowAgrees(r) /\ InHand(r) \in Nat
    BY <1>2 DEF CountsOK, InHand
  <2>2. tally'[r].total = tally'[r].processed + tally'[r].failed + Cardinality(todo'[r]) + InHand(r)'
    BY <1>4, <1>5, <1>6, <1>8, <2>1 DEF RowAgrees, Counters
  <2>3. /\ Decided(r)' = tally'[r].processed + InHand(r)'
        /\ \A v \in Verdicts : Counted(r, v)' = tally'[r][CounterOf(v)] + InHandAs(r, v)'
    BY <1>6, <1>7, <1>8, <2>1 DEF RowAgrees, Counters
  <2> QED BY <2>2, <2>3 DEF RowAgrees
<1> QED BY <1>2, <1>9 DEF CountsOK, Working, StaffOnly, ExecutorLabels

\* The decision in hand is counted under its branch, and let go.
LEMMA AccountCounts ==
  ASSUME SafeInv, NEW r \in Runs, CountsOK(r), Account(r)
  PROVE  CountsOK(r)'
<1>0. TypeOK /\ r \in Procs
  BY DEF SafeInv, TypeInv, Procs
<1>1. pc[r] = "account" /\ pc[r] \in Working
  BY DEF Account, Working
<1>2. PICK x \in Exceptions : job[r] = <<r, x>>
  BY <1>1, HandIsOwn
<1>3. PICK b : b = CounterOf(verdict[job[r]])
  OBVIOUS
<1>4. verdict[job[r]] \in Verdicts /\ b \in Counters \ {"total", "processed", "failed"}
  <2>1. verdict[job[r]] \in Verdicts
    BY <1>0, <1>1, <1>2 DEF CountsOK, TypeOK, Decisions
  <2> QED BY <1>3, <2>1 DEF Verdicts, CounterOf, Counters
<1>5. /\ pc'[r] = "decide" /\ UNCHANGED <<verdict, decision, runStatus, todo>>
      /\ tally'[r] = [tally[r] EXCEPT !["processed"] = @ + 1, ![b] = @ + 1]
  BY <1>0, <1>3 DEF Account, TypeOK
<1>6. tally[r] \in [Counters -> Nat]
  BY <1>0 DEF TypeOK
<1>7. /\ tally'[r].processed = tally[r].processed + 1
      /\ tally'[r][b] = tally[r][b] + 1
      /\ \A c \in Counters \ {"processed", b} : tally'[r][c] = tally[r][c]
  BY <1>4, <1>5, <1>6 DEF Counters
<1>8. pc'[r] \notin Working
  BY <1>5 DEF Working, StaffOnly, ExecutorLabels
<1>9. /\ InHand(r) = 1 /\ InHand(r)' = 0 /\ Decided(r)' = Decided(r)
      /\ \A v : Counted(r, v)' = Counted(r, v) /\ InHandAs(r, v)' = 0
      /\ \A v : InHandAs(r, v) = (IF verdict[job[r]] = v THEN 1 ELSE 0)
  BY <1>1, <1>5, <1>8 DEF InHand, InHandAs, Decided, Counted
<1>10. RowAgrees(r)'
  <2>1. RowAgrees(r)
    BY <1>1 DEF CountsOK
  <2>2. Cardinality(todo[r]) \in Nat /\ todo'[r] = todo[r]
    BY <1>0, <1>5, SubsetsAreFinite DEF TypeOK
  <2>3. tally'[r].total = tally[r].total /\ tally'[r].failed = tally[r].failed
    BY <1>4, <1>7 DEF Counters
  <2>4. tally'[r].total = tally'[r].processed + tally'[r].failed + Cardinality(todo'[r]) + 0
    BY <1>6, <1>7, <1>9, <2>1, <2>2, <2>3 DEF RowAgrees, Counters
  <2>5. Decided(r)' = tally'[r].processed + 0
    BY <1>6, <1>7, <1>9, <2>1 DEF RowAgrees, Counters
  <2>6. ASSUME NEW v \in Verdicts
        PROVE  Counted(r, v)' = tally'[r][CounterOf(v)] + 0
    <3>1. CASE verdict[job[r]] = v
      <4>1. CounterOf(v) = b /\ tally[r][b] \in Nat
        BY <1>3, <1>4, <1>6, <3>1
      <4>2. Counted(r, v) = tally[r][b] + 1
        BY <1>9, <2>1, <3>1, <4>1 DEF RowAgrees
      <4> QED BY <1>7, <1>9, <4>1, <4>2
    <3>2. CASE verdict[job[r]] # v
      <4>1. CounterOf(v) \in Counters \ {"processed", b}
        BY <1>3, <1>4, <3>2 DEF CounterOf, Verdicts, Counters
      <4>2. Counted(r, v) = tally[r][CounterOf(v)] + 0
        BY <1>9, <2>1, <3>2 DEF RowAgrees
      <4> QED BY <1>7, <1>9, <4>1, <4>2
    <3> QED BY <3>1, <3>2
  <2> QED BY <1>9, <2>4, <2>5, <2>6 DEF RowAgrees
<1>11. \A e \in Exceptions : decision'[<<r, e>>] # "PENDING"
  BY <1>1, <1>5 DEF CountsOK, Unrouted, ExecutorLabels
<1> QED BY <1>1, <1>5, <1>8, <1>10, <1>11 DEF CountsOK

\* A branch that ends at once, or goes on to the executor or the escalation, keeps the
\* decision in hand; the end marks it.
LEMMA RouteCounts ==
  ASSUME SafeInv, NEW r \in Runs, CountsOK(r),
         \/ RouteDryRun(r) \/ RouteToExecutor(r) \/ RouteToApproval(r)
         \/ RouteToEscalation(r) \/ Escalate(r) \/ RouteToBlock(r)
  PROVE  CountsOK(r)'
<1>0. TypeOK /\ r \in Procs
  BY DEF SafeInv, TypeInv, Procs
<1>1. /\ pc[r] \in {"route", "escalate"} /\ pc[r] \in Working
      /\ UNCHANGED <<job, tally, todo, runStatus, verdict>>
      /\ \/ pc'[r] \in {"idem", "escalate"} /\ UNCHANGED decision
         \/ pc'[r] = "account" /\ \E s \in DecisionStatuses \ {"PENDING"} :
                                    decision' = [decision EXCEPT ![job[r]] = s]
  BY <1>0 DEF RouteDryRun, RouteToExecutor, RouteToApproval, RouteToEscalation, Escalate,
              RouteToBlock, DryRunStatus, DecisionStatuses, tables, TypeOK, Working
<1>2. PICK x \in Exceptions : job[r] = <<r, x>>
  BY <1>1, HandIsOwn
<1>3. pc'[r] \in Working
  BY <1>1 DEF Working, ExecutorLabels
<1>4. ASSUME NEW e \in Exceptions, decision'[<<r, e>>] = "PENDING"
      PROVE  decision[<<r, e>>] = "PENDING" /\ pc'[r] \in Unrouted
  <2>1. CASE UNCHANGED decision /\ pc'[r] \in {"idem", "escalate"}
    BY <1>4, <2>1 DEF Unrouted, ExecutorLabels
  <2>2. CASE \E s \in DecisionStatuses \ {"PENDING"} : decision' = [decision EXCEPT ![job[r]] = s]
    <3>1. e # x /\ decision[<<r, e>>] = "PENDING"
      BY <1>0, <1>2, <1>4, <2>2 DEF TypeOK, Decisions
    <3>2. job[r] = <<r, e>>
      BY <1>1, <3>1 DEF CountsOK
    <3> QED BY <1>2, <3>1, <3>2
  <2> QED BY <1>1, <2>1, <2>2
<1> QED BY <1>1, <1>3, <1>4, HandKept

\* A run finishes with an empty list, and says whether anything failed.
LEMMA FinalizeCounts ==
  ASSUME SafeInv, NEW r \in Runs, CountsOK(r), FinalizeRun(r)
  PROVE  CountsOK(r)'
<1>0. TypeOK /\ r \in Procs
  BY DEF SafeInv, TypeInv, Procs
<1>1. /\ pc[r] = "decide" /\ pc'[r] = "done" /\ todo[r] = {}
      /\ UNCHANGED <<verdict, decision, tally, todo, job>>
      /\ runStatus'[r] = IF tally[r].failed > 0 THEN "PARTIAL" ELSE "COMPLETED"
  BY <1>0 DEF FinalizeRun, FinalStatus, MayFinalize, TypeOK
<1>2. pc[r] \notin Working /\ pc'[r] \notin Working
  BY <1>1 DEF Working, StaffOnly, ExecutorLabels
<1>3. /\ InHand(r)' = InHand(r) /\ Decided(r)' = Decided(r)
      /\ \A v : InHandAs(r, v)' = InHandAs(r, v) /\ Counted(r, v)' = Counted(r, v)
  BY <1>1, <1>2 DEF InHand, InHandAs, Decided, Counted
<1>4. RowAgrees(r)'
  BY <1>1, <1>3 DEF CountsOK, RowAgrees
<1>5. runStatus'[r] = "COMPLETED" <=> tally'[r].failed = 0
  BY <1>0, <1>1 DEF TypeOK, Counters
<1>6. \A e \in Exceptions : decision'[<<r, e>>] # "PENDING"
  BY <1>1 DEF CountsOK, Unrouted, ExecutorLabels
<1> QED BY <1>1, <1>2, <1>4, <1>5, <1>6 DEF CountsOK

\* In the executor a run keeps its decision in hand until it is marked, or dies.
LEMMA ExecutorCounts ==
  ASSUME SafeInv, NEW r \in Runs, CountsOK(r), ExecuteAction(r)
  PROVE  CountsOK(r)'
<1>0. TypeOK /\ r \in Procs
  BY DEF SafeInv, TypeInv, Procs
<1>1. /\ pc[r] \in ExecutorLabels /\ pc[r] \in Working
      /\ UNCHANGED <<tally, todo, runStatus, verdict>>
  BY DEF ExecuteAction, FindKey, MissKey, CheckKillSwitch, RefuseByKillSwitch,
         CheckRateLimits, RefuseByRateLimit, RecordRefusal, CommitAction, LoseToKey,
         MarkExecuted, tables, ExecutorLabels, Working
<1>2. PICK x \in Exceptions : job[r] = <<r, x>>
  BY <1>1, HandIsOwn
<1>3. \/ pc'[r] \in ExecutorLabels /\ job'[r] = job[r] /\ UNCHANGED decision
      \/ pc'[r] = "account" /\ job'[r] = job[r] /\ decision'[job[r]] = "EXECUTED"
           /\ (UNCHANGED decision \/ decision' = [decision EXCEPT ![job[r]] = "EXECUTED"])
      \/ pc'[r] = "dead"
  BY <1>0, <1>2 DEF ExecuteAction, FindKey, MissKey, CheckKillSwitch, RefuseByKillSwitch,
         CheckRateLimits, RefuseByRateLimit, RecordRefusal, CommitAction, LoseToKey,
         MarkExecuted, tables, ExecutorLabels, Finish, Returned, ToMark, Abandon, TypeOK,
         Decisions
<1>4. CASE pc'[r] = "dead"
  BY <1>1, <1>4, DeadRow DEF ExecutorLabels
<1>5. CASE pc'[r] # "dead"
  <2>1. pc'[r] \in Working /\ job'[r] = job[r]
    BY <1>3, <1>5 DEF Working
  <2>2. ASSUME NEW e \in Exceptions, decision'[<<r, e>>] = "PENDING"
        PROVE  decision[<<r, e>>] = "PENDING" /\ pc'[r] \in Unrouted
    <3>1. CASE pc'[r] \in ExecutorLabels
      BY <1>3, <2>2, <3>1 DEF Unrouted, ExecutorLabels
    <3>2. CASE pc'[r] = "account"
      <4>1. e # x /\ decision[<<r, e>>] = "PENDING"
        BY <1>0, <1>2, <1>3, <2>2, <3>2 DEF TypeOK, Decisions, ExecutorLabels
      <4>2. job[r] = <<r, e>>
        BY <1>1, <4>1 DEF CountsOK, ExecutorLabels
      <4> QED BY <1>2, <4>1, <4>2
    <3> QED BY <1>3, <1>5, <3>1, <3>2
  <2> QED BY <1>1, <2>1, <2>2, HandKept
<1> QED BY <1>4, <1>5

----------------------------------------------------------------------------
(* The others.                                                             *)

\* Another session, a request or the environment touches no row of the run, and makes
\* none of its decisions pending.
LEMMA OthersCount ==
  ASSUME SafeInv, NEW r \in Runs, CountsOK(r),
         \/ \E x \in Runs \ {r} : StartRun(x) \/ RunStep(x) \/ ExecuteAction(x) \/ Crash(x)
         \/ \E q \in Staff : \/ \E d \in Decisions : BeginRequest(q, d)
                             \/ RequestStep(q) \/ ExecuteAction(q) \/ Crash(q)
         \/ TurnOnKillSwitch \/ TurnOffKillSwitch \/ PassHour
         \/ \E e \in Exceptions : PatchException(e)
         \/ \E d \in Decisions : PassDeadline(d)
         \/ UNCHANGED vars
  PROVE  CountsOK(r)'
<1>0. TypeOK /\ r \in Procs /\ r \notin Staff
  BY ConstantsAssumption DEF SafeInv, TypeInv, Procs
<1> DEFINE Untouched == /\ pc'[r] = pc[r] /\ job'[r] = job[r] /\ tally'[r] = tally[r]
                        /\ todo'[r] = todo[r] /\ runStatus'[r] = runStatus[r]
           Harmless  == \A e \in Exceptions :
                          /\ verdict'[<<r, e>>] = verdict[<<r, e>>]
                          /\ decision'[<<r, e>>] = "PENDING" => decision[<<r, e>>] = "PENDING"
<1>1. SUFFICES Untouched /\ Harmless
  BY RowUntouched
<1>2. ASSUME NEW x \in Runs \ {r}, StartRun(x)
      PROVE  Untouched /\ Harmless
  BY <1>0, <1>2 DEF StartRun
<1>3. ASSUME NEW x \in Runs \ {r}, Decide(x)
      PROVE  Untouched /\ Harmless
  <2>1. PICK e \in todo[x], prop \in Proposals :
          /\ verdict' = [verdict EXCEPT ![<<x, e>>] = prop[1]]
          /\ decision' = [decision EXCEPT ![<<x, e>>] = "PENDING"]
          /\ job' = [job EXCEPT ![x] = <<x, e>>]
          /\ todo' = [todo EXCEPT ![x] = @ \ {e}]
          /\ pc' = [pc EXCEPT ![x] = "route"]
          /\ UNCHANGED <<tally, runStatus>>
    BY <1>3 DEF Decide
  <2>2. Untouched
    BY <1>0, <2>1
  <2>3. Harmless
    BY <1>0, <2>1 DEF TypeOK, Decisions
  <2> QED BY <2>2, <2>3
<1>4. ASSUME NEW x \in Runs \ {r}, RunStep(x), ~Decide(x)
      PROVE  Untouched /\ Harmless
  <2>1. Untouched
    <3>1. \E n, t, s, l : /\ pc' = [pc EXCEPT ![x] = n] \/ UNCHANGED pc
                          /\ tally' = [tally EXCEPT ![x] = t] \/ UNCHANGED tally
                          /\ todo' = [todo EXCEPT ![x] = l] \/ UNCHANGED todo
                          /\ runStatus' = [runStatus EXCEPT ![x] = s] \/ UNCHANGED runStatus
      BY <1>0, <1>4
         DEF RunStep, DecideFails, RouteDryRun, RouteToExecutor, RouteToApproval,
             RouteToEscalation, Escalate, RouteToBlock, Account, FinalizeRun, tables, TypeOK
    <3>2. UNCHANGED job \/ job' = [job EXCEPT ![x] = None]
      BY <1>4
         DEF RunStep, DecideFails, RouteDryRun, RouteToExecutor, RouteToApproval,
             RouteToEscalation, Escalate, RouteToBlock, Account, FinalizeRun
    <3> QED BY <1>0, <3>1, <3>2 DEF TypeOK
  <2>2. /\ UNCHANGED verdict
        /\ \/ UNCHANGED decision
           \/ \E s \in DecisionStatuses \ {"PENDING"} : decision' = [decision EXCEPT ![job[x]] = s]
    BY <1>4
       DEF RunStep, DecideFails, RouteDryRun, RouteToExecutor, RouteToApproval,
           RouteToEscalation, Escalate, RouteToBlock, Account, FinalizeRun, tables,
           DryRunStatus, DecisionStatuses
  <2>3. Harmless
    BY <1>0, <2>2 DEF TypeOK, Decisions
  <2> QED BY <2>1, <2>3
<1>5. ASSUME NEW x \in Procs \ {r}, ExecuteAction(x)
      PROVE  Untouched /\ Harmless
  <2>1. Untouched
    <3>1. /\ \E n : pc' = [pc EXCEPT ![x] = n]
          /\ UNCHANGED job \/ \E n : job' = [job EXCEPT ![x] = n]
      BY <1>5
         DEF ExecuteAction, FindKey, MissKey, CheckKillSwitch, RefuseByKillSwitch,
             CheckRateLimits, RefuseByRateLimit, RecordRefusal, CommitAction, LoseToKey,
             MarkExecuted, tables, Finish, ToMark, Abandon
    <3>2. UNCHANGED <<tally, todo, runStatus>>
      BY <1>5
         DEF ExecuteAction, FindKey, MissKey, CheckKillSwitch, RefuseByKillSwitch,
             CheckRateLimits, RefuseByRateLimit, RecordRefusal, CommitAction, LoseToKey,
             MarkExecuted, tables
    <3> QED BY <1>0, <3>1, <3>2 DEF TypeOK
  <2>2. /\ UNCHANGED verdict
        /\ UNCHANGED decision \/ decision' = [decision EXCEPT ![job[x]] = "EXECUTED"]
    BY <1>5
       DEF ExecuteAction, FindKey, MissKey, CheckKillSwitch, RefuseByKillSwitch,
           CheckRateLimits, RefuseByRateLimit, RecordRefusal, CommitAction, LoseToKey,
           MarkExecuted, tables
  <2>3. Harmless
    BY <1>0, <2>2 DEF TypeOK, Decisions
  <2> QED BY <2>1, <2>3
<1>6. ASSUME NEW x \in Procs \ {r}, Crash(x)
      PROVE  Untouched /\ Harmless
  BY <1>0, <1>6 DEF Crash, Abandon, tables
<1>7. ASSUME NEW q \in Staff, \E d \in Decisions : BeginRequest(q, d)
      PROVE  Untouched /\ Harmless
  <2>1. q # r
    BY <1>0
  <2>2. /\ \E n, d : pc' = [pc EXCEPT ![q] = n] /\ job' = [job EXCEPT ![q] = d]
        /\ UNCHANGED <<tally, todo, runStatus, verdict, decision>>
    BY <1>7 DEF BeginRequest, BeginApprove, BeginExpire, BeginReject, BeginRollback,
                Begin, tables
  <2> QED BY <2>1, <2>2
<1>8. ASSUME NEW q \in Staff, RequestStep(q)
      PROVE  Untouched /\ Harmless
  <2>1. Untouched
    <3>1. q # r
      BY <1>0
    <3>2. /\ \E n : pc' = [pc EXCEPT ![q] = n]
          /\ UNCHANGED job \/ job' = [job EXCEPT ![q] = None]
          /\ UNCHANGED <<tally, todo, runStatus>>
      BY <1>8 DEF RequestStep, CommitExpiry, CommitApproval, CommitRejection, CommitRollback
    <3> QED BY <1>0, <3>1, <3>2 DEF TypeOK
  <2>2. /\ UNCHANGED verdict
        /\ UNCHANGED decision \/ decision' = [decision EXCEPT ![job[q]] = "REJECTED"]
    BY <1>8 DEF RequestStep, CommitExpiry, CommitApproval, CommitRejection, CommitRollback
  <2>3. Harmless
    BY <1>0, <2>2 DEF TypeOK, Decisions
  <2> QED BY <2>1, <2>3
<1>9. CASE \/ TurnOnKillSwitch \/ TurnOffKillSwitch \/ PassHour
           \/ \E e \in Exceptions : PatchException(e)
           \/ \E d \in Decisions : PassDeadline(d)
           \/ UNCHANGED vars
  BY <1>9 DEF TurnOnKillSwitch, TurnOffKillSwitch, PassHour, PatchException, PassDeadline,
              tables, sessions, vars
<1>10. \A x \in Runs \ {r} : x \in Procs \ {r}
  BY DEF Procs
<1>11. \A q \in Staff : q \in Procs \ {r}
  BY <1>0 DEF Procs
<1> QED BY <1>2, <1>3, <1>4, <1>5, <1>6, <1>7, <1>8, <1>9, <1>10, <1>11

\* No run has a row before it starts.
LEMMA CountsInit == Init => CountsInv
<1> SUFFICES ASSUME Init, NEW r \in Runs PROVE CountsOK(r)
  BY DEF CountsInv
<1>1. pc[r] = "idle" /\ tally[r] = NoTally /\ runStatus[r] = None
  BY DEF Init, Procs
<1>2. \A e \in Exceptions : decision[<<r, e>>] = None
  BY DEF Init, Decisions
<1>3. None \notin {"PENDING", "COMPLETED", "PARTIAL"}
  BY ConstantsAssumption DEF DecisionStatuses, RunStatuses
<1> QED BY <1>1, <1>2, <1>3 DEF CountsOK, Working, StaffOnly, ExecutorLabels

\* Every step keeps the rows of all runs.
LEMMA CountsNext == SafeInv /\ CountsInv /\ [Next]_vars => CountsInv'
<1> SUFFICES ASSUME SafeInv, CountsInv, [Next]_vars, NEW r \in Runs PROVE CountsOK(r)'
  BY DEF CountsInv
<1>0. CountsOK(r) /\ r \in Procs
  BY DEF CountsInv, Procs
<1>1. CASE StartRun(r)
  BY <1>0, <1>1, StartCounts
<1>2. CASE RunStep(r)
  BY <1>0, <1>2, DecideCounts, FailureCounts, AccountCounts, RouteCounts, FinalizeCounts DEF RunStep
<1>3. CASE ExecuteAction(r)
  BY <1>0, <1>3, ExecutorCounts
<1>4. CASE Crash(r)
  <2>1. pc[r] # "done" /\ pc'[r] = "dead" /\ runStatus'[r] = runStatus[r]
    BY <1>0, <1>4 DEF Crash, Abandon, tables, SafeInv, TypeInv, TypeOK
  <2> QED BY <1>0, <2>1, DeadRow
<1>5. CASE ~(StartRun(r) \/ RunStep(r) \/ ExecuteAction(r) \/ Crash(r))
  <2>1. \/ \E x \in Runs \ {r} : StartRun(x) \/ RunStep(x) \/ ExecuteAction(x) \/ Crash(x)
        \/ \E q \in Staff : \/ \E d \in Decisions : BeginRequest(q, d)
                            \/ RequestStep(q) \/ ExecuteAction(q) \/ Crash(q)
        \/ TurnOnKillSwitch \/ TurnOffKillSwitch \/ PassHour
        \/ \E e \in Exceptions : PatchException(e)
        \/ \E d \in Decisions : PassDeadline(d)
        \/ UNCHANGED vars
    BY <1>5 DEF Next, Environment, Procs
  <2> QED BY <1>0, <2>1, OthersCount
<1> QED BY <1>1, <1>2, <1>3, <1>4, <1>5

\* The rows agree with their decisions in every reachable state.
LEMMA AlwaysCounts == Spec => []CountsInv
BY CountsInit, CountsNext, AlwaysSafe, PTL DEF Spec

\* For any exceptions, runs, staff, crashes and proposals, a run's counters are those of
\* its decisions whenever it is between two exceptions.
THEOREM RunCountsAgreeHolds == Spec => []RunCountsAgree
<1>1. SafeInv /\ CountsInv => RunCountsAgree
  <2> SUFFICES ASSUME SafeInv, CountsInv, NEW r \in Runs, pc[r] \in {"decide", "done"}
               PROVE  /\ tally[r].total = tally[r].processed + tally[r].failed + Cardinality(todo[r])
                      /\ tally[r].auto_executed = Counted(r, "AUTO_EXECUTE")
                      /\ tally[r].recommended = Counted(r, "RECOMMEND")
                      /\ tally[r].escalated = Counted(r, "ESCALATE")
                      /\ tally[r].blocked = Counted(r, "BLOCK")
                      /\ tally[r].processed = Decided(r)
    BY DEF RunCountsAgree, Counted, Decided
  <2>1. RowAgrees(r) /\ pc[r] \notin Working
    BY DEF CountsInv, CountsOK, Working, StaffOnly, ExecutorLabels
  <2>2. InHand(r) = 0 /\ \A v \in Verdicts : InHandAs(r, v) = 0
    BY <2>1 DEF InHand, InHandAs
  <2>3. /\ CounterOf("AUTO_EXECUTE") = "auto_executed" /\ CounterOf("RECOMMEND") = "recommended"
        /\ CounterOf("ESCALATE") = "escalated" /\ CounterOf("BLOCK") = "blocked"
    BY DEF CounterOf
  <2>4. tally[r] \in [Counters -> Nat] /\ Cardinality(todo[r]) \in Nat
    BY SubsetsAreFinite DEF SafeInv, TypeInv, TypeOK
  <2>5. \A v \in Verdicts : Counted(r, v) = tally[r][CounterOf(v)] + 0
    BY <2>1, <2>2 DEF RowAgrees
  <2>6. \A v \in Verdicts : CounterOf(v) \in Counters
    BY DEF CounterOf, Verdicts, Counters
  <2>7. \A v \in Verdicts : Counted(r, v) = tally[r][CounterOf(v)]
    BY <2>4, <2>5, <2>6
  <2>8. /\ tally[r].total = tally[r].processed + tally[r].failed + Cardinality(todo[r])
        /\ Decided(r) = tally[r].processed
    BY <2>1, <2>2, <2>4 DEF RowAgrees, Counters
  <2> QED BY <2>3, <2>7, <2>8 DEF Verdicts
<1> QED BY <1>1, AlwaysSafe, AlwaysCounts, PTL

\* A run that says COMPLETED or PARTIAL has routed all it decided, and says COMPLETED
\* exactly when nothing failed.
THEOREM FinishedRunIsSettledHolds == Spec => []FinishedRunIsSettled
<1>1. SafeInv /\ CountsInv => FinishedRunIsSettled
  <2> SUFFICES ASSUME SafeInv, CountsInv, NEW r \in Runs, runStatus[r] \in {"COMPLETED", "PARTIAL"}
               PROVE  /\ todo[r] = {}
                      /\ \A e \in Exceptions : decision[<<r, e>>] # "PENDING"
                      /\ runStatus[r] = "COMPLETED" <=> tally[r].processed = tally[r].total
    BY DEF FinishedRunIsSettled
  <2>1. CountsOK(r) /\ pc[r] = "done" /\ RowAgrees(r) /\ tally[r] \in [Counters -> Nat]
    BY DEF CountsInv, CountsOK, SafeInv, TypeInv, TypeOK
  <2>2. todo[r] = {} /\ (runStatus[r] = "COMPLETED" <=> tally[r].failed = 0)
    BY <2>1 DEF CountsOK
  <2>3. Cardinality(todo[r]) = 0 /\ InHand(r) = 0
    BY <2>1, <2>2, FS_EmptySet DEF InHand, Working, StaffOnly, ExecutorLabels
  <2>4. tally[r].total = tally[r].processed + tally[r].failed
    BY <2>1, <2>3 DEF RowAgrees, Counters
  <2>5. \A e \in Exceptions : decision[<<r, e>>] # "PENDING"
    BY <2>1 DEF CountsOK, Unrouted, ExecutorLabels
  <2> QED BY <2>1, <2>2, <2>4, <2>5 DEF Counters
<1> QED BY <1>1, AlwaysSafe, AlwaysCounts, PTL

----------------------------------------------------------------------------
(* The hourly limit, for every limit and every finite number of sessions.  *)
(* What is inductive is the count together with the sessions that have     *)
(* passed the check and not committed yet.                                 *)

Applying == {p \in Procs : pc[p] = "apply"}

CountedAndComing ==
  HourlyLimit # NoLimit =>
    Cardinality(CountedThisHour) + Cardinality(Applying) < HourlyLimit + Cardinality(Procs)

RateInv == IsFiniteSet(recent) /\ CountedAndComing

\* The sizes the bound adds up.
LEMMA Sizes ==
  ASSUME IsFiniteSet(Procs), IsFiniteSet(recent)
  PROVE  /\ IsFiniteSet(Applying) /\ IsFiniteSet(CountedThisHour)
         /\ Cardinality(Procs) \in Nat
         /\ Cardinality(Applying) \in 0..Cardinality(Procs)
         /\ Cardinality(CountedThisHour) \in Nat
<1>1. Applying \in SUBSET Procs /\ CountedThisHour \in SUBSET recent
  BY DEF Applying, CountedThisHour
<1>2. /\ IsFiniteSet(Applying)
      /\ Cardinality(Applying) <= Cardinality(Procs)
  BY <1>1, FS_Subset
<1>3. IsFiniteSet(CountedThisHour)
  BY <1>1, FS_Subset
<1>4. /\ Cardinality(Procs) \in Nat
      /\ Cardinality(Applying) \in Nat
      /\ Cardinality(CountedThisHour) \in Nat
  BY <1>2, <1>3, FS_CardinalityType
<1>. QED
  BY <1>2, <1>3, <1>4

\* A step that lets nobody past the check and adds nothing to the count.
LEMMA NothingAdded ==
  ASSUME IsFiniteSet(Procs), RateInv,
         recent' \subseteq recent,
         \A p \in Procs : pc'[p] = "apply" => pc[p] = "apply",
         \A d \in recent : result'[d] = "SUCCESS" => result[d] = "SUCCESS"
  PROVE  RateInv'
<1>1. Applying' \in SUBSET Applying /\ CountedThisHour' \in SUBSET CountedThisHour
  BY DEF Applying, CountedThisHour
<1>2. IsFiniteSet(recent')
  BY FS_Subset DEF RateInv
<1>3. /\ IsFiniteSet(Applying) /\ IsFiniteSet(CountedThisHour)
      /\ Cardinality(Procs) \in Nat
      /\ Cardinality(Applying) \in Nat
      /\ Cardinality(CountedThisHour) \in Nat
  BY Sizes DEF RateInv
<1>4. /\ Cardinality(Applying') <= Cardinality(Applying)
      /\ IsFiniteSet(Applying')
  BY <1>1, <1>3, FS_Subset
<1>5. /\ Cardinality(CountedThisHour') <= Cardinality(CountedThisHour)
      /\ IsFiniteSet(CountedThisHour')
  BY <1>1, <1>3, FS_Subset
<1>6. Cardinality(Applying') \in Nat /\ Cardinality(CountedThisHour') \in Nat
  BY <1>4, <1>5, FS_CardinalityType
<1>7. CASE HourlyLimit = NoLimit
  BY <1>2, <1>7 DEF RateInv, CountedAndComing
<1>8. CASE HourlyLimit # NoLimit
  <2>1. HourlyLimit \in Nat
    BY <1>8, ConstantsAssumption
  <2>. QED
    BY <1>2, <1>3, <1>4, <1>5, <1>6, <1>8, <2>1 DEF RateInv, CountedAndComing
<1>. QED
  BY <1>7, <1>8

\* Whoever passes the check found the count under the limit.
LEMMA PassingTheCheck ==
  ASSUME IsFiniteSet(Procs), TypeInv, RateInv, NEW p \in Procs, CheckRateLimits(p)
  PROVE  RateInv'
<1>1. recent' = recent /\ CountedThisHour' = CountedThisHour
  BY DEF CheckRateLimits, tables, world, CountedThisHour
<1>2. /\ Cardinality(Procs) \in Nat
      /\ Cardinality(CountedThisHour) \in Nat
  BY Sizes DEF RateInv
<1>3. Applying' \in SUBSET Procs
  BY DEF Applying
<1>4. /\ Cardinality(Applying') <= Cardinality(Procs)
      /\ Cardinality(Applying') \in Nat
  BY <1>3, FS_Subset, FS_CardinalityType
<1>5. CASE HourlyLimit = NoLimit
  BY <1>1, <1>5 DEF RateInv, CountedAndComing
<1>6. CASE HourlyLimit # NoLimit
  <2>1. HourlyLimit \in Nat
    BY <1>6, ConstantsAssumption
  <2>2. Cardinality(CountedThisHour) < HourlyLimit
    BY <1>6 DEF CheckRateLimits, UnderLimit
  <2>. QED
    BY <1>1, <1>2, <1>4, <1>6, <2>1, <2>2 DEF RateInv, CountedAndComing
<1>. QED
  BY <1>5, <1>6

\* A commit moves its session from those coming to the count.
LEMMA CommittingOne ==
  ASSUME IsFiniteSet(Procs), TypeInv, RateInv, NEW p \in Procs, CommitAction(p)
  PROVE  RateInv'
<1>1. job[p] \in Decisions /\ pc \in [Procs -> Labels]
  BY MayHoldNow
     DEF CommitAction, MayHold, Working, ExecutorLabels, TypeInv, TypeOK
<1>2. recent' = recent \/ recent' = recent \cup {job[p]}
  BY DEF CommitAction
<1>3. IsFiniteSet(recent')
  BY <1>2, FS_AddElement DEF RateInv
<1>4. /\ IsFiniteSet(Applying) /\ IsFiniteSet(CountedThisHour)
      /\ Cardinality(Procs) \in Nat
      /\ Cardinality(Applying) \in Nat
      /\ Cardinality(CountedThisHour) \in Nat
  BY Sizes DEF RateInv
<1>5. p \in Applying
  BY DEF CommitAction, Applying
<1>6. Applying' = Applying \ {p}
  BY <1>1 DEF CommitAction, ToMark, Applying
<1>7. Cardinality(Applying') = Cardinality(Applying) - 1
  BY <1>4, <1>5, <1>6, FS_RemoveElement
<1>8. result \in [Decisions -> ActionStatuses \cup {None}] /\ recent \subseteq Decisions
  BY DEF TypeInv, TypeOK
<1>9. \A d \in recent : d # job[p] => result'[d] = result[d]
  BY <1>8 DEF CommitAction
<1>10. CountedThisHour' \in SUBSET (CountedThisHour \cup {job[p]})
  BY <1>2, <1>9 DEF CountedThisHour
<1>11. /\ IsFiniteSet(CountedThisHour \cup {job[p]})
       /\ Cardinality(CountedThisHour \cup {job[p]}) \in
            {Cardinality(CountedThisHour), Cardinality(CountedThisHour) + 1}
  BY <1>4, FS_AddElement
<1>12. /\ Cardinality(CountedThisHour') <= Cardinality(CountedThisHour \cup {job[p]})
       /\ IsFiniteSet(CountedThisHour')
  BY <1>10, <1>11, FS_Subset
<1>13. Cardinality(CountedThisHour') \in Nat
  BY <1>12, FS_CardinalityType
<1>14. Cardinality(CountedThisHour') <= Cardinality(CountedThisHour) + 1
  BY <1>4, <1>11, <1>12, <1>13
<1>15. CASE HourlyLimit = NoLimit
  BY <1>3, <1>15 DEF RateInv, CountedAndComing
<1>16. CASE HourlyLimit # NoLimit
  <2>1. HourlyLimit \in Nat
    BY <1>16, ConstantsAssumption
  <2>. QED
    BY <1>3, <1>4, <1>7, <1>13, <1>14, <1>16, <2>1 DEF RateInv, CountedAndComing
<1>. QED
  BY <1>15, <1>16

\* A step of the executor adds a result only from those past the check.
LEMMA ExecutorKeepsRate ==
  ASSUME IsFiniteSet(Procs), TypeInv, RateInv, NEW p \in Procs, ExecuteAction(p)
  PROVE  RateInv'
<1>. USE DEF TypeInv, TypeOK
<1>1. CASE FindKey(p)
  BY <1>1, NothingAdded DEF FindKey, Finish, Returned, tables, world
<1>2. CASE MissKey(p)
  BY <1>2, NothingAdded DEF MissKey, tables, world
<1>3. CASE CheckKillSwitch(p)
  BY <1>3, NothingAdded DEF CheckKillSwitch, tables, world
<1>4. CASE CheckRateLimits(p)
  BY <1>4, PassingTheCheck
<1>5. CASE RecordRefusal(p)
  <2>1. \A d \in recent : result'[d] = "SUCCESS" => result[d] = "SUCCESS"
    BY <1>5 DEF RecordRefusal
  <2>2. \A q \in Procs : pc'[q] = "apply" => pc[q] = "apply"
    BY <1>5 DEF RecordRefusal, ToMark, Abandon
  <2>. QED
    BY <1>5, <2>1, <2>2, NothingAdded DEF RecordRefusal, world
<1>6. CASE CommitAction(p)
  BY <1>6, CommittingOne
<1>7. CASE LoseToKey(p)
  BY <1>7, NothingAdded DEF LoseToKey, Abandon, tables, world
<1>8. CASE MarkExecuted(p)
  BY <1>8, NothingAdded DEF MarkExecuted, Finish, Returned, world
<1>. QED
  BY <1>1, <1>2, <1>3, <1>4, <1>5, <1>6, <1>7, <1>8
     DEF ExecuteAction, RefuseByKillSwitch, RefuseByRateLimit

\* No other step passes the check or commits a result.
LEMMA OthersKeepRate ==
  ASSUME IsFiniteSet(Procs), TypeInv, RateInv,
         \/ \E r \in Runs : StartRun(r) \/ RunStep(r)
         \/ \E q \in Staff, d \in Decisions : BeginRequest(q, d)
         \/ \E q \in Staff : RequestStep(q)
         \/ Environment
  PROVE  RateInv'
<1>. USE DEF TypeInv, TypeOK
<1>1. ASSUME NEW r \in Runs, StartRun(r) \/ RunStep(r)
      PROVE  RateInv'
  <2>1. recent' = recent /\ result' = result
    BY <1>1
       DEF StartRun, RunStep, Decide, DecideFails, RouteDryRun, RouteToExecutor,
           RouteToApproval, RouteToEscalation, Escalate, RouteToBlock, Account,
           FinalizeRun, tables, world
  <2>2. \A q \in Procs : pc'[q] = "apply" => pc[q] = "apply"
    BY <1>1
       DEF StartRun, RunStep, Decide, DecideFails, RouteDryRun, RouteToExecutor,
           RouteToApproval, RouteToEscalation, Escalate, RouteToBlock, Account,
           FinalizeRun
  <2>. QED
    BY <2>1, <2>2, NothingAdded
<1>2. ASSUME NEW q \in Staff, NEW d \in Decisions, BeginRequest(q, d)
      PROVE  RateInv'
  <2>1. PICK label \in StaffOnly : Begin(q, d, label)
    BY <1>2 DEF BeginRequest, BeginApprove, BeginExpire, BeginReject, BeginRollback,
                StaffOnly
  <2>. QED
    BY <2>1, NothingAdded DEF Begin, StaffOnly, tables, world
<1>3. ASSUME NEW q \in Staff, RequestStep(q)
      PROVE  RateInv'
  <2>1. recent' = recent
    BY <1>3
       DEF RequestStep, CommitExpiry, CommitApproval, CommitRejection, CommitRollback,
           world
  <2>2. \A d \in recent : result'[d] = "SUCCESS" => result[d] = "SUCCESS"
    BY <1>3
       DEF RequestStep, CommitExpiry, CommitApproval, CommitRejection, CommitRollback
  <2>3. \A p \in Procs : pc'[p] = "apply" => pc[p] = "apply"
    BY <1>3
       DEF RequestStep, CommitExpiry, CommitApproval, CommitRejection, CommitRollback,
           AfterApproval
  <2>. QED
    BY <2>1, <2>2, <2>3, NothingAdded
<1>4. ASSUME Environment PROVE RateInv'
  <2>1. /\ recent' \subseteq recent
        /\ result' = result
    BY <1>4
       DEF Environment, TurnOnKillSwitch, TurnOffKillSwitch, PatchException,
           PassDeadline, PassHour, Crash, tables, world
  <2>2. \A q \in Procs : pc'[q] = "apply" => pc[q] = "apply"
    BY <1>4
       DEF Environment, TurnOnKillSwitch, TurnOffKillSwitch, PatchException,
           PassDeadline, PassHour, Crash, Abandon, sessions
  <2>. QED
    BY <2>1, <2>2, NothingAdded
<1>. QED
  BY <1>1, <1>2, <1>3, <1>4

\* There is no result before the first run.
LEMMA RateInvInit ==
  ASSUME IsFiniteSet(Procs), Procs # {}, Init
  PROVE  RateInv
<1>1. recent = {} /\ CountedThisHour = {} /\ Applying = {}
  BY DEF Init, CountedThisHour, Applying
<1>2. Cardinality(Procs) \in Nat /\ Cardinality(Procs) # 0
  BY FS_CardinalityType, FS_EmptySet
<1>. QED
  BY <1>1, <1>2, FS_EmptySet, ConstantsAssumption DEF RateInv, CountedAndComing

\* With finitely many sessions, and at least one, the results counted in one
\* clock hour pass the configured limit by fewer than the number of sessions
\* (_check_rate_limits reads the count without a lock).
THEOREM HourlyOvershootBoundedHolds ==
  ASSUME IsFiniteSet(Procs), Procs # {}
  PROVE  Spec => []HourlyOvershootBounded
<1>1. Init => RateInv
  BY RateInvInit
<1>2. TypeInv /\ RateInv /\ [Next]_vars => RateInv'
  <2>. SUFFICES ASSUME TypeInv, RateInv, [Next]_vars PROVE RateInv'
    OBVIOUS
  <2>1. CASE UNCHANGED vars
    BY <2>1, NothingAdded DEF vars, tables, sessions, world
  <2>. QED
    BY <2>1, ExecutorKeepsRate, OthersKeepRate DEF Next
<1>3. RateInv => HourlyOvershootBounded
  <2>. SUFFICES ASSUME RateInv, HourlyLimit # NoLimit
                PROVE  Cardinality(CountedThisHour) < HourlyLimit + Cardinality(Procs)
    BY DEF HourlyOvershootBounded
  <2>1. HourlyLimit \in Nat
    BY ConstantsAssumption
  <2>2. /\ Cardinality(Procs) \in Nat
        /\ Cardinality(Applying) \in Nat
        /\ Cardinality(CountedThisHour) \in Nat
    BY Sizes DEF RateInv
  <2>. QED
    BY <2>1, <2>2 DEF RateInv, CountedAndComing
<1>. QED
  BY <1>1, <1>2, <1>3, AlwaysTypeInv, PTL DEF Spec
===============================================================================
