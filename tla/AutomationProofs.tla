--------------------------- MODULE AutomationProofs ---------------------------
(***************************************************************************)
(* Proofs about what the controller reads of the investigations: which     *)
(* steps may change its decision, and what every automatic one rests on.   *)
(***************************************************************************)
EXTENDS InvestigationProofs, WellFoundedInduction

----------------------------------------------------------------------------
(* The order of the completed runs.                                        *)

\* A request that has no completed_at yet.
Unstamped == Nodes \cup {"create", "audit", "build", "stamp"}

\* The stamps of the requests: a request is stamped once, before its result is
\* committed, and a prediction is stored where there was none.
StampsInv ==
  /\ stamps \in Seq(Runs)
  /\ \A i, j \in 1..Len(stamps) : stamps[i] = stamps[j] => i = j
  /\ \A r \in Runs : node[r] \in Unstamped => \A i \in 1..Len(stamps) : stamps[i] # r
  /\ \A r \in Runs : node[r] = "commit" \/ Settled(r) => \E i \in 1..Len(stamps) : stamps[i] = r
  /\ DOMAIN latest = Models
  /\ mlRequest \in {"asked", "classified", "over"}
  /\ mlRequest = "asked" => latest = [m \in Models |-> NoValue] /\ newest = NoValue
  /\ mlRequest = "classified" => latest["ANOMALY_DETECTOR"] = NoValue
  /\ newest # NoValue => newest \in Models

\* Of some naturals there is a least one.
LEMMA LeastNatural ==
  ASSUME NEW T, T \subseteq Nat, T # {}
  PROVE  \E n \in T : \A m \in T : n <= m
<1> DEFINE R == OpToRel(<, Nat)
<1>1. IsWellFoundedOn(R, Nat)
  BY NatLessThanWellFounded
<1>2. \A x, y \in Nat : <<y, x>> \in R <=> y < x
  BY DEF OpToRel
<1>3. \A x, y \in Nat : y < x \/ x <= y
  OBVIOUS
<1> HIDE DEF R
<1>4. \A x, y \in Nat : <<y, x>> \in R \/ x <= y
  BY <1>2, <1>3, Zenon
<1>5. \E x \in T : \A y \in T : ~(<<y, x>> \in R)
  BY <1>1, WFMin
<1> QED BY <1>4, <1>5, Zenon

\* Of some naturals up to a bound there is a greatest one.
LEMMA GreatestNatural ==
  ASSUME NEW T, NEW n \in Nat, T \subseteq 0..n, T # {}
  PROVE  \E i \in T : \A j \in T : j <= i
<1> DEFINE Below == {n - i : i \in T}
<1>0. \A i \in T : i \in Int /\ 0 <= i /\ i <= n
  OBVIOUS
<1>1. Below \subseteq Nat /\ Below # {}
  <2>1. \A i \in T : n - i \in Nat
    BY <1>0
  <2> QED BY <2>1
<1>2. PICK k \in Below : \A m \in Below : k <= m
  BY <1>1, LeastNatural
<1>3. PICK i \in T : k = n - i
  BY <1>2
<1>4. ASSUME NEW j \in T PROVE j <= i
  <2>1. k <= n - j
    BY <1>2
  <2> QED BY <1>0, <1>3, <2>1
<1> QED BY <1>4

\* Where a run is stamped is where it stands in the order.
LEMMA StampIsPlace ==
  ASSUME StampsInv, NEW i \in 1..Len(stamps)
  PROVE  StampOf(stamps[i]) = i
<1>1. (CHOOSE j \in 1..Len(stamps) : stamps[j] = stamps[i]) \in 1..Len(stamps)
      /\ stamps[CHOOSE j \in 1..Len(stamps) : stamps[j] = stamps[i]] = stamps[i]
  OBVIOUS
<1> QED BY <1>1 DEF StampOf, StampsInv

\* The candidates for the newest run.
Completed == {r \in Runs : Settled(r)}

\* If any run is completed, one has the latest stamp, and only one has.
LEMMA NewestIsCompleted ==
  ASSUME StampsInv, Completed # {}
  PROVE  /\ NewestRun \in Completed
         /\ \A q \in Completed : StampOf(q) <= StampOf(NewestRun)
         /\ \A r \in Completed : (\A q \in Completed : StampOf(q) <= StampOf(r)) => r = NewestRun
         /\ \A q \in Completed : StampOf(q) \in 1..Len(stamps) /\ stamps[StampOf(q)] = q
<1> DEFINE T == {StampOf(r) : r \in Completed}
<1>1. ASSUME NEW q \in Completed
      PROVE  StampOf(q) \in 1..Len(stamps) /\ stamps[StampOf(q)] = q
  <2>1. PICK i \in 1..Len(stamps) : stamps[i] = q
    BY DEF StampsInv, Completed
  <2> QED BY <2>1, StampIsPlace
<1>2. Len(stamps) \in Nat
  BY DEF StampsInv
<1>3. T \subseteq 0..Len(stamps) /\ T # {}
  BY <1>1, <1>2
<1>4. PICK s \in T : \A t \in T : t <= s
  BY <1>2, <1>3, GreatestNatural
<1>5. PICK r \in Completed : \A q \in Completed : StampOf(q) <= StampOf(r)
  BY <1>4
<1>6. NewestRun = CHOOSE x \in Completed : \A q \in Completed : StampOf(q) <= StampOf(x)
  BY DEF NewestRun, Completed
<1>7. NewestRun \in Completed /\ \A q \in Completed : StampOf(q) <= StampOf(NewestRun)
  BY <1>5, <1>6
<1>8. ASSUME NEW x \in Completed, \A q \in Completed : StampOf(q) <= StampOf(x)
      PROVE  x = NewestRun
  <2>1. StampOf(x) <= StampOf(NewestRun) /\ StampOf(NewestRun) <= StampOf(x)
    BY <1>7, <1>8
  <2>2. StampOf(x) = StampOf(NewestRun)
    BY <1>1, <1>2, <1>7, <2>1
  <2> QED BY <1>1, <1>7, <2>2
<1> QED BY <1>1, <1>7, <1>8

\* Another stamp goes to the end, and only to a run that has none.
LEMMA OneMoreStamp ==
  ASSUME StampsInv, NEW r \in Runs, \A i \in 1..Len(stamps) : stamps[i] # r,
         stamps' = Append(stamps, r)
  PROVE  /\ stamps' \in Seq(Runs)
         /\ \A i, j \in 1..Len(stamps') : stamps'[i] = stamps'[j] => i = j
         /\ \A i \in 1..Len(stamps) : i \in 1..Len(stamps') /\ stamps'[i] = stamps[i]
         /\ \A i \in 1..Len(stamps') : stamps'[i] = r \/ i \in 1..Len(stamps)
         /\ \E i \in 1..Len(stamps') : stamps'[i] = r
<1>1. stamps \in Seq(Runs) /\ Len(stamps) \in Nat
  BY DEF StampsInv
<1>2. /\ stamps' \in Seq(Runs) /\ Len(stamps') = Len(stamps) + 1
      /\ \A i \in 1..Len(stamps) : stamps'[i] = stamps[i]
      /\ stamps'[Len(stamps) + 1] = r
  BY <1>1
<1>3. \A i \in 1..Len(stamps') : i \in 1..Len(stamps) \/ i = Len(stamps) + 1
  BY <1>1, <1>2
<1>4. /\ \A i \in 1..Len(stamps) : i \in 1..Len(stamps')
      /\ Len(stamps) + 1 \in 1..Len(stamps')
  BY <1>1, <1>2
<1>5. \A i, j \in 1..Len(stamps') : stamps'[i] = stamps'[j] => i = j
  BY <1>2, <1>3 DEF StampsInv
<1> QED BY <1>2, <1>3, <1>4, <1>5

\* A step that moves one request keeps the invariant if it stamps it when it should.
LEMMA OneStamps ==
  ASSUME StampsInv, RunsInv, NEW r \in Runs, NEW n, node' = [node EXCEPT ![r] = n],
         \/ stamps' = stamps
         \/ stamps' = Append(stamps, r) /\ node[r] \in Unstamped /\ n \notin Unstamped,
         n \in Unstamped => node[r] \in Unstamped,
         n = "commit" \/ rows'[r].status = "COMPLETED" =>
           node[r] = "commit" \/ Settled(r) \/ stamps' = Append(stamps, r),
         \A x \in Runs \ {r} : rows'[x] = rows[x],
         UNCHANGED <<latest, newest, mlRequest>>
  PROVE  StampsInv'
<1>1. /\ node'[r] = n
      /\ \A x \in Runs \ {r} : node'[x] = node[x] /\ (Settled(x)' <=> Settled(x))
  BY DEF RunsInv, Settled
<1>2. CASE stamps' = stamps
  <2>1. stamps' # Append(stamps, r)
    BY <1>2 DEF StampsInv
  <2>2. ASSUME NEW x \in Runs, node'[x] \in Unstamped
        PROVE  \A i \in 1..Len(stamps') : stamps'[i] # x
    BY <1>1, <1>2, <2>2 DEF StampsInv
  <2>3. ASSUME NEW x \in Runs, node'[x] = "commit" \/ Settled(x)'
        PROVE  \E i \in 1..Len(stamps') : stamps'[i] = x
    BY <1>1, <1>2, <2>1, <2>3 DEF StampsInv, Settled
  <2> QED BY <1>2, <2>2, <2>3 DEF StampsInv
<1>3. CASE stamps' = Append(stamps, r) /\ node[r] \in Unstamped /\ n \notin Unstamped
  <2>1. \A i \in 1..Len(stamps) : stamps[i] # r
    BY <1>3 DEF StampsInv
  <2>2. /\ stamps' \in Seq(Runs)
        /\ \A i, j \in 1..Len(stamps') : stamps'[i] = stamps'[j] => i = j
        /\ \A i \in 1..Len(stamps) : i \in 1..Len(stamps') /\ stamps'[i] = stamps[i]
        /\ \A i \in 1..Len(stamps') : stamps'[i] = r \/ i \in 1..Len(stamps)
        /\ \E i \in 1..Len(stamps') : stamps'[i] = r
    BY <1>3, <2>1, OneMoreStamp
  <2>3. ASSUME NEW x \in Runs, node'[x] \in Unstamped
        PROVE  \A i \in 1..Len(stamps') : stamps'[i] # x
    <3>1. x # r /\ node[x] \in Unstamped
      BY <1>1, <1>3, <2>3
    <3> QED BY <2>2, <3>1 DEF StampsInv
  <2>4. ASSUME NEW x \in Runs, node'[x] = "commit" \/ Settled(x)'
        PROVE  \E i \in 1..Len(stamps') : stamps'[i] = x
    <3>1. CASE x = r
      BY <2>2, <3>1
    <3>2. CASE x # r
      BY <1>1, <2>2, <2>4, <3>2 DEF StampsInv
    <3> QED BY <3>1, <3>2
  <2> QED BY <2>2, <2>3, <2>4 DEF StampsInv
<1> QED BY <1>2, <1>3

\* A run that fails is stamped then, unless its session is broken.
LEMMA FailStamps ==
  ASSUME StampsInv, RunsInv, NEW r \in Runs, node[r] \in Nodes \cup {"build"}, Fail(r)
  PROVE  StampsInv'
<1>1. node' = [node EXCEPT ![r] = "over"] /\ UNCHANGED <<latest, newest, mlRequest>>
  BY DEF Fail, Finish, GoTo, world
<1>2. node[r] \in Unstamped /\ "over" \notin Unstamped
  BY DEF Unstamped, Nodes, NextNode
<1>3. stamps' = stamps \/ stamps' = Append(stamps, r)
  BY DEF Fail
<1>4. rows'[r].status # "COMPLETED" /\ \A x \in Runs \ {r} : rows'[x] = rows[x]
  <2>1. rows[r].status = "RUNNING"
    BY DEF RunsInv, RunOK, Working, Pcs, Nodes, NextNode
  <2>2. rows[r] = [status |-> rows[r].status, result |-> rows[r].result, human |-> rows[r].human]
    BY DEF RunsInv, RunOK
  <2> QED BY <2>1, <2>2 DEF Fail, RunsInv
<1> QED BY <1>1, <1>2, <1>3, <1>4, OneStamps

\* Every step of a request keeps the invariant.
LEMMA RunStepStamps ==
  ASSUME StampsInv, RunsInv, NEW r \in Runs, RunStep(r)
  PROVE  StampsInv'
<1>1. CASE CreateRow(r)
  <2>1. rows'[r].status = "RUNNING" /\ \A x \in Runs \ {r} : rows'[x] = rows[x]
    BY <1>1 DEF CreateRow, RunningRow, RunsInv
  <2> QED BY <1>1, <2>1, OneStamps DEF CreateRow, At, GoTo, world, Unstamped
<1>2. CASE AuditStarted(r) \/ BuildGraph(r)
  <2>1. PICK n \in {"build", "load_exception"} :
          node' = [node EXCEPT ![r] = n] /\ UNCHANGED <<rows, stamps, latest, newest, mlRequest>>
    BY <1>2 DEF AuditStarted, BuildGraph, GoTo, world
  <2>2. node[r] \in Unstamped
    BY <1>2 DEF AuditStarted, BuildGraph, At, Unstamped
  <2> QED BY <2>1, <2>2, OneStamps DEF Settled
<1>3. CASE NoProvider(r)
  BY <1>3, FailStamps DEF NoProvider, At
<1>4. CASE GraphStep(r)
  <2>1. node[r] \in Nodes
    BY <1>4, GraphStepReturns
  <2>2. CASE Fail(r)
    BY <2>1, <2>2, FailStamps
  <2>3. ASSUME NEW g, Return(r, g) PROVE StampsInv'
    <3>1. /\ node' = [node EXCEPT ![r] = NextNode[node[r]]]
          /\ UNCHANGED <<rows, stamps, latest, newest, mlRequest>>
      BY <2>3 DEF Return, GoTo, world
    <3>2. node[r] \in Unstamped /\ NextNode[node[r]] # "commit"
      BY <2>1 DEF Unstamped, Nodes, NextNode
    <3> QED BY <3>1, <3>2, OneStamps DEF Settled
  <2> QED BY <1>4, <2>2, <2>3, GraphStepReturns
<1>5. CASE Stamp(r)
  <2>1. /\ node' = [node EXCEPT ![r] = "commit"] /\ stamps' = Append(stamps, r)
        /\ UNCHANGED <<rows, latest, newest, mlRequest>>
    BY <1>5 DEF Stamp, GoTo, world
  <2>2. node[r] \in Unstamped /\ "commit" \notin Unstamped
    BY <1>5 DEF Stamp, At, Unstamped, Nodes, NextNode
  <2> QED BY <2>1, <2>2, OneStamps
<1>6. CASE CommitResult(r)
  <2>1. PICK n \in {"over", "reply"} : node' = [node EXCEPT ![r] = n]
    BY <1>6 DEF CommitResult, Finish, GoTo
  <2>2. n \notin Unstamped /\ node[r] = "commit"
    BY <1>6, <2>1 DEF CommitResult, At, Unstamped, Nodes, NextNode
  <2>3. \A x \in Runs \ {r} : rows'[x] = rows[x]
    BY <1>6 DEF CommitResult, RunsInv
  <2>4. UNCHANGED <<stamps, latest, newest, mlRequest>>
    BY <1>6 DEF CommitResult, world
  <2> QED BY <2>1, <2>2, <2>3, <2>4, OneStamps
<1>7. CASE ReturnResult(r)
  <2>1. node' = [node EXCEPT ![r] = "over"] /\ UNCHANGED <<rows, stamps, latest, newest, mlRequest>>
    BY <1>7 DEF ReturnResult, Finish, GoTo, world
  <2>2. "over" \notin Unstamped
    BY DEF Unstamped, Nodes, NextNode
  <2> QED BY <2>1, <2>2, OneStamps DEF Settled
<1> QED BY <1>1, <1>2, <1>3, <1>4, <1>5, <1>6, <1>7 DEF RunStep

\* A fault stamps nothing and completes nothing.
LEMMA FaultStamps ==
  ASSUME StampsInv, RunsInv, NEW r \in Runs, Fault(r)
  PROVE  StampsInv'
<1>1. UNCHANGED <<rows, stamps, latest, newest, mlRequest>>
  BY DEF Fault, QueryFails, SearchFails, CommitFails, Crash, world
<1>2. CASE QueryFails(r) \/ CommitFails(r) \/ Crash(r)
  <2>1. node' = [node EXCEPT ![r] = "over"]
    BY <1>2 DEF QueryFails, CommitFails, Crash, Finish, GoTo
  <2>2. "over" \notin Unstamped
    BY DEF Unstamped, Nodes, NextNode
  <2> QED BY <1>1, <2>1, <2>2, OneStamps DEF Settled
<1>3. CASE SearchFails(r)
  <2>1. node' = [node EXCEPT ![r] = NextNode[node[r]]]
    BY <1>3 DEF SearchFails, GoTo
  <2>2. node[r] \in Unstamped /\ NextNode[node[r]] # "commit"
    BY <1>3 DEF SearchFails, Unstamped, Nodes, NextNode
  <2> QED BY <1>1, <2>1, <2>2, OneStamps DEF Settled
<1> QED BY <1>2, <1>3 DEF Fault

\* No run is stamped, no prediction stored at first.
LEMMA StampsInit == Init => StampsInv
BY DEF Init, StampsInv, Settled, NoRow

\* Every step keeps the invariant; the ML request stores each prediction once.
LEMMA StampsNext == StampsInv /\ RunsInv /\ [Next]_vars => StampsInv'
<1> SUFFICES ASSUME StampsInv, RunsInv, [Next]_vars PROVE StampsInv'
  OBVIOUS
<1>1. ASSUME NEW r \in Runs, RunStep(r) \/ Fault(r)
      PROVE  StampsInv'
  BY <1>1, RunStepStamps, FaultStamps
<1>2. ASSUME RunClassifier \/ RunDetector \/ UNCHANGED vars
      PROVE  StampsInv'
  <2>1. UNCHANGED <<stamps, node, rows>>
    BY <1>2 DEF RunClassifier, RunDetector, requests, vars
  <2>2. /\ stamps' \in Seq(Runs)
        /\ \A i, j \in 1..Len(stamps') : stamps'[i] = stamps'[j] => i = j
        /\ \A r \in Runs : node'[r] \in Unstamped => \A i \in 1..Len(stamps') : stamps'[i] # r
        /\ \A r \in Runs : node'[r] = "commit" \/ Settled(r)' =>
                             \E i \in 1..Len(stamps') : stamps'[i] = r
    BY <2>1 DEF StampsInv, Settled
  <2>3. /\ DOMAIN latest' = Models
        /\ mlRequest' \in {"asked", "classified", "over"}
        /\ mlRequest' = "asked" => latest' = [m \in Models |-> NoValue] /\ newest' = NoValue
        /\ mlRequest' = "classified" => latest'["ANOMALY_DETECTOR"] = NoValue
        /\ newest' # NoValue => newest' \in Models
    <3>1. CASE RunClassifier
      BY <3>1 DEF RunClassifier, Store, StampsInv, Models
    <3>2. CASE RunDetector
      BY <3>2 DEF RunDetector, Store, StampsInv, Models
    <3>3. CASE UNCHANGED vars
      BY <3>3 DEF vars, StampsInv
    <3> QED BY <1>2, <3>1, <3>2, <3>3
  <2> QED BY <2>2, <2>3 DEF StampsInv
<1> QED BY <1>1, <1>2 DEF Next, RunMlAnalysis

\* A run is stamped once, before its result is committed.
THEOREM StampsHold == Spec => []StampsInv
BY StampsInit, StampsNext, RunsHold, PTL DEF Spec

----------------------------------------------------------------------------
(* Which steps change what the controller reads.                           *)

\* Every step keeps what a completed run says and where it is stamped.
LEMMA CompletedStays ==
  ASSUME StampsInv, StampsInv', RunsInv, [Next]_vars, NEW r \in Completed
  PROVE  r \in Completed' /\ rows'[r] = rows[r] /\ StampOf(r)' = StampOf(r)
<1>1. r \in Runs /\ rows'[r] = rows[r]
  BY SettledRowStays DEF Completed, Settled
<1>2. PICK i \in 1..Len(stamps) : stamps[i] = r
  BY DEF StampsInv, Completed
<1>3. i \in 1..Len(stamps') /\ stamps'[i] = r
  <2>1. stamps' = stamps \/ \E x \in Runs : stamps' = Append(stamps, x)
    <3>1. ASSUME NEW x \in Runs, RunStep(x) PROVE stamps' = stamps \/ stamps' = Append(stamps, x)
      <4>1. CASE GraphStep(x) \/ NoProvider(x)
        BY <4>1, GraphStepReturns DEF NoProvider, Return, Fail
      <4> QED BY <3>1, <4>1 DEF RunStep, CreateRow, AuditStarted, BuildGraph, Stamp,
                                CommitResult, ReturnResult
    <3>2. ASSUME NEW x \in Runs, Fault(x) PROVE stamps' = stamps
      BY <3>2 DEF Fault, QueryFails, SearchFails, CommitFails, Crash
    <3> QED BY <3>1, <3>2 DEF Next, RunMlAnalysis, RunClassifier, RunDetector, requests, vars
  <2> QED BY <1>2, <2>1 DEF StampsInv
<1>4. StampOf(r) = i
  BY <1>2, StampIsPlace
<1>5. StampOf(r)' = i
  <2>1. \A j \in 1..Len(stamps') : stamps'[j] = r => j = i
    BY <1>3 DEF StampsInv
  <2> QED BY <1>3, <2>1 DEF StampOf
<1>6. r \in Completed'
  BY <1>1 DEF Completed, Settled
<1> QED BY <1>1, <1>4, <1>5, <1>6

\* A request changes neither the exception, nor the library, nor the predictions.
LEMMA RunsTouchNoWorld ==
  ASSUME NEW r \in Runs, RunStep(r) \/ Fault(r)
  PROVE  UNCHANGED world
<1>1. CASE GraphStep(r) \/ NoProvider(r)
  BY <1>1, GraphStepReturns DEF NoProvider, Return, Fail
<1> QED BY <1>1 DEF RunStep, CreateRow, AuditStarted, BuildGraph, Stamp, CommitResult,
                    ReturnResult, Fault, QueryFails, SearchFails, CommitFails, Crash

\* The newest run is the completed one with the latest stamp.
NewestIsLast ==
  Completed # {} =>
    /\ NewestRun \in Completed
    /\ \A q \in Completed : StampOf(q) <= StampOf(NewestRun)
    /\ \A r \in Completed : (\A q \in Completed : StampOf(q) <= StampOf(r)) => r = NewestRun

\* The stamps make it so.
LEMMA StampsOrderTheRuns == StampsInv => NewestIsLast
BY NewestIsCompleted DEF NewestIsLast

\* So it is in the next state.
LEMMA StampsOrderTheNextRuns == StampsInv' => NewestIsLast'
BY StampsOrderTheRuns, PTL

\* Whatever commits in whatever order, the run that decides is never replaced by one
\* whose result was taken earlier.
THEOREM DecisionNeverGoesBackHolds == Spec => DecisionNeverGoesBack
<1>1. ASSUME StampsInv, StampsInv', RunsInv, [Next]_vars, NewestRun # NoValue
      PROVE  StampOf(NewestRun) <= StampOf(NewestRun)'
  <2>1. Completed # {}
    BY <1>1 DEF NewestRun, Completed
  <2>2. NewestRun \in Completed
    BY <1>1, <2>1, NewestIsCompleted
  <2> PICK old \in Completed : old = NewestRun
    BY <2>2
  <2>3. old \in Completed' /\ StampOf(old)' = StampOf(old)
    BY <1>1, <2>2, CompletedStays
  <2> QED BY <1>1, <2>3, StampsOrderTheNextRuns DEF NewestIsLast
<1>2. StampsInv /\ StampsInv' /\ RunsInv /\ [Next]_vars =>
        [NewestRun # NoValue => StampOf(NewestRun) <= StampOf(NewestRun)']_vars
  BY <1>1
<1> QED BY <1>2, StampsHold, RunsHold, PTL DEF Spec, DecisionNeverGoesBack

\* A step that neither completes a run nor stores a prediction leaves the controller
\* what it read: no crash, failure or run that goes on changes its decision.
THEOREM OnlyResultsChangeTheDecisionHolds == Spec => OnlyResultsChangeTheDecision
<1>1. ASSUME StampsInv, StampsInv', RunsInv, [Next]_vars, latest' = latest,
             \A r \in Runs : ~(~Settled(r) /\ Settled(r)')
      PROVE  Reading' = Reading
  <2>1. Completed' = Completed
    <3>1. \A r \in Completed : r \in Completed'
      BY <1>1, CompletedStays
    <3>2. \A r \in Completed' : r \in Completed
      BY <1>1 DEF Completed
    <3> QED BY <3>1, <3>2
  <2>2. NewestRun' = NewestRun /\ (Completed # {} => rows'[NewestRun] = rows[NewestRun])
    <3>1. CASE Completed = {}
      BY <2>1, <3>1 DEF NewestRun, Completed
    <3>2. CASE Completed # {}
      <4>1. NewestRun \in Completed /\ \A q \in Completed : StampOf(q) <= StampOf(NewestRun)
        BY <1>1, <3>2, NewestIsCompleted
      <4> PICK old \in Completed : old = NewestRun
        BY <4>1
      <4>2. \A q \in Completed : StampOf(q)' = StampOf(q) /\ rows'[q] = rows[q]
        BY <1>1, CompletedStays
      <4>3. old \in Completed' /\ \A q \in Completed' : StampOf(q)' <= StampOf(old)'
        BY <2>1, <4>1, <4>2
      <4>4. old = NewestRun'
        BY <1>1, <4>3, StampsOrderTheNextRuns DEF NewestIsLast
      <4> QED BY <4>2, <4>4
    <3> QED BY <3>1, <3>2
  <2>3. newest' = newest
    <3>1. CASE RunClassifier
      <4>1. PICK p \in Classifications : latest' = [latest EXCEPT !["EXCEPTION_CLASSIFIER"] = p]
        BY <3>1 DEF RunClassifier, Store
      <4>2. latest'["EXCEPTION_CLASSIFIER"] = p /\ latest["EXCEPTION_CLASSIFIER"] = NoValue
        BY <1>1, <3>1, <4>1 DEF RunClassifier, StampsInv, Models
      <4> QED BY <1>1, <4>2, InvestigationAssumption
    <3>2. CASE RunDetector
      <4>1. PICK p \in AnomalyAnswers : latest' = [latest EXCEPT !["ANOMALY_DETECTOR"] = p]
        BY <3>2 DEF RunDetector, Store
      <4>2. latest'["ANOMALY_DETECTOR"] = p /\ latest["ANOMALY_DETECTOR"] = NoValue
        BY <1>1, <3>2, <4>1 DEF RunDetector, StampsInv, Models
      <4> QED BY <1>1, <4>2, InvestigationAssumption
    <3>3. ASSUME NEW r \in Runs, RunStep(r) \/ Fault(r) PROVE newest' = newest
      BY <3>3, RunsTouchNoWorld DEF world
    <3> QED BY <1>1, <3>1, <3>2, <3>3 DEF Next, RunMlAnalysis, vars
  <2>4. exception' = exception
    BY <1>1, RunsTouchNoWorld DEF Next, RunMlAnalysis, RunClassifier, RunDetector, world, vars
  <2>5. Completed = {} => NewestRun = NoValue
    BY DEF NewestRun, Completed
  <2> QED BY <1>1, <2>2, <2>3, <2>4, <2>5 DEF Reading, PredictionFor
<1>2. StampsInv /\ StampsInv' /\ RunsInv /\ [Next]_vars =>
        [Reading' # Reading =>
           \/ latest' # latest
           \/ \E r \in Runs : ~Settled(r) /\ Settled(r)']_vars
  BY <1>1
<1> QED BY <1>2, StampsHold, RunsHold, PTL DEF Spec, OnlyResultsChangeTheDecision

----------------------------------------------------------------------------
(* What an automatic decision rests on.                                    *)

\* The built-in policy that lets an action be automatic, and what it has checked.
LEMMA AutomaticMeans ==
  ASSUME NEW c, "AUTO_EXECUTE" \in Engine!VerdictsOf(c)
  PROVE  /\ c.finding.cause # "UNKNOWN"
         /\ ~c.finding.contradiction
         /\ c.finding.evidence # 0
         /\ \E p \in Tables!BuiltInPolicies :
              /\ \/ c.finding.cause \in p.causes
                 \/ \A q \in Tables!BuiltInPolicies : c.finding.cause \notin q.causes
              /\ ~p.alwaysEscalate
              /\ Tables!SelectAction(c.finding.cause) \in p.allowed
              /\ ~(c.finding.confidence < p.confidence)
<1>1. /\ ~Engine!BlockedByRule(c) /\ ~Engine!EscalatedByRule(c)
      /\ "AUTO_EXECUTE" \in Engine!PolicyVerdicts(c)
  BY DEF Engine!VerdictsOf
<1>2. PICK p \in Engine!MatchingPolicies(c) : Engine!PolicyVerdict(p, c) = "AUTO_EXECUTE"
  BY <1>1 DEF Engine!PolicyVerdicts
<1>3. /\ p \in Tables!BuiltInPolicies
      /\ \/ c.finding.cause \in p.causes
         \/ \A q \in Tables!BuiltInPolicies : c.finding.cause \notin q.causes
  BY <1>2 DEF Engine!MatchingPolicies
<1>4. ~p.alwaysEscalate /\ ~Engine!Forbids(p, c) /\ ~Engine!NeedsApproval(p, c)
  BY <1>2 DEF Engine!PolicyVerdict
<1>5. ~(c.finding.confidence < p.confidence)
  BY <1>4 DEF Engine!NeedsApproval
<1>6. Tables!SelectAction(c.finding.cause) \in p.allowed
  BY <1>4 DEF Engine!Forbids, Engine!SelectAction, Tables!SelectAction
<1>7. c.finding.cause # "UNKNOWN" /\ ~c.finding.contradiction /\ c.finding.evidence # 0
  BY <1>1 DEF Engine!BlockedByRule, Engine!EscalatedByRule, Engine!StopsAt
<1> QED BY <1>3, <1>4, <1>5, <1>6, <1>7

\* A policy that does not escalate asks for 70% at least, for 95% where it lets an
\* exception be resolved for a fee, and only one for the two mismatches of amounts.
LEMMA PolicyThresholds ==
  ASSUME NEW p \in Tables!BuiltInPolicies, ~p.alwaysEscalate
  PROVE  /\ p.confidence \in 70..95
         /\ "FEE_VARIANCE" \in p.causes => p.confidence = 95
BY DEF Tables!BuiltInPolicies, Tables!FeeVariancePolicy, Tables!DuplicatePolicy,
       Tables!UnknownPolicy, Tables!LargePolicy

\* A fee variance has a policy of its own.
LEMMA FeeVarianceHasAPolicy == \E q \in Tables!BuiltInPolicies : "FEE_VARIANCE" \in q.causes
BY DEF Tables!BuiltInPolicies, Tables!FeeVariancePolicy

\* An exception without a result is never automatic; with one, it is read from the
\* row of a completed run, with 70% at least and no contradiction.
LEMMA AutomaticRestsOnARun ==
  ASSUME StampsInv, FitsInv, Automatic
  PROVE  /\ NewestRun \in Completed
         /\ Reading.finding = FindingOf(rows[NewestRun].result)
         /\ RowFits(rows[NewestRun])
         /\ Reading.finding.confidence \in 70..100
         /\ Reading.finding.cause = "FEE_VARIANCE" => Reading.finding.confidence >= 95
         /\ Reading.finding.cause # "UNKNOWN"
         /\ ~Reading.finding.contradiction
<1> DEFINE f == Reading.finding
<1>1. /\ f.cause # "UNKNOWN"
      /\ ~f.contradiction
      /\ \E p \in Tables!BuiltInPolicies :
           /\ f.cause \in p.causes \/ \A q \in Tables!BuiltInPolicies : f.cause \notin q.causes
           /\ ~p.alwaysEscalate
           /\ ~(f.confidence < p.confidence)
  BY AutomaticMeans DEF Automatic
<1>2. f # Tables!Uninvestigated
  BY <1>1 DEF Tables!Uninvestigated
<1>3. NewestRun # NoValue /\ f = FindingOf(rows[NewestRun].result)
  BY <1>2 DEF Reading
<1>4. Completed # {}
  BY <1>3 DEF NewestRun, Completed
<1>5. NewestRun \in Completed /\ RowFits(rows[NewestRun])
  BY <1>4, NewestIsCompleted DEF FitsInv, Completed
<1>6. f.confidence \in 0..100
  BY <1>3, <1>5 DEF RowFits, Tables!Findings, Tables!Uninvestigated
<1> HIDE DEF f
<1>7. f.confidence \in 70..100 /\ (f.cause = "FEE_VARIANCE" => f.confidence >= 95)
  <2>1. PICK p \in Tables!BuiltInPolicies :
          /\ f.cause \in p.causes \/ \A q \in Tables!BuiltInPolicies : f.cause \notin q.causes
          /\ ~p.alwaysEscalate
          /\ ~(f.confidence < p.confidence)
    BY <1>1
  <2>2. p.confidence \in 70..95 /\ ("FEE_VARIANCE" \in p.causes => p.confidence = 95)
    BY <2>1, PolicyThresholds
  <2>3. f.cause = "FEE_VARIANCE" => "FEE_VARIANCE" \in p.causes
    BY <2>1, FeeVarianceHasAPolicy
  <2>4. f.confidence >= p.confidence
    BY <1>6, <2>1, <2>2
  <2> QED BY <1>6, <2>2, <2>3, <2>4
<1> QED BY <1>1, <1>3, <1>5, <1>7 DEF f

\* Against its flag for a person, a run is only automatic if it lists two
\* uncertainties: all that the engine asks of it excludes the flag's other reasons.
THEOREM FlaggedIsAutomaticOnlyIfUncertainHolds == Spec => []FlaggedIsAutomaticOnlyIfUncertain
<1>1. ASSUME StampsInv, FitsInv, Automatic, rows[NewestRun].human
      PROVE  Reading.finding.uncertainties >= 2
  <2> DEFINE f == Reading.finding
  <2>1. /\ f = FindingOf(rows[NewestRun].result) /\ RowFits(rows[NewestRun])
        /\ f.confidence \in 70..100 /\ f.cause # "UNKNOWN" /\ ~f.contradiction
    BY <1>1, AutomaticRestsOnARun
  <2>2. Tables!RequiresHuman(f)
    BY <1>1, <2>1 DEF RowFits
  <2> HIDE DEF f
  <2>3. f.uncertainties >= 2
    BY <2>1, <2>2 DEF Tables!RequiresHuman
  <2> QED BY <2>3 DEF f
<1>2. StampsInv /\ FitsInv => FlaggedIsAutomaticOnlyIfUncertain
  BY <1>1 DEF FlaggedIsAutomaticOnlyIfUncertain
<1> QED BY <1>2, StampsHold, FitsHold, PTL

----------------------------------------------------------------------------
(* How large the score can be.                                             *)

\* Two disjoint sets count as much as their union.
LEMMA DisjointUnion ==
  ASSUME NEW S, NEW T, IsFiniteSet(S), IsFiniteSet(T), S \cap T = {}
  PROVE  /\ IsFiniteSet(S \cup T)
         /\ Cardinality(S \cup T) = Cardinality(S) + Cardinality(T)
         /\ Cardinality(S) \in Nat /\ Cardinality(T) \in Nat
<1>1. /\ IsFiniteSet(S \cup T)
      /\ Cardinality(S \cup T) = Cardinality(S) + Cardinality(T) - Cardinality(S \cap T)
  BY FS_Union
<1>2. Cardinality(S \cap T) = 0
  BY FS_EmptySet
<1>3. Cardinality(S) \in Nat /\ Cardinality(T) \in Nat
  BY FS_CardinalityType
<1> QED BY <1>1, <1>2, <1>3

\* No document has two trust levels.
LEMMA TrustIsShared ==
  ASSUME NEW evidence, IsFiniteSet(evidence)
  PROVE  /\ \A level : Score!OfTrust(evidence, level) \in Nat
         /\ Cardinality(evidence) \in Nat
         /\ Score!OfTrust(evidence, "PRIMARY") + Score!OfTrust(evidence, "SECONDARY")
              + Score!OfTrust(evidence, "REFERENCE") + Score!OfTrust(evidence, "HISTORICAL")
              <= Cardinality(evidence)
<1> DEFINE Of(level) == {d \in evidence : d.trust = level}
           PS  == Of("PRIMARY") \cup Of("SECONDARY")
           PSR == PS \cup Of("REFERENCE")
           All == PSR \cup Of("HISTORICAL")
<1>1. \A level : IsFiniteSet(Of(level))
  <2>1. \A level : Of(level) \subseteq evidence
    OBVIOUS
  <2> QED BY <2>1, FS_Subset
<1>2. /\ IsFiniteSet(PS) /\ Cardinality(PS) = Cardinality(Of("PRIMARY")) + Cardinality(Of("SECONDARY"))
  <2>1. Of("PRIMARY") \cap Of("SECONDARY") = {}
    OBVIOUS
  <2> QED BY <1>1, <2>1, DisjointUnion
<1>3. IsFiniteSet(PSR) /\ Cardinality(PSR) = Cardinality(PS) + Cardinality(Of("REFERENCE"))
  <2>1. PS \cap Of("REFERENCE") = {}
    OBVIOUS
  <2> QED BY <1>1, <1>2, <2>1, DisjointUnion
<1>4. IsFiniteSet(All) /\ Cardinality(All) = Cardinality(PSR) + Cardinality(Of("HISTORICAL"))
  <2>1. PSR \cap Of("HISTORICAL") = {}
    OBVIOUS
  <2> QED BY <1>1, <1>3, <2>1, DisjointUnion
<1>5. Cardinality(All) <= Cardinality(evidence)
  <2>1. All \subseteq evidence
    OBVIOUS
  <2> QED BY <2>1, FS_Subset
<1>6. \A level : Cardinality(Of(level)) \in Nat /\ Score!OfTrust(evidence, level) = Cardinality(Of(level))
  BY <1>1, FS_CardinalityType, SameCardinality DEF Score!OfTrust
<1>7. Cardinality(evidence) \in Nat
  BY FS_CardinalityType
<1> HIDE DEF Of, PS, PSR, All
<1> QED BY <1>2, <1>3, <1>4, <1>5, <1>6, <1>7

\* Evidence without the merchant's own records.
OnlyRulesAndCases(evidence) == \A d \in evidence : d.trust \in {"REFERENCE", "HISTORICAL"}

\* A component that averages is at most n.
AtMost(share, n) == share[1] <= n * share[2]

\* The quality of the evidence is 30% of the score at most, and 19.5% without records.
LEMMA QualityIsBounded ==
  ASSUME NEW evidence, IsFiniteSet(evidence)
  PROVE  LET q == Score!EvidenceQuality(evidence)
         IN  /\ AtMost(q, 3000)
             /\ OnlyRulesAndCases(evidence) => AtMost(q, 1950)
             /\ evidence = {} => AtMost(q, 0)
<1> DEFINE q == Score!EvidenceQuality(evidence)
           n == Cardinality(evidence)
           P == Score!OfTrust(evidence, "PRIMARY")
           S == Score!OfTrust(evidence, "SECONDARY")
           R == Score!OfTrust(evidence, "REFERENCE")
           H == Score!OfTrust(evidence, "HISTORICAL")
           t == Score!TotalTrust(evidence)
           s == Score!SmallerOf(n, 5)
<1>1. /\ n \in Nat /\ P \in Nat /\ S \in Nat /\ R \in Nat /\ H \in Nat
      /\ P + S + R + H <= n
  BY TrustIsShared
<1>2. t = 10 * P + 7 * S + 5 * R + 4 * H
  BY DEF Score!TotalTrust
<1>3. n = 0 <=> evidence = {}
  BY FS_EmptySet
<1>4. s \in 0..5 /\ 180 * s * n <= 900 * n
  <2>1. s \in 0..5
    BY <1>1 DEF Score!SmallerOf
  <2> HIDE DEF s, n
  <2>2. \A x \in 0..5, y \in Nat : 180 * x * y <= 900 * y
    <3>1. \A x \in 0..5, y \in Nat : x * y <= 5 * y
      OBVIOUS
    <3> QED BY <3>1
  <2> QED BY <1>1, <2>1, <2>2
<1>5. OnlyRulesAndCases(evidence) => P = 0 /\ S = 0
  <2> SUFFICES ASSUME OnlyRulesAndCases(evidence) PROVE P = 0 /\ S = 0
    OBVIOUS
  <2>1. {d \in evidence : d.trust = "PRIMARY"} = {} /\ {d \in evidence : d.trust = "SECONDARY"} = {}
    BY DEF OnlyRulesAndCases
  <2> QED BY <2>1, FS_EmptySet, SameCardinality DEF Score!OfTrust
<1>6. CASE evidence = {}
  <2>1. q = <<0, 1>>
    BY <1>6 DEF Score!EvidenceQuality
  <2> QED BY <2>1 DEF AtMost
<1>7. CASE evidence # {}
  <2>1. q = <<210 * t + 180 * s * n, n>>
    BY <1>7, SameCardinality DEF Score!EvidenceQuality
  <2> HIDE DEF q, n, P, S, R, H, t, s
  <2>2. 180 * s * n \in Int
    BY <1>1, <1>4
  <2>3. t <= 10 * n /\ t \in Int
    BY <1>1, <1>2
  <2>4. P = 0 /\ S = 0 => t <= 5 * n
    BY <1>1, <1>2
  <2>5. q[1] = 210 * t + 180 * s * n /\ q[2] = n
    BY <2>1
  <2>6. q[1] \in Int /\ q[1] <= 3000 * n /\ (P = 0 /\ S = 0 => q[1] <= 1950 * n)
    <3> DEFINE u == 180 * s * n
    <3> HIDE DEF u
    <3>1. q[1] = 210 * t + u /\ u \in Int /\ u <= 900 * n
      BY <1>4, <2>2, <2>5 DEF u
    <3> QED BY <1>1, <2>3, <2>4, <3>1
  <2>7. n \in Nat \ {0}
    BY <1>1, <1>3, <1>7
  <2> QED BY <1>5, <1>7, <2>5, <2>6, <2>7 DEF q, AtMost
<1> QED BY <1>6, <1>7

\* The cases that were closed with a cause.
ClosedWith(cases, cause) == {c \in cases : cause \in c.words}

\* The cases are 10% of the score at most, and 4% if the cause is that of one in four.
LEMMA HistoryIsBounded ==
  ASSUME NEW cases, IsFiniteSet(cases), NEW cause
  PROVE  LET h == Score!HistoricalMatch(cases, cause)
         IN  /\ AtMost(h, 1000)
             /\ 4 * Cardinality(ClosedWith(cases, cause)) <= Cardinality(cases) =>
                  AtMost(h, 400)
<1> DEFINE h == Score!HistoricalMatch(cases, cause)
           n == Cardinality(cases)
           m == Cardinality(ClosedWith(cases, cause))
<1>1. n \in Nat /\ m \in Nat /\ m <= n /\ (n = 0 <=> cases = {})
  <2>1. ClosedWith(cases, cause) \subseteq cases
    BY DEF ClosedWith
  <2> QED BY <2>1, FS_Subset, FS_CardinalityType, FS_EmptySet
<1>2. CASE cases = {}
  <2>1. h = <<400, 1>>
    BY <1>2 DEF Score!HistoricalMatch
  <2> QED BY <2>1 DEF AtMost
<1>3. CASE cases # {}
  <2>1. h = <<200 * n + 800 * m, n>>
    BY <1>3, SameCardinality DEF Score!HistoricalMatch, ClosedWith
  <2> HIDE DEF h, n, m
  <2>2. h[1] = 200 * n + 800 * m /\ h[2] = n
    BY <2>1
  <2> QED BY <1>1, <1>3, <2>2 DEF h, n, m, AtMost
<1> QED BY <1>2, <1>3

\* The keywords that were found, and how many.
Hits(rules, cause) == Score!Keywords(cause) \cap UNION {d.words : d \in rules}

\* They are finitely many, and no more than the keywords of the cause.
LEMMA HitsAreCounted ==
  ASSUME NEW rules, NEW cause \in Score!RootCauses
  PROVE  /\ IsFiniteSet(Hits(rules, cause))
         /\ Cardinality(Hits(rules, cause)) \in Nat
         /\ Cardinality(Hits(rules, cause)) <= Cardinality(Score!Keywords(cause))
         /\ Cardinality(Score!Keywords(cause)) \in Nat
         /\ Cardinality(Score!Keywords(cause)) = 0 <=> Score!Keywords(cause) = {}
<1>1. IsFiniteSet(Score!Keywords(cause)) /\ Hits(rules, cause) \subseteq Score!Keywords(cause)
  BY KeywordsAreFinite DEF Hits
<1> QED BY <1>1, FS_Subset, FS_CardinalityType, FS_EmptySet

\* The rules are 15% of the score at most.
LEMMA RuleMatchIsShare ==
  ASSUME NEW rules, NEW cause \in Score!RootCauses
  PROVE  Score!RuleMatch(rules, cause) \in 0..1500
<1> DEFINE k == Cardinality(Score!Keywords(cause))
           h == Cardinality(Hits(rules, cause))
<1>1. h \in Nat /\ k \in Nat /\ h <= k /\ (k = 0 <=> Score!Keywords(cause) = {})
  BY HitsAreCounted
<1>2. CASE rules = {}
  BY <1>2 DEF Score!RuleMatch
<1>3. CASE rules # {} /\ Score!Keywords(cause) = {}
  BY <1>3 DEF Score!RuleMatch
<1>4. CASE rules # {} /\ Score!Keywords(cause) # {}
  <2>1. Score!RuleMatch(rules, cause) = (1500 \div k) * h
    BY <1>4, SameCardinality DEF Score!RuleMatch, Hits
  <2>2. \A x \in Nat \ {0}, y \in Nat : y <= x => (1500 \div x) * y \in 0..1500
    <3> SUFFICES ASSUME NEW x \in Nat \ {0}, NEW y \in Nat, y <= x
                 PROVE  (1500 \div x) * y \in 0..1500
      OBVIOUS
    <3>1. PICK z \in Nat : z = 1500 \div x /\ z * x <= 1500
      OBVIOUS
    <3>2. z * y <= z * x /\ z * y \in Nat
      OBVIOUS
    <3> QED BY <3>1, <3>2
  <2> HIDE DEF k, h
  <2>3. (1500 \div k) * h \in 0..1500
    BY <1>1, <1>4, <2>2
  <2> QED BY <2>1, <2>3
<1> QED BY <1>2, <1>3, <1>4

\* Of four keywords, those that no document holds do not count.
LEMMA RuleMatchIsBounded ==
  ASSUME NEW rules, NEW cause \in Score!RootCauses, Cardinality(Score!Keywords(cause)) = 4,
         NEW W, IsFiniteSet(W), Hits(rules, cause) \subseteq W, 2 <= Cardinality(W)
  PROVE  Score!RuleMatch(rules, cause) <= 375 * Cardinality(W)
<1> DEFINE h == Cardinality(Hits(rules, cause))
           w == Cardinality(W)
<1>1. h \in Nat /\ w \in Nat /\ h <= w
  BY HitsAreCounted, FS_Subset, FS_CardinalityType
<1>2. CASE rules = {}
  <2>1. Score!RuleMatch(rules, cause) = 600
    BY <1>2 DEF Score!RuleMatch
  <2> QED BY <1>1, <2>1
<1>3. CASE rules # {}
  <2>1. Score!Keywords(cause) # {}
    BY FS_EmptySet
  <2>2. Score!RuleMatch(rules, cause) = (1500 \div Cardinality(Score!Keywords(cause))) * h
    BY <1>3, <2>1, SameCardinality DEF Score!RuleMatch, Hits
  <2>3. 1500 \div Cardinality(Score!Keywords(cause)) = 375
    OBVIOUS
  <2> QED BY <1>1, <2>2, <2>3
<1> QED BY <1>2, <1>3

\* The prediction is 20% of the score at most, the language model 5%, and the
\* anomaly that no node asks for 10%.
LEMMA SignalsAreBounded ==
  ASSUME NEW ml, PredictionOK(ml), NEW cause, NEW raw \in Int
  PROVE  /\ Score!MlSupport(ml, cause) \in Int /\ Score!MlSupport(ml, cause) <= 2000
         /\ Score!LlmSignal(raw) \in Int /\ Score!LlmSignal(raw) <= 500
         /\ Score!AnomalyAgreement(NoValue, cause) = 1000
<1>1. Score!MlSupport(ml, cause) \in Int /\ Score!MlSupport(ml, cause) <= 2000
  BY DEF PredictionOK, Score!MlSupport, Score!LargerOf
<1>2. Score!LlmSignal(raw) \in Int /\ Score!LlmSignal(raw) <= 500
  BY DEF Score!LlmSignal, Score!LargerOf, Score!SmallerOf
<1> QED BY <1>1, <1>2 DEF Score!AnomalyAgreement

\* The four components that are whole numbers.
Signals(rules, ml, cause, raw) ==
  Score!MlSupport(ml, cause) + Score!AnomalyAgreement(NoValue, cause)
    + Score!RuleMatch(rules, cause) + Score!LlmSignal(raw)

\* Together they are a whole number, at most 3500 above the weight of the rules.
LEMMA SignalsAddUp ==
  ASSUME NEW ml, PredictionOK(ml), NEW cause \in Score!RootCauses, NEW raw \in Int, NEW rules,
         NEW w \in Nat, Score!RuleMatch(rules, cause) <= w
  PROVE  Signals(rules, ml, cause, raw) \in Int /\ Signals(rules, ml, cause, raw) <= w + 3500
<1>1. Score!RuleMatch(rules, cause) \in Int
  BY RuleMatchIsNumber
<1>2. \A a, b, c \in Int :
        a <= 2000 /\ b <= w /\ c <= 500 =>
          a + 1000 + b + c \in Int /\ a + 1000 + b + c <= w + 3500
  OBVIOUS
<1> QED BY <1>1, <1>2, SignalsAreBounded DEF Signals

\* A share of at most n rounds to at most n.
LEMMA RoundedIsBounded ==
  ASSUME NEW a \in Int, NEW b \in Nat \ {0}, NEW n \in Nat, a <= n * b
  PROVE  Score!Rounded(a, b) <= n
<1> DEFINE d == 2 * b
           x == 2 * a + b
<1>1. d \in Nat \ {0} /\ x \in Int /\ x < (n + 1) * d
  OBVIOUS
<1> HIDE DEF d, x
<1>2. x \div d \in Int /\ (x \div d) * d <= x
  BY <1>1
<1>3. ASSUME x \div d >= n + 1 PROVE FALSE
  <2>1. (x \div d) * d >= (n + 1) * d
    BY <1>1, <1>2, <1>3
  <2> QED BY <1>1, <1>2, <2>1
<1>4. x \div d <= n
  BY <1>2, <1>3
<1> QED BY <1>4 DEF Score!Rounded, d, x

\* A component that is a whole number is at most n.
Within(x, n) == x <= n

\* A confidence is at most the sum of what its components are at most.
LEMMA ConfidenceIsBounded ==
  ASSUME NEW g, FieldsOK(g),
         NEW q \in Nat, AtMost(Score!EvidenceQuality(g.evidence), q),
         NEW h \in Nat, AtMost(Score!HistoricalMatch(g.cases, g.cause), h),
         NEW w \in Nat, Within(Score!RuleMatch(g.rules, g.cause), w)
  PROVE  Score!ConfidenceOf(g.evidence, g.rules, g.cases, g.ml, NoValue, g.cause, g.raw,
                            g.contradiction) <= q + h + w + 3500
<1> DEFINE Q == Score!EvidenceQuality(g.evidence)
           H == Score!HistoricalMatch(g.cases, g.cause)
           rest == Signals(g.rules, g.ml, g.cause, g.raw)
           N == (Q[1] + rest * Q[2]) * H[2] + H[1] * Q[2]
           D == Q[2] * H[2]
           raws == Score!RawScore(g.evidence, g.rules, g.cases, g.ml, NoValue, g.cause, g.raw)
<1>0. /\ IsFiniteSet(g.evidence) /\ IsFiniteSet(g.cases) /\ PredictionOK(g.ml)
      /\ g.cause \in Score!RootCauses /\ g.raw \in Int /\ g.contradiction \in BOOLEAN
  BY DEF FieldsOK
<1>1. /\ Q[1] \in Int /\ Q[2] \in Nat \ {0} /\ Q[1] <= q * Q[2]
      /\ H[1] \in Int /\ H[2] \in Nat \ {0} /\ H[1] <= h * H[2]
  BY <1>0, QualityIsFraction, HistoryIsFraction DEF AtMost
<1>2. rest \in Int /\ rest <= w + 3500
  BY <1>0, SignalsAddUp DEF Within
<1>3. raws = Score!Rounded(N, D)
  BY DEF Score!RawScore, Signals
<1>4. N \in Int /\ D \in Nat \ {0} /\ N <= (q + h + w + 3500) * D
  <2> HIDE DEF Q, H, rest
  <2> DEFINE a == Q[1]
             b == Q[2]
             c == H[1]
             d == H[2]
             e == w + 3500
  <2>1. /\ a \in Int /\ b \in Nat \ {0} /\ a <= q * b
        /\ c \in Int /\ d \in Nat \ {0} /\ c <= h * d
        /\ rest \in Int /\ rest <= e /\ e \in Nat
    BY <1>1, <1>2
  <2> HIDE DEF a, b, c, d, e
  <2>2. \A x, y \in Int, z \in Nat : x <= y => x * z <= y * z
    OBVIOUS
  <2>3. /\ rest * b <= e * b /\ a + rest * b <= q * b + e * b
        /\ rest * b \in Int /\ e * b \in Int /\ q * b \in Int
    BY <2>1, <2>2
  <2>4. /\ (a + rest * b) * d <= (q * b + e * b) * d
        /\ (a + rest * b) * d \in Int /\ (q * b + e * b) * d \in Int
    BY <2>1, <2>2, <2>3
  <2>5. c * b <= (h * d) * b /\ c * b \in Int /\ (h * d) * b \in Int
    BY <2>1, <2>2
  <2>6. (q * b + e * b) * d + (h * d) * b = (q + h + e) * (b * d)
    BY <2>1
  <2>7. b * d \in Nat \ {0}
    BY <2>1
  <2>8. (a + rest * b) * d + c * b <= (q + h + e) * (b * d)
    BY <2>4, <2>5, <2>6
  <2>9. q + h + w + 3500 = q + h + e
    BY DEF e
  <2> QED BY <2>4, <2>5, <2>7, <2>8, <2>9 DEF a, b, c, d
<1>5. raws <= q + h + w + 3500 /\ raws \in Int
  <2>1. q + h + w + 3500 \in Nat
    OBVIOUS
  <2> HIDE DEF N, D, raws
  <2> QED BY <1>3, <1>4, <2>1, RoundedIsBounded, RoundedIsNumber
<1> HIDE DEF raws
<1> QED BY <1>0, <1>5 DEF Score!ConfidenceOf, Score!Capped, Score!LargerOf, Score!SmallerOf, raws

----------------------------------------------------------------------------
(* The documents that the seed ingests.                                    *)

Seeded(documents) == \E a, b \in 0..6 : documents = SeededLibrary(a, b)

\* What a score says of its cause and of the evidence it rests on: 60% at most without
\* documents, and less than the 70% a policy asks for with a mismatch of an amount or
\* a date.
ScoreOK(cause, confidence, retrieved) ==
  /\ confidence \in 0..9000
  /\ retrieved = 0 => confidence <= 6000
  /\ cause \in {"AMOUNT_MISMATCH", "DATE_MISMATCH"} => confidence < 7000

\* The state a graph carries comes from the library as the seed has left it.
FoundedIn(g, n, documents, cases) ==
  /\ g.evidence \subseteq documents /\ g.rules \subseteq documents
  /\ g.cases \in {{}, cases}
  /\ g.confidence \in CappedScores
  /\ g.human \in BOOLEAN
  /\ n \in Scored => ScoreOK(g.cause, g.confidence, Cardinality(g.evidence))

FoundedOK(g, n) == FoundedIn(g, n, library, SimilarCases(library, distance))

\* A row has a result if, and only if, it is completed.
RowOK(row) ==
  /\ row.status \in Statuses \cup {"NONE"}
  /\ row.human \in BOOLEAN
  /\ row.status = "COMPLETED" <=> row.result # NoValue
  /\ row.status = "COMPLETED" =>
       /\ row.result \in Results
       /\ ScoreOK(row.result.cause, row.result.confidence, row.result.retrieved)

FoundedInv ==
  /\ Seeded(library)
  /\ distance \in [DocumentNames -> Nat]
  /\ \A r \in Runs : FoundedOK(graph[r], node[r]) /\ RowOK(rows[r])
  /\ broken \subseteq Unlucky
  /\ answers \in [Runs -> {NoValue, "COMPLETED", "FAILED", "ERROR", "LOST"}]

\* What the list of cases holds.
LEMMA CaseList ==
  ASSUME NEW i \in 1..6
  PROVE  /\ HistoricalCases[i].type = "HISTORICAL_CASE"
         /\ HistoricalCases[i].trust = "HISTORICAL"
         /\ HistoricalCases[i].name \in DocumentNames
         /\ "AMOUNT_MISMATCH" \in HistoricalCases[i].words <=> i = 6
         /\ "DATE_MISMATCH" \in HistoricalCases[i].words <=> i = 5
         /\ \A word \in {"discrepancy", "date", "window"} : word \notin HistoricalCases[i].words
         /\ \A j \in 1..6 : HistoricalCases[i].name = HistoricalCases[j].name => i = j
<1>1. Len(HistoricalCases) = 6
  BY DEF HistoricalCases
<1>2. HistoricalCases[i].name \in DocumentNames
  BY <1>1 DEF DocumentNames
<1>3. i \in {1, 2, 3, 4, 5, 6}
  OBVIOUS
<1>4. /\ HistoricalCases[1] = CaseDocument("CASE_001", "FEE_VARIANCE")
      /\ HistoricalCases[2] = CaseDocument("CASE_002", "DUPLICATE")
      /\ HistoricalCases[3] = CaseDocument("CASE_003", "MISSING_SETTLEMENT")
      /\ HistoricalCases[4] = CaseDocument("CASE_004", "REFUND_MISMATCH")
      /\ HistoricalCases[5] = CaseDocument("CASE_005", "DATE_MISMATCH")
      /\ HistoricalCases[6] = CaseDocument("CASE_006", "AMOUNT_MISMATCH")
  BY DEF HistoricalCases
<1>5. /\ HistoricalCases[i].type = "HISTORICAL_CASE"
      /\ HistoricalCases[i].trust = "HISTORICAL"
      /\ "AMOUNT_MISMATCH" \in HistoricalCases[i].words <=> i = 6
      /\ "DATE_MISMATCH" \in HistoricalCases[i].words <=> i = 5
      /\ \A word \in {"discrepancy", "date", "window"} : word \notin HistoricalCases[i].words
  BY <1>3, <1>4 DEF CaseDocument
<1>6. ASSUME NEW j \in 1..6, HistoricalCases[i].name = HistoricalCases[j].name
      PROVE  i = j
  <2>1. j \in {1, 2, 3, 4, 5, 6}
    OBVIOUS
  <2> QED BY <1>3, <1>4, <1>6, <2>1 DEF CaseDocument
<1> QED BY <1>2, <1>5, <1>6

\* What the list of rules holds: none of these words, which are keywords of a cause.
LEMMA RuleList ==
  ASSUME NEW i \in 1..6
  PROVE  /\ FinanceRules[i].type = "FINANCE_RULE"
         /\ FinanceRules[i].trust = "REFERENCE"
         /\ \A word \in {"discrepancy", "date", "window"} : word \notin FinanceRules[i].words
<1>1. i \in {1, 2, 3, 4, 5, 6}
  OBVIOUS
<1>2. CASE i = 1
  BY <1>2 DEF FinanceRules, RuleDocument
<1>3. CASE i = 2
  BY <1>3 DEF FinanceRules, RuleDocument
<1>4. CASE i = 3
  BY <1>4 DEF FinanceRules, RuleDocument
<1>5. CASE i = 4
  BY <1>5 DEF FinanceRules, RuleDocument
<1>6. CASE i = 5
  BY <1>6 DEF FinanceRules, RuleDocument
<1>7. CASE i = 6
  BY <1>7 DEF FinanceRules, RuleDocument
<1> QED BY <1>1, <1>2, <1>3, <1>4, <1>5, <1>6, <1>7

\* A document of the library is a rule or one of the cases.
LEMMA SeededDocuments ==
  ASSUME NEW a \in 0..6, NEW b \in 0..6, NEW d \in SeededLibrary(a, b)
  PROVE  /\ d.trust \in {"REFERENCE", "HISTORICAL"}
         /\ \A word \in {"discrepancy", "date", "window"} : word \notin d.words
         /\ d.type = "HISTORICAL_CASE" <=> d \in Ingested(HistoricalCases, b)
<1>1. CASE d \in Ingested(FinanceRules, a)
  <2>1. PICK i \in 1..6 : d = FinanceRules[i]
    BY <1>1 DEF Ingested
  <2>2. \A j \in 1..b : HistoricalCases[j].type = "HISTORICAL_CASE"
    BY CaseList
  <2>3. d \notin Ingested(HistoricalCases, b)
    BY <2>1, <2>2, RuleList DEF Ingested
  <2> QED BY <2>1, <2>3, RuleList
<1>2. CASE d \in Ingested(HistoricalCases, b)
  <2>1. PICK i \in 1..6 : d = HistoricalCases[i]
    BY <1>2 DEF Ingested
  <2> QED BY <1>2, <2>1, CaseList
<1> QED BY <1>1, <1>2 DEF SeededLibrary

\* As many cases are found as were ingested.
LEMMA CasesAreCounted ==
  ASSUME NEW b \in 0..6
  PROVE  /\ IsFiniteSet(Ingested(HistoricalCases, b))
         /\ Cardinality(Ingested(HistoricalCases, b)) = b
<1> DEFINE f == [i \in 1..b |-> HistoricalCases[i]]
           T == Ingested(HistoricalCases, b)
<1>1. IsFiniteSet(1..b) /\ Cardinality(1..b) = b
  <2>1. 1 \in Int /\ b \in Int /\ b >= 0
    OBVIOUS
  <2>2. /\ IsFiniteSet(1..b)
        /\ Cardinality(1..b) = IF 1 > b THEN 0 ELSE b - 1 + 1
    BY <2>1, FS_Interval
  <2> QED BY <2>1, <2>2
<1>2. f \in Surjection(1..b, T)
  BY DEF Surjection, Ingested
<1>3. f \in Injection(1..b, T)
  <2>1. f \in [1..b -> T]
    BY DEF Ingested
  <2>2. \A i, j \in 1..b : f[i] = f[j] => i = j
    BY CaseList
  <2> HIDE DEF f, T
  <2> QED BY <2>1, <2>2 DEF Injection, IsInjective
<1> HIDE DEF f, T
<1> QED BY <1>1, <1>2, <1>3, FS_Surjection DEF T

\* A search with a limit returns that many documents if there are that many: what is
\* left out has as many documents before it.
LEMMA SearchIsFilled ==
  ASSUME NEW E, IsFiniteSet(E), NEW n \in Nat, n <= Cardinality(E),
         \A d \in E : d.name \in DocumentNames,
         distance \in [DocumentNames -> Nat]
  PROVE  n <= Cardinality({d \in E :
                Cardinality({e \in E : distance[e.name] < distance[d.name]}) < n})
<1> DEFINE Before(d) == {e \in E : distance[e.name] < distance[d.name]}
           R == {d \in E : Cardinality(Before(d)) < n}
<1>1. R \subseteq E /\ IsFiniteSet(R) /\ Cardinality(R) \in Nat /\ Cardinality(E) \in Nat
  BY FS_Subset, FS_CardinalityType
<1>2. SUFFICES ASSUME Cardinality(R) < n PROVE FALSE
  BY <1>1
<1>3. E \ R # {}
  <2> HIDE DEF R
  <2>1. R # E
    BY <1>1, <1>2
  <2> QED BY <1>1, <2>1
<1> DEFINE T == {distance[d.name] : d \in E \ R}
<1>4. T \subseteq Nat /\ T # {}
  BY <1>3
<1>5. PICK k \in T : \A m \in T : k <= m
  BY <1>4, LeastNatural
<1>6. PICK d \in E \ R : k = distance[d.name]
  BY <1>5
<1>7. Before(d) \subseteq R
  <2> SUFFICES ASSUME NEW e \in Before(d), e \notin R PROVE FALSE
    OBVIOUS
  <2>1. e \in E \ R /\ distance[e.name] < distance[d.name]
    OBVIOUS
  <2>2. distance[e.name] \in T
    BY <2>1
  <2>3. distance[d.name] <= distance[e.name]
    BY <1>5, <1>6, <2>2
  <2>4. distance[e.name] \in Nat /\ distance[d.name] \in Nat
    BY <1>6, <2>1
  <2> QED BY <2>1, <2>3, <2>4
<1>8. Cardinality(Before(d)) <= Cardinality(R) /\ Cardinality(Before(d)) \in Nat
  BY <1>1, <1>7, FS_Subset, FS_CardinalityType
<1>9. ~(Cardinality(Before(d)) < n)
  BY <1>6
<1> HIDE DEF Before, R
<1> QED BY <1>1, <1>2, <1>8, <1>9

\* A case closed with an amount or a date mismatch is found only among four cases at
\* least, and it is the only one of its cause.
LEMMA OneCaseInFour ==
  ASSUME Seeded(library), distance \in [DocumentNames -> Nat],
         NEW cause \in {"AMOUNT_MISMATCH", "DATE_MISMATCH"},
         NEW cases \in {{}, SimilarCases(library, distance)}
  PROVE  4 * Cardinality(ClosedWith(cases, cause)) <= Cardinality(cases)
<1>1. PICK a \in 0..6, b \in 0..6 : library = SeededLibrary(a, b)
  BY DEF Seeded
<1> DEFINE E == Ingested(HistoricalCases, b)
           k == IF cause = "AMOUNT_MISMATCH" THEN 6 ELSE 5
<1>2. IsFiniteSet(E) /\ Cardinality(E) = b
  BY CasesAreCounted
<1>3. E = {d \in library : d.type \in {"HISTORICAL_CASE"}}
  <2>1. E \subseteq library
    BY <1>1 DEF SeededLibrary
  <2>2. \A d \in library : d.type = "HISTORICAL_CASE" <=> d \in E
    BY <1>1, SeededDocuments
  <2> HIDE DEF E
  <2> QED BY <2>1, <2>2
<1>4. \A d \in E : \E i \in 1..b : d = HistoricalCases[i]
  BY DEF Ingested
<1>5. cases \subseteq E
  <2>1. SimilarCases(library, distance) \subseteq E
    BY <1>3 DEF SimilarCases, SearchEvidence
  <2> HIDE DEF E
  <2> QED BY <2>1
<1>6. ClosedWith(cases, cause) \subseteq {HistoricalCases[k]}
  <2> SUFFICES ASSUME NEW c \in cases, cause \in c.words PROVE c = HistoricalCases[k]
    BY DEF ClosedWith
  <2>1. PICK i \in 1..6 : c = HistoricalCases[i]
    BY <1>4, <1>5
  <2>2. i = k
    BY <2>1, CaseList
  <2> QED BY <2>1, <2>2
<1>7. CASE ClosedWith(cases, cause) = {}
  <2>1. Cardinality(cases) \in Nat /\ Cardinality(ClosedWith(cases, cause)) = 0
    BY <1>2, <1>5, <1>7, FS_Subset, FS_CardinalityType, FS_EmptySet
  <2> QED BY <2>1
<1>8. CASE ClosedWith(cases, cause) # {}
  <2>1. PICK c \in cases : cause \in c.words
    BY <1>8 DEF ClosedWith
  <2>2. PICK i \in 1..b : c = HistoricalCases[i]
    BY <1>4, <1>5, <2>1
  <2>3. i \in {5, 6} /\ 4 <= b
    BY <2>1, <2>2, CaseList
  <2>4. cases = {d \in E : Cardinality({e \in E : distance[e.name] < distance[d.name]}) < 4}
    <3>1. cases = SimilarCases(library, distance)
      BY <2>1
    <3> HIDE DEF E
    <3> QED BY <1>3, <3>1 DEF SimilarCases, SearchEvidence
  <2>5. \A d \in E : d.name \in DocumentNames
    BY <1>4, CaseList
  <2> HIDE DEF E
  <2>6. 4 <= Cardinality(cases)
    BY <1>2, <2>3, <2>4, <2>5, SearchIsFilled
  <2>7. IsFiniteSet({HistoricalCases[k]}) /\ Cardinality({HistoricalCases[k]}) = 1
    BY FS_Singleton
  <2>8. Cardinality(ClosedWith(cases, cause)) <= 1 /\ Cardinality(ClosedWith(cases, cause)) \in Nat
    BY <1>6, <2>7, FS_Subset, FS_CardinalityType
  <2>9. Cardinality(cases) \in Nat
    BY <1>2, <1>5, FS_Subset, FS_CardinalityType
  <2> QED BY <2>6, <2>8, <2>9
<1> QED BY <1>7, <1>8

\* Two words.
LEMMA TwoWords ==
  ASSUME NEW a, NEW b, a # b
  PROVE  IsFiniteSet({a, b}) /\ Cardinality({a, b}) = 2
<1>1. IsFiniteSet({a}) /\ Cardinality({a}) = 1
  BY FS_Singleton
<1>2. {a, b} = {a} \cup {b} /\ b \notin {a}
  OBVIOUS
<1>3. IsFiniteSet({a} \cup {b}) /\ Cardinality({a} \cup {b}) = Cardinality({a}) + 1
  BY <1>1, <1>2, FS_AddElement
<1> QED BY <1>1, <1>2, <1>3

\* Three words.
LEMMA ThreeWords ==
  ASSUME NEW a, NEW b, NEW c, a # b, a # c, b # c
  PROVE  IsFiniteSet({a, b, c}) /\ Cardinality({a, b, c}) = 3
<1>1. IsFiniteSet({a, b}) /\ Cardinality({a, b}) = 2
  BY TwoWords
<1>2. {a, b, c} = {a, b} \cup {c} /\ c \notin {a, b}
  OBVIOUS
<1>3. IsFiniteSet({a, b} \cup {c}) /\ Cardinality({a, b} \cup {c}) = Cardinality({a, b}) + 1
  BY <1>1, <1>2, FS_AddElement
<1> QED BY <1>1, <1>2, <1>3

\* Four words.
LEMMA FourWords ==
  ASSUME NEW a, NEW b, NEW c, NEW d, a # b, a # c, a # d, b # c, b # d, c # d
  PROVE  Cardinality({a, b, c, d}) = 4
<1>1. IsFiniteSet({a, b, c}) /\ Cardinality({a, b, c}) = 3
  BY ThreeWords
<1>2. {a, b, c, d} = {a, b, c} \cup {d} /\ d \notin {a, b, c}
  OBVIOUS
<1>3. Cardinality({a, b, c} \cup {d}) = Cardinality({a, b, c}) + 1
  BY <1>1, <1>2, FS_AddElement
<1> QED BY <1>1, <1>2, <1>3

\* The rules of the seed hold three keywords of an amount mismatch, and two of a date
\* mismatch.
LEMMA MismatchRules ==
  ASSUME Seeded(library), NEW rules, rules \subseteq library
  PROVE  /\ Score!RuleMatch(rules, "AMOUNT_MISMATCH") <= 1125
         /\ Score!RuleMatch(rules, "DATE_MISMATCH") <= 750
<1>1. \A word \in {"discrepancy", "date", "window"} : word \notin UNION {d.words : d \in rules}
  BY SeededDocuments DEF Seeded
<1>2. Score!RuleMatch(rules, "AMOUNT_MISMATCH") <= 1125
  <2> DEFINE W == {"mismatch", "amount", "difference"}
  <2>1. Score!Keywords("AMOUNT_MISMATCH") = {"mismatch", "amount", "difference", "discrepancy"}
    BY DEF Score!Keywords
  <2>2. IsFiniteSet(W) /\ Cardinality(W) = 3
    BY ThreeWords
  <2>6. Cardinality({"mismatch", "amount", "difference", "discrepancy"}) = 4
    BY FourWords
  <2>3. Hits(rules, "AMOUNT_MISMATCH") \subseteq W
    BY <1>1, <2>1 DEF Hits
  <2>4. "AMOUNT_MISMATCH" \in Score!RootCauses
    BY DEF Score!RootCauses
  <2> HIDE DEF W
  <2>5. Score!RuleMatch(rules, "AMOUNT_MISMATCH") <= 375 * Cardinality(W)
    BY <2>1, <2>2, <2>3, <2>4, <2>6, RuleMatchIsBounded
  <2> QED BY <2>2, <2>5
<1>3. Score!RuleMatch(rules, "DATE_MISMATCH") <= 750
  <2> DEFINE W == {"timing", "delay"}
  <2>1. Score!Keywords("DATE_MISMATCH") = {"timing", "delay", "date", "window"}
    BY DEF Score!Keywords
  <2>2. IsFiniteSet(W) /\ Cardinality(W) = 2
    BY TwoWords
  <2>6. Cardinality({"timing", "delay", "date", "window"}) = 4
    BY FourWords
  <2>3. Hits(rules, "DATE_MISMATCH") \subseteq W
    BY <1>1, <2>1 DEF Hits
  <2>4. "DATE_MISMATCH" \in Score!RootCauses
    BY DEF Score!RootCauses
  <2> HIDE DEF W
  <2>5. Score!RuleMatch(rules, "DATE_MISMATCH") <= 375 * Cardinality(W)
    BY <2>1, <2>2, <2>3, <2>4, <2>6, RuleMatchIsBounded
  <2> QED BY <2>2, <2>5
<1> QED BY <1>2, <1>3

\* What the score of a graph's state is at most, whatever the model and the prediction say.
LEMMA ScoreIsBounded ==
  ASSUME Seeded(library), distance \in [DocumentNames -> Nat], NEW g, FieldsOK(g),
         NEW n, FoundedOK(g, n)
  PROVE  ScoreOK(g.cause, Score!ConfidenceOf(g.evidence, g.rules, g.cases, g.ml, NoValue,
                                             g.cause, g.raw, g.contradiction),
                 Cardinality(g.evidence))
<1> DEFINE c == Score!ConfidenceOf(g.evidence, g.rules, g.cases, g.ml, NoValue, g.cause,
                                   g.raw, g.contradiction)
           Q == Score!EvidenceQuality(g.evidence)
           H == Score!HistoricalMatch(g.cases, g.cause)
           w == Score!RuleMatch(g.rules, g.cause)
<1>1. /\ IsFiniteSet(g.evidence) /\ IsFiniteSet(g.cases) /\ PredictionOK(g.ml)
      /\ g.cause \in Score!RootCauses /\ g.raw \in Int /\ g.contradiction \in BOOLEAN
      /\ g.evidence \subseteq library /\ g.rules \subseteq library
      /\ g.cases \in {{}, SimilarCases(library, distance)}
  BY DEF FieldsOK, FoundedOK, FoundedIn
<1>2. ASSUME NEW q \in Nat, NEW h \in Nat, NEW v \in Nat,
             AtMost(Q, q), AtMost(H, h), Within(w, v)
      PROVE  c <= q + h + v + 3500
  BY <1>2, ConfidenceIsBounded
<1>3. OnlyRulesAndCases(g.evidence)
  BY <1>1, SeededDocuments DEF OnlyRulesAndCases, Seeded
<1>4. AtMost(Q, 1950) /\ AtMost(Q, 3000) /\ (Cardinality(g.evidence) = 0 => AtMost(Q, 0))
  BY <1>1, <1>3, QualityIsBounded, FS_EmptySet
<1>5. /\ AtMost(H, 1000)
      /\ 4 * Cardinality(ClosedWith(g.cases, g.cause)) <= Cardinality(g.cases) =>
           AtMost(H, 400)
  BY <1>1, HistoryIsBounded
<1>6. Within(w, 1500)
  BY <1>1, RuleMatchIsShare DEF Within
<1>7. CappedOK(c, g.contradiction, g.cause)
  BY ConfidenceFits
<1> HIDE DEF c, Q, H, w
<1>8. 0 \in Nat /\ 400 \in Nat /\ 750 \in Nat /\ 1000 \in Nat /\ 1125 \in Nat /\ 1500 \in Nat
      /\ 1950 \in Nat /\ 3000 \in Nat
  OBVIOUS
<1>9. c \in 0..9000
  <2>1. c <= 3000 + 1000 + 1500 + 3500
    BY <1>2, <1>4, <1>5, <1>6, <1>8
  <2> QED BY <1>7, <2>1 DEF CappedOK
<1>10. Cardinality(g.evidence) = 0 => c <= 6000
  <2>1. Cardinality(g.evidence) = 0 => c <= 0 + 1000 + 1500 + 3500
    BY <1>2, <1>4, <1>5, <1>6, <1>8
  <2> QED BY <2>1
<1>11. g.cause = "AMOUNT_MISMATCH" => c < 7000
  <2> SUFFICES ASSUME g.cause = "AMOUNT_MISMATCH" PROVE c < 7000
    OBVIOUS
  <2>1. Within(w, 1125)
    BY <1>1, MismatchRules DEF w, Within
  <2>2. AtMost(H, 400)
    BY <1>1, <1>5, OneCaseInFour
  <2>3. c <= 1950 + 400 + 1125 + 3500
    BY <1>2, <1>4, <1>8, <2>1, <2>2
  <2> QED BY <1>9, <2>3
<1>12. g.cause = "DATE_MISMATCH" => c < 7000
  <2> SUFFICES ASSUME g.cause = "DATE_MISMATCH" PROVE c < 7000
    OBVIOUS
  <2>1. Within(w, 750)
    BY <1>1, MismatchRules DEF w, Within
  <2>2. AtMost(H, 400)
    BY <1>1, <1>5, OneCaseInFour
  <2>3. c <= 1950 + 400 + 750 + 3500
    BY <1>2, <1>4, <1>8, <2>1, <2>2
  <2> QED BY <1>9, <2>3
<1>13. g.cause \in {"AMOUNT_MISMATCH", "DATE_MISMATCH"} => c < 7000
  BY <1>11, <1>12
<1>14. ScoreOK(g.cause, c, Cardinality(g.evidence))
  BY <1>9, <1>10, <1>13 DEF ScoreOK
<1> QED BY <1>14 DEF c

----------------------------------------------------------------------------
(* Every completed row says what its documents bear out.                   *)

\* A search of an investigation returns documents of the library.
LEMMA FoundInLibrary ==
  ASSUME NEW r, NEW documents, documents \subseteq library, NEW d \in Found(r, documents)
  PROVE  d \subseteq library
BY DEF Found

\* Where nothing is scored yet, it is enough that the documents are of the library.
LEMMA UnscoredIsFounded ==
  ASSUME NEW g, NEW n, n \notin Scored, NEW h, FoundedOK(h, "create"),
         g.evidence \subseteq library, g.rules \subseteq library,
         g.cases \in {{}, SimilarCases(library, distance)},
         g.confidence = h.confidence, g.human = h.human
  PROVE  FoundedOK(g, n)
BY DEF FoundedOK, FoundedIn

\* What is right at one point is right before the score, and wherever the score is kept.
LEMMA FoundedElsewhere ==
  ASSUME NEW g, NEW n, FoundedOK(g, n)
  PROVE  /\ g.evidence \subseteq library /\ g.rules \subseteq library
         /\ g.cases \in {{}, SimilarCases(library, distance)}
         /\ \A m : m \notin Scored => FoundedOK(g, m)
         /\ n \in Scored => \A m : FoundedOK(g, m)
BY DEF FoundedOK, FoundedIn

\* Every node that returns leaves a state that comes from the library.
LEMMA GraphStepFounded ==
  ASSUME FoundedInv, FitsInv, NEW r \in Runs, GraphStep(r)
  PROVE  Fail(r) \/ \E g : Return(r, g) /\ FoundedOK(g, NextNode[node[r]])
<1> DEFINE here == graph[r]
<1>0. FieldsOK(here) /\ FoundedOK(here, node[r]) /\ FoundedOK(here, "create")
  <2>1. FieldsOK(here) /\ FoundedOK(here, node[r])
    BY DEF FitsInv, GraphOK, FoundedInv
  <2>2. "create" \notin Scored
    BY DEF Scored
  <2> QED BY <2>1, <2>2, FoundedElsewhere
<1>1. /\ here.evidence \subseteq library /\ here.rules \subseteq library
      /\ here.cases \in {{}, SimilarCases(library, distance)}
  BY <1>0, FoundedElsewhere
<1>2. ASSUME NEW g, NEW n, n \notin Scored,
             g.evidence = here.evidence, g.rules = here.rules, g.cases = here.cases,
             g.confidence = here.confidence, g.human = here.human
      PROVE  FoundedOK(g, n)
  BY <1>0, <1>1, <1>2, UnscoredIsFounded
<1>3. CASE LoadException(r)
  <2> DEFINE g == IF exception.own THEN [here EXCEPT !.data = exception.type] ELSE here
  <2>1. Return(r, g) /\ NextNode[node[r]] \notin Scored
    BY <1>3 DEF LoadException, At, NextNode, Scored
  <2>2. /\ g.evidence = here.evidence /\ g.rules = here.rules /\ g.cases = here.cases
        /\ g.confidence = here.confidence /\ g.human = here.human
    BY <1>0 DEF FieldsOK
  <2> HIDE DEF g
  <2> QED BY <1>2, <2>1, <2>2
<1>4. CASE LoadIntelligence(r) \/ (CheckMlSignals(r) /\ ~Fail(r))
  <2> DEFINE g == [here EXCEPT !.ml = LatestClassification]
  <2>1. Return(r, g) /\ NextNode[node[r]] \notin Scored
    BY <1>4 DEF LoadIntelligence, CheckMlSignals, At, NextNode, Scored
  <2>2. /\ g.evidence = here.evidence /\ g.rules = here.rules /\ g.cases = here.cases
        /\ g.confidence = here.confidence /\ g.human = here.human
    BY <1>0 DEF FieldsOK
  <2> HIDE DEF g
  <2> QED BY <1>2, <2>1, <2>2
<1>5. CASE PlanInvestigation(r)
  <2>1. PICK p : Return(r, [here EXCEPT !.plan = p])
    BY <1>5 DEF PlanInvestigation
  <2> DEFINE g == [here EXCEPT !.plan = p]
  <2>2. Return(r, g) /\ NextNode[node[r]] \notin Scored
    BY <1>5, <2>1 DEF PlanInvestigation, At, NextNode, Scored
  <2>3. /\ g.evidence = here.evidence /\ g.rules = here.rules /\ g.cases = here.cases
        /\ g.confidence = here.confidence /\ g.human = here.human
    BY <1>0 DEF FieldsOK
  <2> HIDE DEF g
  <2> QED BY <1>2, <2>2, <2>3
<1>6. CASE RetrieveEvidence(r) /\ ~Fail(r)
  <2>1. PICK e \in Found(r, PlannedEvidence(library, distance, here.plan)) :
          Return(r, [here EXCEPT !.evidence = e])
    BY <1>6 DEF RetrieveEvidence
  <2> DEFINE g == [here EXCEPT !.evidence = e]
  <2>2. Return(r, g) /\ NextNode[node[r]] \notin Scored
    BY <1>6, <2>1 DEF RetrieveEvidence, At, NextNode, Scored
  <2>3. e \subseteq library
    <3>1. PlannedEvidence(library, distance, here.plan) \subseteq library
      BY DEF PlannedEvidence, SearchEvidence
    <3> QED BY <2>1, <3>1, FoundInLibrary
  <2>4. /\ g.evidence = e /\ g.rules = here.rules /\ g.cases = here.cases
        /\ g.confidence = here.confidence /\ g.human = here.human
    BY <1>0 DEF FieldsOK
  <2> HIDE DEF g
  <2>5. FoundedOK(g, NextNode[node[r]])
    BY <1>0, <1>1, <2>2, <2>3, <2>4, UnscoredIsFounded
  <2> QED BY <2>2, <2>5
<1>7. CASE AnalyzeRecords(r) /\ ~Fail(r)
  <2>1. PICK n : Return(r, [here EXCEPT !.findings = n])
    BY <1>7 DEF AnalyzeRecords
  <2> DEFINE g == [here EXCEPT !.findings = n]
  <2>2. Return(r, g) /\ NextNode[node[r]] \notin Scored
    BY <1>7, <2>1 DEF AnalyzeRecords, At, NextNode, Scored
  <2>3. /\ g.evidence = here.evidence /\ g.rules = here.rules /\ g.cases = here.cases
        /\ g.confidence = here.confidence /\ g.human = here.human
    BY <1>0 DEF FieldsOK
  <2> HIDE DEF g
  <2> QED BY <1>2, <2>2, <2>3
<1>8. CASE CheckFinanceRules(r)
  <2>1. PICK d \in Found(r, FinanceRulesFor(library, distance)) :
          Return(r, [here EXCEPT !.rules = d])
    BY <1>8 DEF CheckFinanceRules
  <2> DEFINE g == [here EXCEPT !.rules = d]
  <2>2. Return(r, g) /\ NextNode[node[r]] \notin Scored
    BY <1>8, <2>1 DEF CheckFinanceRules, At, NextNode, Scored
  <2>3. d \subseteq library
    <3>1. FinanceRulesFor(library, distance) \subseteq library
      BY DEF FinanceRulesFor, SearchEvidence
    <3> QED BY <2>1, <3>1, FoundInLibrary
  <2>4. /\ g.evidence = here.evidence /\ g.rules = d /\ g.cases = here.cases
        /\ g.confidence = here.confidence /\ g.human = here.human
    BY <1>0 DEF FieldsOK
  <2> HIDE DEF g
  <2>5. FoundedOK(g, NextNode[node[r]])
    BY <1>0, <1>1, <2>2, <2>3, <2>4, UnscoredIsFounded
  <2> QED BY <2>2, <2>5
<1>9. CASE CompareHistory(r)
  <2>1. PICK d \in Found(r, SimilarCases(library, distance)) : Return(r, [here EXCEPT !.cases = d])
    BY <1>9 DEF CompareHistory
  <2> DEFINE g == [here EXCEPT !.cases = d]
  <2>2. Return(r, g) /\ NextNode[node[r]] \notin Scored
    BY <1>9, <2>1 DEF CompareHistory, At, NextNode, Scored
  <2>3. d \in {{}, SimilarCases(library, distance)}
    BY <2>1 DEF Found
  <2>4. /\ g.evidence = here.evidence /\ g.rules = here.rules /\ g.cases = d
        /\ g.confidence = here.confidence /\ g.human = here.human
    BY <1>0 DEF FieldsOK
  <2> HIDE DEF g
  <2>5. FoundedOK(g, NextNode[node[r]])
    BY <1>0, <1>1, <2>2, <2>3, <2>4, UnscoredIsFounded
  <2> QED BY <2>2, <2>5
<1>10. CASE DetermineRootCause(r)
  <2>1. ASSUME NEW g, NEW a, FieldsOK(g)
        PROVE  LET h == Heard(g, a)
               IN  /\ h.evidence = g.evidence /\ h.rules = g.rules /\ h.cases = g.cases
                   /\ h.confidence = g.confidence /\ h.human = g.human
    BY <2>1 DEF FieldsOK, Heard
  <2>2. PICK a \in CauseAnswers[r], b \in CauseAnswers[r] :
          Return(r, Heard(here, a)) \/ Return(r, Heard(Heard(here, a), b))
    BY <1>10 DEF DetermineRootCause
  <2>3. FieldsOK(Heard(here, a))
    BY <1>0, HeardFits, InvestigationAssumption
  <2>4. NextNode[node[r]] \notin Scored
    BY <1>10 DEF DetermineRootCause, At, NextNode, Scored
  <2>5. FoundedOK(Heard(here, a), NextNode[node[r]])
    BY <1>0, <1>2, <2>1, <2>4
  <2>6. FoundedOK(Heard(Heard(here, a), b), NextNode[node[r]])
    BY <1>0, <1>2, <2>1, <2>3, <2>4
  <2> QED BY <2>2, <2>5, <2>6
<1>11. CASE ValidateDecision(r) /\ ~Fail(r)
  <2> DEFINE n == Score!ContradictionCount(here.ml, here.cause, here.findings)
             g == [here EXCEPT !.contradiction = n > 0, !.uncertainties = @ + n]
  <2>1. Return(r, g) /\ NextNode[node[r]] \notin Scored
    BY <1>11 DEF ValidateDecision, At, NextNode, Scored
  <2>2. /\ g.evidence = here.evidence /\ g.rules = here.rules /\ g.cases = here.cases
        /\ g.confidence = here.confidence /\ g.human = here.human
    BY <1>0 DEF FieldsOK
  <2> HIDE DEF g
  <2> QED BY <1>2, <2>1, <2>2
<1>12. CASE CalculateConfidence(r)
  <2> DEFINE c == Score!ConfidenceOf(here.evidence, here.rules, here.cases, here.ml, NoValue,
                                     here.cause, here.raw, here.contradiction)
             b == Score!ShouldRequireHuman(c, here.contradiction, here.cause, here.uncertainties)
             g == [here EXCEPT !.confidence = c, !.human = b]
  <2>1. Return(r, g)
    BY <1>12 DEF CalculateConfidence
  <2>2. ScoreOK(here.cause, c, Cardinality(here.evidence))
    BY <1>0, ScoreIsBounded DEF FoundedInv
  <2>3. b \in BOOLEAN
    <3>1. here.contradiction \in BOOLEAN
      BY <1>0 DEF FieldsOK
    <3> HIDE DEF c
    <3> QED BY <3>1 DEF Score!ShouldRequireHuman
  <2> HIDE DEF c, b
  <2>4. /\ g.evidence = here.evidence /\ g.rules = here.rules /\ g.cases = here.cases
        /\ g.cause = here.cause /\ g.confidence = c /\ g.human = b
    BY <1>0 DEF FieldsOK
  <2> HIDE DEF g
  <2>5. FoundedOK(g, NextNode[node[r]])
    BY <1>1, <2>2, <2>3, <2>4 DEF CappedScores, FoundedOK, FoundedIn, ScoreOK
  <2> QED BY <2>1, <2>5
<1>13. CASE GenerateExplanation(r) /\ ~Fail(r)
  <2>1. Return(r, here) /\ node[r] = "generate_explanation"
    BY <1>13 DEF GenerateExplanation, At
  <2>2. node[r] \in Scored
    BY <2>1 DEF Scored
  <2>3. FoundedOK(here, NextNode[node[r]])
    BY <1>0, <2>2, FoundedElsewhere
  <2> QED BY <2>1, <2>3
<1> QED BY <1>3, <1>4, <1>5, <1>6, <1>7, <1>8, <1>9, <1>10, <1>11, <1>12, <1>13
        DEF GraphStep

\* What a completed run leaves is what its graph has scored.
LEMMA ResultIsFounded ==
  ASSUME NEW g, FoundedOK(g, "commit"), GraphOK(g, "commit"), NEW row,
         row.status = "COMPLETED", row.result = ResultOf(g), row.human = g.human
  PROVE  RowOK(row)
<1>1. /\ g.cause \in Score!RootCauses /\ g.contradiction \in BOOLEAN
      /\ g.ids \in Nat /\ g.uncertainties \in Nat /\ IsFiniteSet(g.evidence)
  BY DEF GraphOK, FieldsOK, ValidatedOK, Validated, Explained
<1>2. /\ g.human \in BOOLEAN
      /\ ScoreOK(g.cause, g.confidence, Cardinality(g.evidence))
  BY DEF FoundedOK, FoundedIn, Scored
<1>3. g.confidence \in 0..10000 /\ Cardinality(g.evidence) \in Nat
  BY <1>1, <1>2, FS_CardinalityType DEF ScoreOK
<1>4. ResultOf(g) \in Results
  BY <1>1, <1>3 DEF ResultOf, Results
<1>5. row.result # NoValue
  BY <1>4, InvestigationAssumption
<1>6. /\ row.result.cause = g.cause /\ row.result.confidence = g.confidence
      /\ row.result.retrieved = Cardinality(g.evidence)
  BY DEF ResultOf
<1> QED BY <1>2, <1>4, <1>5, <1>6 DEF RowOK, Statuses

\* What comes from the library does so as long as the library is the same.
LEMMA FoundedStays ==
  ASSUME UNCHANGED <<library, distance>>, NEW x \in Runs,
         NEW g, g = graph'[x], NEW n, n = node'[x], FoundedOK(g, n)
  PROVE  FoundedOK(graph[x], node[x])'
<1>1. SimilarCases(library, distance)' = SimilarCases(library, distance)
  OBVIOUS
<1>2. FoundedIn(g, n, library', SimilarCases(library, distance)')
  BY <1>1 DEF FoundedOK
<1>3. FoundedIn(graph'[x], node'[x], library', SimilarCases(library, distance)')
  BY <1>2
<1> QED BY <1>3 DEF FoundedOK

\* A step that moves one request keeps the invariant if its state is right where it
\* goes, and its row as it is written.
LEMMA OneFounded ==
  ASSUME FoundedInv, RunsInv, NEW r \in Runs, NEW n, NEW g, FoundedOK(g, n),
         node' = [node EXCEPT ![r] = n], graph' = [graph EXCEPT ![r] = g],
         UNCHANGED <<library, distance>>, broken' \subseteq Unlucky,
         answers' \in [Runs -> {NoValue, "COMPLETED", "FAILED", "ERROR", "LOST"}],
         \A x \in Runs : rows'[x] = rows[x] \/ RowOK(rows'[x])
  PROVE  FoundedInv'
<1>2. ASSUME NEW x \in Runs
      PROVE  FoundedOK(graph[x], node[x])'
  <2>1. CASE x = r
    <3>1. graph'[x] = g /\ node'[x] = n
      BY <2>1 DEF RunsInv
    <3> QED BY <3>1, FoundedStays
  <2>2. CASE x # r
    <3>1. graph'[x] = graph[x] /\ node'[x] = node[x] /\ FoundedOK(graph[x], node[x])
      BY <2>2 DEF RunsInv, FoundedInv
    <3> QED BY <3>1, FoundedStays
  <2> QED BY <2>1, <2>2
<1>3. ASSUME NEW x \in Runs
      PROVE  RowOK(rows'[x])
  BY DEF FoundedInv
<1>4. Seeded(library)' /\ distance' \in [DocumentNames -> Nat]
  BY DEF FoundedInv
<1> QED BY <1>2, <1>3, <1>4 DEF FoundedInv, RowOK

\* The state of a request that has not begun, or is over.
LEMMA InitialStateFounded == \A n \in {"create", "over"} : FoundedOK(InitialState, n)
BY DEF CappedScores, FoundedOK, FoundedIn, InitialState, Scored

\* Who is told what is typed.
LEMMA AnswersTyped ==
  ASSUME FoundedInv, NEW r \in Runs, NEW a \in {"COMPLETED", "FAILED", "ERROR", "LOST"}
  PROVE  [answers EXCEPT ![r] = a] \in [Runs -> {NoValue, "COMPLETED", "FAILED", "ERROR", "LOST"}]
BY DEF FoundedInv

\* A run that fails leaves a row without a result.
LEMMA FailFounded ==
  ASSUME FoundedInv, RunsInv, NEW r \in Runs, node[r] \in Working, Fail(r)
  PROVE  FoundedInv'
<1>1. /\ node' = [node EXCEPT ![r] = "over"] /\ graph' = [graph EXCEPT ![r] = InitialState]
      /\ answers' = [answers EXCEPT ![r] = "FAILED"]
      /\ UNCHANGED <<library, distance, broken>>
  BY DEF Fail, Finish, GoTo, world
<1>2. rows[r].status = "RUNNING" /\ RowOK(rows[r])
      /\ rows[r] = [status |-> rows[r].status, result |-> rows[r].result, human |-> rows[r].human]
  BY DEF RunsInv, RunOK, FoundedInv
<1>3. rows[r].result = NoValue
  BY <1>2 DEF RowOK
<1>4. ASSUME NEW x \in Runs PROVE rows'[x] = rows[x] \/ RowOK(rows'[x])
  <2>1. CASE r \in broken
    BY <2>1 DEF Fail
  <2>2. CASE r \notin broken
    <3>1. rows' = [rows EXCEPT ![r] = [status |-> "FAILED", result |-> rows[r].result,
                                       human |-> TRUE]]
      BY <1>2, <2>2 DEF Fail, RunsInv
    <3>2. x = r => rows'[x] = [status |-> "FAILED", result |-> NoValue, human |-> TRUE]
      BY <1>3, <3>1 DEF RunsInv
    <3>3. x # r => rows'[x] = rows[x]
      BY <3>1 DEF RunsInv
    <3>4. RowOK([status |-> "FAILED", result |-> NoValue, human |-> TRUE])
      BY DEF RowOK, Statuses
    <3> QED BY <3>2, <3>3, <3>4
  <2> QED BY <2>1, <2>2
<1>5. broken' \subseteq Unlucky
  BY <1>1 DEF FoundedInv
<1> QED BY <1>1, <1>4, <1>5, AnswersTyped, InitialStateFounded, OneFounded

\* Every step of a request keeps the invariant.
LEMMA RunStepFounded ==
  ASSUME FoundedInv, FitsInv, RunsInv, NEW r \in Runs, RunStep(r)
  PROVE  FoundedInv'
<1>0. /\ FoundedOK(graph[r], node[r])
      /\ graph = [graph EXCEPT ![r] = graph[r]]
      /\ broken \subseteq Unlucky
      /\ answers \in [Runs -> {NoValue, "COMPLETED", "FAILED", "ERROR", "LOST"}]
  BY DEF FoundedInv, RunsInv
<1>1. CASE CreateRow(r)
  <2>1. \A x \in Runs : rows'[x] = rows[x] \/ rows'[x] = RunningRow
    BY <1>1 DEF CreateRow, RunsInv
  <2>2. RowOK(RunningRow)
    BY DEF RowOK, RunningRow, Statuses
  <2>3. FoundedOK(graph[r], "audit")
    BY <1>0, FoundedElsewhere DEF Scored
  <2> QED BY <1>0, <1>1, <2>1, <2>2, <2>3, OneFounded DEF CreateRow, GoTo, world
<1>2. CASE AuditStarted(r) \/ BuildGraph(r)
  <2>1. PICK n \in {"build", "load_exception"} :
          node' = [node EXCEPT ![r] = n]
          /\ UNCHANGED <<rows, graph, library, distance, broken, answers>>
    BY <1>2 DEF AuditStarted, BuildGraph, GoTo, world
  <2>2. FoundedOK(graph[r], n)
    BY <1>0, FoundedElsewhere DEF Scored
  <2> QED BY <1>0, <2>1, <2>2, OneFounded
<1>3. CASE NoProvider(r)
  BY <1>3, FailFounded DEF NoProvider, At, Working, Pcs
<1>4. CASE GraphStep(r)
  <2>1. node[r] \in Working
    BY <1>4, GraphStepReturns DEF Working, Pcs, Nodes, NextNode
  <2>2. CASE Fail(r)
    BY <2>1, <2>2, FailFounded
  <2>3. ASSUME NEW g, Return(r, g), FoundedOK(g, NextNode[node[r]])
        PROVE  FoundedInv'
    BY <1>0, <2>3, OneFounded DEF Return, GoTo, world
  <2> QED BY <1>4, <2>2, <2>3, GraphStepFounded
<1>5. CASE Stamp(r)
  <2>1. node[r] \in Scored
    BY <1>5 DEF Stamp, At, Scored
  <2>2. FoundedOK(graph[r], "commit")
    BY <1>0, <2>1, FoundedElsewhere
  <2> QED BY <1>0, <1>5, <2>2, OneFounded DEF Stamp, GoTo, world
<1>6. CASE CommitResult(r) /\ r \in broken
  <2>1. answers' \in [Runs -> {NoValue, "COMPLETED", "FAILED", "ERROR", "LOST"}]
    BY <1>6, AnswersTyped DEF CommitResult, Finish
  <2> QED BY <1>0, <1>6, <2>1, InitialStateFounded, OneFounded DEF CommitResult, Finish, GoTo, world
<1>7. CASE CommitResult(r) /\ r \notin broken
  <2>1. /\ rows'[r].status = "COMPLETED"
        /\ rows'[r].result = ResultOf(graph[r]) /\ rows'[r].human = graph[r].human
        /\ \A x \in Runs \ {r} : rows'[x] = rows[x]
    <3>1. rows[r] = [status |-> rows[r].status, result |-> rows[r].result,
                     human |-> rows[r].human]
      BY DEF RunsInv, RunOK
    <3>2. rows' = [rows EXCEPT ![r] = [status |-> "COMPLETED", result |-> ResultOf(graph[r]),
                                       human |-> graph[r].human]]
      BY <1>7, <3>1 DEF CommitResult, RunsInv
    <3> QED BY <3>2 DEF RunsInv
  <2>2. node[r] = "commit" /\ node[r] \in Scored
    BY <1>7 DEF CommitResult, At, Scored
  <2>3. GraphOK(graph[r], "commit") /\ FoundedOK(graph[r], "commit")
    BY <1>0, <2>2 DEF FitsInv
  <2>4. RowOK(rows'[r])
    BY <2>1, <2>3, ResultIsFounded
  <2>5. FoundedOK(graph[r], "reply")
    BY <1>0, <2>2, FoundedElsewhere
  <2> QED BY <1>0, <1>7, <2>1, <2>4, <2>5, OneFounded DEF CommitResult, GoTo, world
<1>8. CASE ReturnResult(r)
  <2>1. answers' \in [Runs -> {NoValue, "COMPLETED", "FAILED", "ERROR", "LOST"}]
    BY <1>8, AnswersTyped DEF ReturnResult, Finish
  <2> QED BY <1>0, <1>8, <2>1, InitialStateFounded, OneFounded DEF ReturnResult, Finish, GoTo, world
<1> QED BY <1>1, <1>2, <1>3, <1>4, <1>5, <1>6, <1>7, <1>8 DEF RunStep

\* A fault ends a request, or skips a search and leaves the state as it was.
LEMMA FaultFounded ==
  ASSUME FoundedInv, RunsInv, NEW r \in Runs, Fault(r)
  PROVE  FoundedInv'
<1>0. broken' \subseteq Unlucky /\ UNCHANGED <<rows, library, distance>>
  BY DEF Fault, QueryFails, SearchFails, CommitFails, Crash, FoundedInv, world
<1>1. CASE QueryFails(r) \/ CommitFails(r) \/ Crash(r)
  <2>1. PICK a \in {"FAILED", "ERROR", "LOST"} : Finish(r, a)
    BY <1>1 DEF QueryFails, CommitFails, Crash
  <2>2. answers' \in [Runs -> {NoValue, "COMPLETED", "FAILED", "ERROR", "LOST"}]
    BY <2>1, AnswersTyped DEF Finish
  <2> QED BY <1>0, <2>1, <2>2, InitialStateFounded, OneFounded DEF Finish, GoTo
<1>2. CASE SearchFails(r)
  <2>1. NextNode[node[r]] \notin Scored
    BY <1>2 DEF SearchFails, NextNode, Scored
  <2>2. FoundedOK(graph[r], NextNode[node[r]])
    BY <2>1, FoundedElsewhere DEF FoundedInv
  <2>3. graph' = [graph EXCEPT ![r] = graph[r]]
    BY <1>2 DEF SearchFails, RunsInv
  <2>4. answers' \in [Runs -> {NoValue, "COMPLETED", "FAILED", "ERROR", "LOST"}]
    BY <1>2 DEF SearchFails, FoundedInv
  <2> QED BY <1>0, <1>2, <2>2, <2>3, <2>4, OneFounded DEF SearchFails, GoTo
<1> QED BY <1>1, <1>2 DEF Fault

\* The library is what a seed has ingested, and nothing is completed.
LEMMA FoundedInit == Init => FoundedInv
<1> SUFFICES ASSUME Init PROVE FoundedInv
  OBVIOUS
<1>1. Seeded(library)
  <2>1. PICK s \in Seedings : library = SeededLibrary(s[1], s[2])
    BY DEF Init
  <2>2. s[1] \in 0..6 /\ s[2] \in 0..6
    BY InvestigationAssumption DEF Seeding, FinanceRules, HistoricalCases
  <2> QED BY <2>1, <2>2 DEF Seeded
<1>2. distance \in [DocumentNames -> Nat]
  BY InvestigationAssumption DEF Init
<1>3. ASSUME NEW r \in Runs PROVE FoundedOK(graph[r], node[r]) /\ RowOK(rows[r])
  <2>1. graph[r] = InitialState /\ rows[r] = NoRow
    BY DEF Init
  <2>2. node[r] \in {"create", "over"}
    BY DEF Init
  <2>3. RowOK(NoRow)
    BY DEF RowOK, NoRow
  <2> QED BY <2>1, <2>2, <2>3, InitialStateFounded
<1>4. broken \subseteq Unlucky
      /\ answers \in [Runs -> {NoValue, "COMPLETED", "FAILED", "ERROR", "LOST"}]
  BY DEF Init
<1> QED BY <1>1, <1>2, <1>3, <1>4 DEF FoundedInv

\* Every step keeps the invariant; the ML request changes nothing it is about.
LEMMA FoundedNext == FoundedInv /\ FitsInv /\ RunsInv /\ [Next]_vars => FoundedInv'
<1> SUFFICES ASSUME FoundedInv, FitsInv, RunsInv, [Next]_vars PROVE FoundedInv'
  OBVIOUS
<1>1. ASSUME NEW r \in Runs, RunStep(r) \/ Fault(r)
      PROVE  FoundedInv'
  BY <1>1, RunStepFounded, FaultFounded
<1>2. CASE RunClassifier \/ RunDetector \/ UNCHANGED vars
  <2>1. UNCHANGED <<library, distance, graph, node, rows, broken, answers>>
    BY <1>2 DEF RunClassifier, RunDetector, requests, vars
  <2>2. ASSUME NEW r \in Runs PROVE FoundedOK(graph[r], node[r])' /\ RowOK(rows[r])'
    <3>1. FoundedOK(graph[r], node[r]) /\ graph'[r] = graph[r] /\ node'[r] = node[r]
          /\ RowOK(rows[r])
      BY <2>1 DEF FoundedInv
    <3> QED BY <2>1, <3>1, FoundedStays DEF RowOK
  <2> QED BY <2>1, <2>2 DEF FoundedInv
<1> QED BY <1>1, <1>2 DEF Next, RunMlAnalysis

\* A completed row says what the documents of the library bear out.
THEOREM FoundedHold == Spec => []FoundedInv
BY FoundedInit, FoundedNext, FitsHold, RunsHold, PTL DEF Spec

----------------------------------------------------------------------------
(* What the invariants say of the state, and of what is done automatically. *)

\* Every part of the state has its type: a row has a result if, and only if, it is
\* COMPLETED, and no score is above 90 (models/investigation.py).
THEOREM TypeOKHolds == Spec => []TypeOK
<1>1. StampsInv /\ FoundedInv /\ RunsInv => TypeOK
  <2> SUFFICES ASSUME StampsInv, FoundedInv, RunsInv PROVE TypeOK
    OBVIOUS
  <2>1. mlRequest \in {"asked", "classified", "over"}
    BY DEF StampsInv
  <2>2. ASSUME NEW r \in Runs
        PROVE  /\ rows[r].status \in Statuses \cup {"NONE"}
               /\ rows[r].human \in BOOLEAN
               /\ rows[r].status = "COMPLETED" <=> rows[r].result # NoValue
    BY DEF FoundedInv, RowOK
  <2>3. node \in [Runs -> Pcs]
    BY DEF RunsInv, RunOK
  <2>4. ASSUME NEW r \in Runs PROVE graph[r].confidence \in CappedScores
    <3>1. FoundedIn(graph[r], node[r], library, SimilarCases(library, distance))
      BY DEF FoundedInv, FoundedOK
    <3> QED BY <3>1 DEF FoundedIn
  <2> QED BY <2>1, <2>2, <2>3, <2>4 DEF TypeOK, FoundedInv
<1> QED BY <1>1, StampsHold, FoundedHold, RunsHold, PTL

\* What a score that reaches the threshold of a policy says.
LEMMA HighScore ==
  ASSUME NEW cause, NEW score, NEW retrieved \in Nat, ScoreOK(cause, score, retrieved),
         score \div 100 >= 70, cause = "FEE_VARIANCE" => score \div 100 >= 95
  PROVE  retrieved > 0 /\ cause \notin {"FEE_VARIANCE", "AMOUNT_MISMATCH", "DATE_MISMATCH"}
<1>1. score \in 0..9000
  BY DEF ScoreOK
<1>2. score >= 7000 /\ score \div 100 < 95
  BY <1>1
<1> QED BY <1>1, <1>2 DEF ScoreOK

\* What the score says of the run that decides.
LEMMA AutomaticIsScored ==
  ASSUME StampsInv, FitsInv, FoundedInv, Automatic
  PROVE  /\ rows[NewestRun].result.retrieved > 0
         /\ Reading.finding.cause \notin {"FEE_VARIANCE", "AMOUNT_MISMATCH", "DATE_MISMATCH"}
<1>1. PICK row, f : /\ row = rows[NewestRun] /\ f = Reading.finding
                    /\ f = FindingOf(row.result)
                    /\ RowOK(row) /\ row.status = "COMPLETED"
                    /\ f.confidence \in 70..100
                    /\ f.cause = "FEE_VARIANCE" => f.confidence >= 95
  BY AutomaticRestsOnARun DEF FoundedInv, Completed, Settled
<1>2. PICK result : result = row.result
  OBVIOUS
<1>3. result \in Results /\ ScoreOK(result.cause, result.confidence, result.retrieved)
  BY <1>1, <1>2 DEF RowOK
<1>4. PICK cause, score, retrieved :
        /\ cause = result.cause /\ score = result.confidence /\ retrieved = result.retrieved
        /\ ScoreOK(cause, score, retrieved)
  BY <1>3
<1>5. retrieved \in Nat
  BY <1>3, <1>4 DEF Results
<1>6. f.cause = cause /\ f.confidence = score \div 100
  BY <1>1, <1>2, <1>4 DEF FindingOf
<1>7. score \div 100 >= 70 /\ (cause = "FEE_VARIANCE" => score \div 100 >= 95)
  BY <1>1, <1>6
<1>8. retrieved > 0 /\ cause \notin {"FEE_VARIANCE", "AMOUNT_MISMATCH", "DATE_MISMATCH"}
  BY <1>4, <1>5, <1>7, HighScore
<1> QED BY <1>1, <1>2, <1>4, <1>6, <1>8

\* An automatic action rests on documents the run has found: without any, the score is
\* at most 60, and every policy asks for 70 (agents/confidence.py).
THEOREM AutomaticRestsOnDocumentsHolds == Spec => []AutomaticRestsOnDocuments
<1>1. StampsInv /\ FitsInv /\ FoundedInv => AutomaticRestsOnDocuments
  BY AutomaticIsScored DEF AutomaticRestsOnDocuments
<1> QED BY <1>1, StampsHold, FitsHold, FoundedHold, PTL

\* No exception is resolved automatically with the documents of the seed: a fee variance
\* must be sure to 95%, which no score is, and the mismatches of an amount or a date stay
\* below 70.
THEOREM NothingIsResolvedAutomaticallyHolds == Spec => []NothingIsResolvedAutomatically
<1>1. StampsInv /\ FitsInv /\ FoundedInv => NothingIsResolvedAutomatically
  <2> SUFFICES ASSUME StampsInv, FitsInv, FoundedInv, Automatic
               PROVE  Tables!SelectAction(Reading.finding.cause) # "MARK_EXCEPTION_RESOLVED"
    BY DEF NothingIsResolvedAutomatically
  <2>1. Reading.finding.cause \notin {"FEE_VARIANCE", "AMOUNT_MISMATCH", "DATE_MISMATCH"}
    BY AutomaticIsScored
  <2> QED BY <2>1 DEF Tables!SelectAction
<1> QED BY <1>1, StampsHold, FitsHold, FoundedHold, PTL
===============================================================================
