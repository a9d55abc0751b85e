-------------------------- MODULE InvestigationProofs --------------------------
(***************************************************************************)
(* Proofs about Investigation: what a row says when its request is over,   *)
(* that a settled row is never written again, and that every completed row *)
(* fits the rules of the decision engine.                                  *)
(***************************************************************************)
EXTENDS Investigation, FiniteSetTheorems, TLAPS

----------------------------------------------------------------------------
(* Rows and requests.                                                      *)

\* A request that has its row and has not settled it.
Working == Pcs \ {"create", "reply", "over"}

\* What a row says at each point of its request.
RunOK(row, n, a, isBroken) ==
  /\ row = [status |-> row.status, result |-> row.result, human |-> row.human]
  /\ n \in Pcs
  /\ n = "create" => row.status = "NONE"
  /\ n \in Working => row.status = "RUNNING"
  /\ n = "reply" => row.status = "COMPLETED"
  /\ n = "over" => /\ a = "COMPLETED" => row.status = "COMPLETED"
                   /\ a = "FAILED" => row.status # "COMPLETED"
                   /\ row.status = "RUNNING" => a = "LOST" \/ isBroken

RunsInv ==
  /\ DOMAIN rows = Runs /\ DOMAIN node = Runs /\ DOMAIN answers = Runs /\ DOMAIN graph = Runs
  /\ rows = [r \in Runs |-> rows[r]]
  /\ node = [r \in Runs |-> node[r]]
  /\ answers = [r \in Runs |-> answers[r]]
  /\ graph = [r \in Runs |-> graph[r]]
  /\ \A r \in Runs : RunOK(rows[r], node[r], answers[r], r \in broken)

\* A step of one request keeps the invariant if its own row fits.
LEMMA OneMoves ==
  ASSUME RunsInv, NEW r \in Runs, NEW row, NEW n, NEW a, NEW g,
         RunOK(row, n, a, r \in broken'),
         rows' = [rows EXCEPT ![r] = row], node' = [node EXCEPT ![r] = n],
         answers' = [answers EXCEPT ![r] = a], graph' = [graph EXCEPT ![r] = g],
         \A x \in Runs \ {r} : x \in broken => x \in broken'
  PROVE  RunsInv'
<1>1. ASSUME NEW x \in Runs
      PROVE  RunOK(rows'[x], node'[x], answers'[x], x \in broken')
  <2>1. CASE x = r
    <3>1. rows'[x] = row /\ node'[x] = n /\ answers'[x] = a
      BY <2>1 DEF RunsInv
    <3> QED BY <2>1, <3>1
  <2>2. CASE x # r
    <3>1. rows'[x] = rows[x] /\ node'[x] = node[x] /\ answers'[x] = answers[x]
      BY <2>2 DEF RunsInv
    <3>2. x \in broken => x \in broken'
      BY <2>2
    <3>3. RunOK(rows[x], node[x], answers[x], x \in broken)
      BY DEF RunsInv
    <3> QED BY <3>1, <3>2, <3>3 DEF RunOK
  <2> QED BY <2>1, <2>2
<1>2. /\ DOMAIN rows' = Runs /\ DOMAIN node' = Runs /\ DOMAIN answers' = Runs /\ DOMAIN graph' = Runs
      /\ rows' = [x \in Runs |-> rows'[x]]
      /\ node' = [x \in Runs |-> node'[x]]
      /\ answers' = [x \in Runs |-> answers'[x]]
      /\ graph' = [x \in Runs |-> graph'[x]]
  BY DEF RunsInv
<1> QED BY <1>1, <1>2 DEF RunsInv

\* A request that goes on with its row as it is.
LEMMA GoesOn ==
  ASSUME RunsInv, NEW r \in Runs, NEW n \in Working, NEW g,
         node[r] \in Working, node' = [node EXCEPT ![r] = n],
         graph' = [graph EXCEPT ![r] = g], UNCHANGED <<rows, answers>>,
         broken \subseteq broken'
  PROVE  RunsInv'
<1>1. RunOK(rows[r], n, answers[r], r \in broken')
  BY DEF RunsInv, RunOK, Working
<1>2. /\ rows' = [rows EXCEPT ![r] = rows[r]]
      /\ answers' = [answers EXCEPT ![r] = answers[r]]
  BY DEF RunsInv
<1> QED BY <1>1, <1>2, OneMoves

\* A request that ends without writing its row.
LEMMA EndsAsIs ==
  ASSUME RunsInv, NEW r \in Runs, NEW a \in {"FAILED", "ERROR", "LOST"},
         Finish(r, a), UNCHANGED rows, broken \subseteq broken',
         a = "FAILED" => rows[r].status # "COMPLETED",
         rows[r].status = "RUNNING" => a = "LOST" \/ r \in broken'
  PROVE  RunsInv'
<1>1. RunOK(rows[r], "over", a, r \in broken')
  BY DEF RunsInv, RunOK, Working, Pcs
<1>2. rows' = [rows EXCEPT ![r] = rows[r]]
  BY DEF RunsInv
<1> QED BY <1>1, <1>2, OneMoves DEF Finish, GoTo

\* Every edge leads to a point of the same request.
LEMMA EdgesStayInside == \A n \in Nodes : NextNode[n] \in Working
BY DEF Nodes, NextNode, Working, Pcs

\* A node that returns goes on.
LEMMA ReturnKeeps ==
  ASSUME RunsInv, NEW r \in Runs, NEW g, node[r] \in Nodes, Return(r, g)
  PROVE  RunsInv'
<1>1. node[r] \in Working /\ NextNode[node[r]] \in Working
  BY EdgesStayInside DEF Working, Pcs, Nodes, NextNode
<1>2. /\ node' = [node EXCEPT ![r] = NextNode[node[r]]]
      /\ graph' = [graph EXCEPT ![r] = g]
      /\ UNCHANGED <<rows, answers, broken>>
  BY DEF Return, GoTo
<1> QED BY <1>1, <1>2, GoesOn

\* A run that fails is recorded, unless its session is broken.
LEMMA FailKeeps ==
  ASSUME RunsInv, NEW r \in Runs, node[r] \in Working, Fail(r)
  PROVE  RunsInv'
<1>1. rows[r].status = "RUNNING" /\ UNCHANGED broken
  BY DEF RunsInv, RunOK, Fail
<1>2. CASE r \in broken
  <2>1. UNCHANGED rows /\ Finish(r, "FAILED")
    BY <1>2 DEF Fail
  <2> QED BY <1>1, <1>2, <2>1, EndsAsIs
<1>3. CASE r \notin broken
  <2> DEFINE row == [status |-> "FAILED", result |-> rows[r].result, human |-> TRUE]
  <2>1. rows' = [rows EXCEPT ![r] = row]
    BY <1>3 DEF Fail, RunsInv, RunOK
  <2>2. RunOK(row, "over", "FAILED", r \in broken')
    BY DEF RunOK, Pcs, Working
  <2>3. /\ node' = [node EXCEPT ![r] = "over"]
        /\ answers' = [answers EXCEPT ![r] = "FAILED"]
        /\ graph' = [graph EXCEPT ![r] = InitialState]
    BY DEF Fail, Finish, GoTo
  <2> HIDE DEF row
  <2> QED BY <1>1, <2>1, <2>2, <2>3, OneMoves
<1> QED BY <1>2, <1>3

\* Every step of the graph returns, or fails the run.
LEMMA GraphStepReturns ==
  ASSUME NEW r \in Runs, GraphStep(r)
  PROVE  node[r] \in Nodes /\ (Fail(r) \/ \E g : Return(r, g))
<1>1. CASE LoadException(r)
  BY <1>1 DEF LoadException, At, Nodes, NextNode
<1>2. CASE LoadIntelligence(r)
  BY <1>2 DEF LoadIntelligence, At, Nodes, NextNode
<1>3. CASE PlanInvestigation(r)
  BY <1>3 DEF PlanInvestigation, At, Nodes, NextNode
<1>4. CASE RetrieveEvidence(r)
  BY <1>4 DEF RetrieveEvidence, At, Nodes, NextNode
<1>5. CASE AnalyzeRecords(r)
  BY <1>5 DEF AnalyzeRecords, At, Nodes, NextNode
<1>6. CASE CheckMlSignals(r)
  BY <1>6 DEF CheckMlSignals, At, Nodes, NextNode
<1>7. CASE CheckFinanceRules(r)
  BY <1>7 DEF CheckFinanceRules, At, Nodes, NextNode
<1>8. CASE CompareHistory(r)
  BY <1>8 DEF CompareHistory, At, Nodes, NextNode
<1>9. CASE DetermineRootCause(r)
  BY <1>9 DEF DetermineRootCause, At, Nodes, NextNode
<1>10. CASE ValidateDecision(r)
  BY <1>10 DEF ValidateDecision, At, Nodes, NextNode
<1>11. CASE CalculateConfidence(r)
  BY <1>11 DEF CalculateConfidence, At, Nodes, NextNode
<1>12. CASE GenerateExplanation(r)
  BY <1>12 DEF GenerateExplanation, At, Nodes, NextNode
<1> QED BY <1>1, <1>2, <1>3, <1>4, <1>5, <1>6, <1>7, <1>8, <1>9, <1>10, <1>11, <1>12
        DEF GraphStep

\* Every step of a request keeps the invariant.
LEMMA RunStepKeeps ==
  ASSUME RunsInv, NEW r \in Runs, RunStep(r)
  PROVE  RunsInv'
<1>0. RunOK(rows[r], node[r], answers[r], r \in broken)
  BY DEF RunsInv
<1>1. CASE CreateRow(r)
  <2>1. RunOK(RunningRow, "audit", answers[r], r \in broken')
    BY DEF RunOK, RunningRow, Pcs, Working, Nodes, NextNode
  <2>2. /\ rows' = [rows EXCEPT ![r] = RunningRow] /\ node' = [node EXCEPT ![r] = "audit"]
        /\ answers' = [answers EXCEPT ![r] = answers[r]]
        /\ graph' = [graph EXCEPT ![r] = graph[r]]
        /\ UNCHANGED broken
    BY <1>1 DEF CreateRow, GoTo, RunsInv
  <2> QED BY <2>1, <2>2, OneMoves
<1>2. CASE AuditStarted(r) \/ BuildGraph(r) \/ Stamp(r)
  <2>1. PICK n \in {"build", "load_exception", "commit"} :
          node' = [node EXCEPT ![r] = n] /\ UNCHANGED <<rows, answers, graph, broken>>
    BY <1>2 DEF AuditStarted, BuildGraph, Stamp, GoTo
  <2>2. n \in Working /\ node[r] \in Working
    BY <1>2 DEF AuditStarted, BuildGraph, Stamp, At, Working, Pcs, Nodes, NextNode
  <2>3. graph' = [graph EXCEPT ![r] = graph[r]]
    BY <2>1 DEF RunsInv
  <2> QED BY <2>1, <2>2, <2>3, GoesOn
<1>3. CASE NoProvider(r)
  <2>1. node[r] \in Working /\ Fail(r)
    BY <1>3 DEF NoProvider, At, Working, Pcs, Nodes, NextNode
  <2> QED BY <2>1, FailKeeps
<1>4. CASE GraphStep(r)
  <2>1. node[r] \in Nodes /\ node[r] \in Working
    BY <1>4, GraphStepReturns DEF Working, Pcs, Nodes, NextNode
  <2> QED BY <1>4, <2>1, GraphStepReturns, FailKeeps, ReturnKeeps
<1>5. CASE CommitResult(r)
  <2>1. node[r] \in Working
    BY <1>5 DEF CommitResult, At, Working, Pcs, Nodes, NextNode
  <2>2. CASE r \in broken
    BY <1>5, <2>1, <2>2, EndsAsIs DEF CommitResult
  <2>3. CASE r \notin broken
    <3> DEFINE row == [status |-> "COMPLETED", result |-> ResultOf(graph[r]),
                       human |-> graph[r].human]
    <3>1. rows' = [rows EXCEPT ![r] = row]
      BY <1>0, <1>5, <2>3 DEF CommitResult, RunsInv, RunOK
    <3>2. RunOK(row, "reply", answers[r], r \in broken')
      BY DEF RunOK, Pcs, Working
    <3>3. /\ node' = [node EXCEPT ![r] = "reply"]
          /\ answers' = [answers EXCEPT ![r] = answers[r]]
          /\ graph' = [graph EXCEPT ![r] = graph[r]]
          /\ UNCHANGED broken
      BY <1>5, <2>3 DEF CommitResult, GoTo, RunsInv
    <3> HIDE DEF row
    <3> QED BY <3>1, <3>2, <3>3, OneMoves
  <2> QED BY <2>2, <2>3
<1>6. CASE ReturnResult(r)
  <2>1. RunOK(rows[r], "over", "COMPLETED", r \in broken')
    BY <1>0, <1>6 DEF ReturnResult, At, RunOK, Pcs, Working
  <2>2. /\ rows' = [rows EXCEPT ![r] = rows[r]] /\ node' = [node EXCEPT ![r] = "over"]
        /\ answers' = [answers EXCEPT ![r] = "COMPLETED"]
        /\ graph' = [graph EXCEPT ![r] = InitialState]
        /\ UNCHANGED broken
    BY <1>6 DEF ReturnResult, Finish, GoTo, RunsInv
  <2> QED BY <2>1, <2>2, OneMoves
<1> QED BY <1>1, <1>2, <1>3, <1>4, <1>5, <1>6 DEF RunStep

\* A fault ends a request, or breaks its session and lets it go on.
LEMMA FaultKeeps ==
  ASSUME RunsInv, NEW r \in Runs, Fault(r)
  PROVE  RunsInv'
<1>0. RunOK(rows[r], node[r], answers[r], r \in broken)
  BY DEF RunsInv
<1>1. CASE QueryFails(r)
  <2>1. rows[r].status = "RUNNING" /\ r \in broken' /\ broken \subseteq broken'
    BY <1>0, <1>1 DEF QueryFails, RunOK, Working, Pcs, Nodes, NextNode
  <2> QED BY <1>1, <2>1, EndsAsIs DEF QueryFails
<1>2. CASE SearchFails(r)
  <2>1. node[r] \in Nodes /\ node[r] \in Working /\ NextNode[node[r]] \in Working
    BY <1>2, EdgesStayInside DEF SearchFails, Nodes, NextNode, Working, Pcs
  <2>2. /\ node' = [node EXCEPT ![r] = NextNode[node[r]]]
        /\ graph' = [graph EXCEPT ![r] = graph[r]]
        /\ UNCHANGED <<rows, answers>>
        /\ broken \subseteq broken'
    BY <1>2 DEF SearchFails, GoTo, RunsInv
  <2> QED BY <2>1, <2>2, GoesOn
<1>3. CASE CommitFails(r)
  <2>1. r \in broken' /\ broken \subseteq broken'
    BY <1>3 DEF CommitFails
  <2> QED BY <1>3, <2>1, EndsAsIs DEF CommitFails
<1>4. CASE Crash(r)
  BY <1>4, EndsAsIs DEF Crash
<1> QED BY <1>1, <1>2, <1>3, <1>4 DEF Fault

\* No request has a row before it is made.
LEMMA RunsInit == Init => RunsInv
<1> SUFFICES ASSUME Init PROVE RunsInv
  OBVIOUS
<1>1. PICK b \in Batches : node = [r \in Runs |-> IF r \in b THEN "create" ELSE "over"]
  BY DEF Init
<1>2. ASSUME NEW r \in Runs
      PROVE  RunOK(rows[r], node[r], answers[r], r \in broken)
  <2>1. rows[r] = NoRow /\ answers[r] = NoValue /\ node[r] \in {"create", "over"}
    BY <1>1 DEF Init
  <2> QED BY <2>1, InvestigationAssumption DEF RunOK, NoRow, Pcs, Working
<1> QED BY <1>1, <1>2 DEF Init, RunsInv

\* Every step of the specification keeps the invariant; the ML request touches no row.
LEMMA RunsNext == RunsInv /\ [Next]_vars => RunsInv'
<1> SUFFICES ASSUME RunsInv, [Next]_vars PROVE RunsInv'
  OBVIOUS
<1>1. ASSUME NEW r \in Runs, RunStep(r) \/ Fault(r)
      PROVE  RunsInv'
  BY <1>1, RunStepKeeps, FaultKeeps
<1>2. CASE RunClassifier \/ RunDetector \/ UNCHANGED vars
  <2>1. UNCHANGED <<rows, node, answers, graph, broken>>
    BY <1>2 DEF RunClassifier, RunDetector, requests, vars
  <2> QED BY <2>1 DEF RunsInv
<1> QED BY <1>1, <1>2 DEF Next, RunMlAnalysis

\* At every point a request is at, its row says what that point allows.
THEOREM RunsHold == Spec => []RunsInv
BY RunsInit, RunsNext, PTL DEF Spec

\* Whoever is told of a result finds it in the row, and only a process that died or
\* a session that broke leaves a row RUNNING.
THEOREM AnswerMatchesRowHolds == Spec => []AnswerMatchesRow
<1>1. RunsInv => AnswerMatchesRow
  BY DEF RunsInv, RunOK, AnswerMatchesRow, At, Settled
<1> QED BY <1>1, RunsHold, PTL

\* A row is only written where its request still works on it, so a row that says
\* COMPLETED or FAILED is never written again, whatever fails after its commit.
LEMMA SettledRowStays ==
  ASSUME RunsInv, [Next]_vars, NEW r \in Runs, rows[r].status \in {"COMPLETED", "FAILED"}
  PROVE  rows'[r] = rows[r]
<1>1. node[r] \notin Working \cup {"create"}
  BY DEF RunsInv, RunOK
<1>2. ASSUME NEW x \in Runs, Fail(x), node[x] \in Working
      PROVE  rows'[r] = rows[r]
  BY <1>1, <1>2 DEF Fail, RunsInv
<1>3. ASSUME NEW x \in Runs, RunStep(x)
      PROVE  rows'[r] = rows[r]
  <2>1. CASE CreateRow(x)
    BY <1>1, <2>1 DEF CreateRow, At, RunsInv
  <2>2. CASE AuditStarted(x) \/ BuildGraph(x) \/ Stamp(x) \/ ReturnResult(x)
    BY <2>2 DEF AuditStarted, BuildGraph, Stamp, ReturnResult
  <2>3. CASE NoProvider(x)
    BY <1>2, <2>3 DEF NoProvider, At, Working, Pcs
  <2>4. CASE GraphStep(x)
    <3>1. node[x] \in Working
      BY <2>4, GraphStepReturns DEF Working, Pcs, Nodes, NextNode
    <3> QED BY <1>2, <2>4, <3>1, GraphStepReturns DEF Return
  <2>5. CASE CommitResult(x)
    <3>1. node[x] \in Working
      BY <2>5 DEF CommitResult, At, Working, Pcs
    <3> QED BY <1>1, <2>5, <3>1 DEF CommitResult, RunsInv
  <2> QED BY <1>3, <2>1, <2>2, <2>3, <2>4, <2>5 DEF RunStep
<1>4. ASSUME NEW x \in Runs, Fault(x)
      PROVE  rows'[r] = rows[r]
  BY <1>4 DEF Fault, QueryFails, SearchFails, CommitFails, Crash
<1> QED BY <1>3, <1>4 DEF Next, RunMlAnalysis, RunClassifier, RunDetector, requests, vars

\* No later failure, crash or other request rewrites what a row once said.
THEOREM SettledRowIsFinalHolds == Spec => SettledRowIsFinal
<1>1. RunsInv /\ [Next]_vars =>
        [\A r \in Runs : rows[r].status \in {"COMPLETED", "FAILED"} => rows'[r] = rows[r]]_vars
  BY SettledRowStays
<1> QED BY <1>1, RunsHold, PTL DEF Spec, SettledRowIsFinal

----------------------------------------------------------------------------
(* The score is a number whatever the documents, the prediction and the    *)
(* answer of the language model are.                                       *)

\* The policy's module counts as this one does.
LEMMA SameCardinality == \A S : Score!Cardinality(S) = Cardinality(S)
BY DEF Score!Cardinality, Cardinality

\* How many documents have a trust level is a number.
LEMMA TrustIsCounted ==
  ASSUME NEW evidence, IsFiniteSet(evidence), NEW level
  PROVE  Score!OfTrust(evidence, level) \in Nat
<1>1. IsFiniteSet({d \in evidence : d.trust = level})
  BY FS_Subset
<1> QED BY <1>1, SameCardinality, FS_CardinalityType DEF Score!OfTrust

\* The quality of the evidence is a fraction of integers.
LEMMA QualityIsFraction ==
  ASSUME NEW evidence, IsFiniteSet(evidence)
  PROVE  /\ Score!EvidenceQuality(evidence)[1] \in Int
         /\ Score!EvidenceQuality(evidence)[2] \in Nat \ {0}
<1>1. Cardinality(evidence) \in Nat /\ (Cardinality(evidence) = 0 <=> evidence = {})
  BY FS_CardinalityType, FS_EmptySet
<1>2. Score!TotalTrust(evidence) \in Int
  BY TrustIsCounted DEF Score!TotalTrust
<1>3. Score!SmallerOf(Cardinality(evidence), 5) \in Int
  BY <1>1 DEF Score!SmallerOf
<1>4. 180 * Score!SmallerOf(Cardinality(evidence), 5) * Cardinality(evidence) \in Int
  BY <1>1, <1>3
<1> QED BY <1>1, <1>2, <1>4, SameCardinality DEF Score!EvidenceQuality

\* So is the share of the cases that were closed with the cause.
LEMMA HistoryIsFraction ==
  ASSUME NEW cases, IsFiniteSet(cases), NEW cause
  PROVE  /\ Score!HistoricalMatch(cases, cause)[1] \in Int
         /\ Score!HistoricalMatch(cases, cause)[2] \in Nat \ {0}
<1>1. Cardinality(cases) \in Nat /\ (Cardinality(cases) = 0 <=> cases = {})
  BY FS_CardinalityType, FS_EmptySet
<1>2. IsFiniteSet({c \in cases : cause \in c.words})
  BY FS_Subset
<1>3. Cardinality({c \in cases : cause \in c.words}) \in Nat
  BY <1>2, FS_CardinalityType
<1> QED BY <1>1, <1>3, SameCardinality DEF Score!HistoricalMatch

\* A prediction, or none, as the investigation holds it.
PredictionOK(p) == p = NoValue \/ p.confidence \in 1..100

\* The support of the classifier is a number.
LEMMA SupportIsNumber ==
  ASSUME NEW ml, PredictionOK(ml), NEW cause
  PROVE  Score!MlSupport(ml, cause) \in Int
BY DEF PredictionOK, Score!MlSupport, Score!LargerOf

\* The keywords of a cause are finitely many.
LEMMA KeywordsAreFinite ==
  ASSUME NEW cause \in Score!RootCauses
  PROVE  IsFiniteSet(Score!Keywords(cause))
<1>1. /\ \A a : IsFiniteSet({a})
      /\ \A a, b : IsFiniteSet({a, b})
      /\ \A a, b, c : IsFiniteSet({a, b, c})
      /\ \A a, b, c, d : IsFiniteSet({a, b, c, d})
  <2>1. ASSUME NEW a PROVE IsFiniteSet({a})
    BY FS_Singleton
  <2>2. ASSUME NEW a, NEW b PROVE IsFiniteSet({a, b})
    <3>1. IsFiniteSet({a} \cup {b})
      BY <2>1, FS_AddElement
    <3>2. {a, b} = {a} \cup {b}
      OBVIOUS
    <3> QED BY <3>1, <3>2, Zenon
  <2>3. ASSUME NEW a, NEW b, NEW c PROVE IsFiniteSet({a, b, c})
    <3>1. IsFiniteSet({a, b} \cup {c})
      BY <2>2, FS_AddElement
    <3>2. {a, b, c} = {a, b} \cup {c}
      OBVIOUS
    <3> QED BY <3>1, <3>2, Zenon
  <2>4. ASSUME NEW a, NEW b, NEW c, NEW d PROVE IsFiniteSet({a, b, c, d})
    <3>1. IsFiniteSet({a, b, c} \cup {d})
      BY <2>3, FS_AddElement
    <3>2. {a, b, c, d} = {a, b, c} \cup {d}
      OBVIOUS
    <3> QED BY <3>1, <3>2, Zenon
  <2> QED BY <2>1, <2>2, <2>3, <2>4
<1>2. IsFiniteSet({})
  BY FS_EmptySet
<1> QED BY <1>1, <1>2 DEF Score!Keywords, Score!RootCauses

\* The share of the keywords that the rules hold is a number.
LEMMA RuleMatchIsNumber ==
  ASSUME NEW rules, NEW cause \in Score!RootCauses
  PROVE  Score!RuleMatch(rules, cause) \in Int
<1> DEFINE words == Score!Keywords(cause)
           hits  == words \cap UNION {r.words : r \in rules}
<1>1. IsFiniteSet(words) /\ IsFiniteSet(hits)
  BY KeywordsAreFinite, FS_Subset
<1>2. Cardinality(hits) \in Nat /\ Cardinality(words) \in Nat
      /\ (Cardinality(words) = 0 <=> words = {})
  BY <1>1, FS_CardinalityType, FS_EmptySet
<1>3. CASE words = {}
  BY <1>3 DEF Score!RuleMatch
<1>4. CASE words # {}
  <2>1. 1500 \div Cardinality(words) \in Int
    BY <1>2, <1>4
  <2>2. (1500 \div Cardinality(words)) * Cardinality(hits) \in Int
    BY <1>2, <2>1
  <2> QED BY <1>4, <2>2, SameCardinality DEF Score!RuleMatch
<1> QED BY <1>3, <1>4

\* The quotient of the rounding has a positive denominator.
LEMMA RoundedIsNumber ==
  ASSUME NEW a \in Int, NEW b \in Nat \ {0}
  PROVE  Score!Rounded(a, b) \in Int
<1>1. 2 * b \in Nat \ {0} /\ 2 * a + b \in Int
  OBVIOUS
<1>2. \A n \in Int, d \in Nat \ {0} : n \div d \in Int
  OBVIOUS
<1> QED BY <1>1, <1>2 DEF Score!Rounded

\* The score of an investigation without an anomaly is a number.
LEMMA ScoreIsNumber ==
  ASSUME NEW evidence, NEW rules, NEW cases, IsFiniteSet(evidence), IsFiniteSet(cases),
         NEW ml, PredictionOK(ml), NEW cause \in Score!RootCauses, NEW raw \in Int
  PROVE  Score!RawScore(evidence, rules, cases, ml, NoValue, cause, raw) \in Int
<1> DEFINE quality == Score!EvidenceQuality(evidence)
           history == Score!HistoricalMatch(cases, cause)
           rest    == Score!MlSupport(ml, cause) + Score!AnomalyAgreement(NoValue, cause)
                        + Score!RuleMatch(rules, cause) + Score!LlmSignal(raw)
<1>1. /\ quality[1] \in Int /\ quality[2] \in Nat \ {0}
      /\ history[1] \in Int /\ history[2] \in Nat \ {0}
  BY QualityIsFraction, HistoryIsFraction
<1>2. rest \in Int
  <2>1. Score!AnomalyAgreement(NoValue, cause) \in Int
    BY DEF Score!AnomalyAgreement
  <2>2. Score!LlmSignal(raw) \in Int
    BY DEF Score!LlmSignal, Score!LargerOf, Score!SmallerOf
  <2> QED BY <2>1, <2>2, SupportIsNumber, RuleMatchIsNumber
<1> HIDE DEF quality, history, rest
<1>3. \A x \in Nat \ {0}, y \in Nat \ {0} : x * y \in Nat \ {0}
  OBVIOUS
<1>4. /\ (quality[1] + rest * quality[2]) * history[2] + history[1] * quality[2] \in Int
      /\ quality[2] * history[2] \in Nat \ {0}
  BY <1>1, <1>2, <1>3
<1>5. Score!Rounded((quality[1] + rest * quality[2]) * history[2] + history[1] * quality[2],
                    quality[2] * history[2]) \in Int
  BY <1>4, RoundedIsNumber
<1> QED BY <1>5 DEF Score!RawScore, quality, history, rest

\* A confidence within its caps.
CappedOK(c, contradiction, cause) ==
  /\ c \in 0..10000
  /\ contradiction => c <= 6900
  /\ cause = "UNKNOWN" => c <= 6500

\* Whatever the score is, the confidence is a share, below the medium band with a
\* contradiction and at most 65% with an unknown cause.
LEMMA ConfidenceIsCapped ==
  ASSUME NEW score \in Int, NEW cause, NEW contradiction \in BOOLEAN, NEW c,
         c = Score!LargerOf(0, Score!SmallerOf(10000, Score!Capped(score, cause, contradiction)))
  PROVE  CappedOK(c, contradiction, cause)
BY DEF CappedOK, Score!Capped, Score!LargerOf, Score!SmallerOf

----------------------------------------------------------------------------
(* Every completed row fits the rules of the engine.                       *)

\* The points of a request after each of its last three nodes.
Validated == {"calculate_confidence", "generate_explanation", "stamp", "commit"}
Scored    == {"generate_explanation", "stamp", "commit"}
Explained == {"stamp", "commit"}

\* The parts of a graph's state that the score and the engine read.
FieldsOK(g) ==
  /\ g = [data |-> g.data, plan |-> g.plan, evidence |-> g.evidence,
          findings |-> g.findings, ml |-> g.ml, rules |-> g.rules, cases |-> g.cases,
          cause |-> g.cause, raw |-> g.raw, ids |-> g.ids,
          uncertainties |-> g.uncertainties, contradiction |-> g.contradiction,
          confidence |-> g.confidence, human |-> g.human]
  /\ IsFiniteSet(g.evidence) /\ IsFiniteSet(g.cases)
  /\ PredictionOK(g.ml)
  /\ g.cause \in Score!RootCauses
  /\ g.raw \in Int
  /\ g.findings \in Nat \cup {Malformed}
  /\ g.ids \in Nat \cup {Malformed}
  /\ g.uncertainties \in Nat \cup {Malformed}
  /\ g.contradiction \in BOOLEAN

\* A contradiction that was found is an uncertainty that is named.
ValidatedOK(g) ==
  /\ g.uncertainties \in Nat
  /\ g.contradiction => g.uncertainties > 0

\* The confidence is capped, and the flag for a person was computed from it.
ScoredOK(g) ==
  /\ CappedOK(g.confidence, g.contradiction, g.cause)
  /\ g.human = Score!ShouldRequireHuman(g.confidence, g.contradiction, g.cause,
                                        g.uncertainties)

GraphOK(g, n) ==
  /\ FieldsOK(g)
  /\ n \in Validated => ValidatedOK(g)
  /\ n \in Scored => ScoredOK(g)
  /\ n \in Explained => g.ids \in Nat

RowFits(row) ==
  LET f == FindingOf(row.result)
  IN  f \in Tables!Findings /\ row.human = Tables!RequiresHuman(f)

FitsInv ==
  /\ IsFiniteSet(library)
  /\ DOMAIN latest = Models /\ PredictionOK(LatestClassification)
  /\ \A r \in Runs : GraphOK(graph[r], node[r]) /\ (Settled(r) => RowFits(rows[r]))

\* What the seed ingests is finite, however far it got.
LEMMA LibraryIsFinite ==
  ASSUME NEW a \in Nat, NEW b \in Nat
  PROVE  IsFiniteSet(SeededLibrary(a, b))
<1>1. ASSUME NEW documents, NEW n \in Nat
      PROVE  IsFiniteSet(Ingested(documents, n))
  <2>1. IsFiniteSet(1..n)
    BY FS_Interval
  <2> DEFINE f == [i \in 1..n |-> documents[i]]
  <2>2. f \in Surjection(1..n, Ingested(documents, n))
    BY DEF Surjection, Ingested
  <2> QED BY <2>1, <2>2, FS_Surjection
<1> QED BY <1>1, FS_Union DEF SeededLibrary

\* A search, whether it fails or not, returns finitely many documents.
LEMMA FoundIsFinite ==
  ASSUME NEW documents, IsFiniteSet(documents), NEW r, NEW d \in Found(r, documents)
  PROVE  IsFiniteSet(d)
BY FS_EmptySet DEF Found

\* A search returns documents of the library.
LEMMA SearchStaysInside ==
  ASSUME IsFiniteSet(library), NEW types, NEW limit
  PROVE  IsFiniteSet(SearchEvidence(library, distance, types, limit))
<1>1. SearchEvidence(library, distance, types, limit) \subseteq library
  BY DEF SearchEvidence
<1> QED BY <1>1, FS_Subset

\* An answer of the language model changes the fields it may, understood or not.
LEMMA HeardFits ==
  ASSUME NEW g, FieldsOK(g), NEW a, a = NoReply \/ a \in Reply
  PROVE  FieldsOK(Heard(g, a))
<1>1. CASE a = NoReply
  BY <1>1 DEF Heard
<1>2. CASE a # NoReply /\ a.raw = Malformed
  <2>1. Cause(a) \in Score!RootCauses
    BY DEF Cause, Score!RootCauses
  <2> QED BY <1>2, <2>1 DEF Heard, FieldsOK
<1>3. CASE a # NoReply /\ a.raw # Malformed
  <2>1. Cause(a) \in Score!RootCauses
    BY DEF Cause, Score!RootCauses
  <2>2. a.raw \in Int /\ a.ids \in Nat \cup {Malformed} /\ a.uncertainties \in Nat \cup {Malformed}
    BY <1>3 DEF Reply
  <2> QED BY <1>3, <2>1, <2>2 DEF Heard, FieldsOK
<1> QED BY <1>1, <1>2, <1>3

\* The confidence of a state is capped.
LEMMA ConfidenceFits ==
  ASSUME NEW g, FieldsOK(g), NEW c,
         c = Score!ConfidenceOf(g.evidence, g.rules, g.cases, g.ml, NoValue, g.cause,
                                g.raw, g.contradiction)
  PROVE  CappedOK(c, g.contradiction, g.cause)
<1>1. /\ Score!RawScore(g.evidence, g.rules, g.cases, g.ml, NoValue, g.cause, g.raw) \in Int
      /\ g.contradiction \in BOOLEAN
  BY ScoreIsNumber DEF FieldsOK
<1>2. \E score \in Int : c = Score!LargerOf(0, Score!SmallerOf(10000,
                                Score!Capped(score, g.cause, g.contradiction)))
  BY <1>1 DEF Score!ConfidenceOf
<1> QED BY <1>1, <1>2, ConfidenceIsCapped

\* What the score says of a state, it says of one with the same fields.
LEMMA ScoreCarriesOver ==
  ASSUME NEW g, NEW h, NEW c, CappedOK(c, g.contradiction, g.cause),
         h.confidence = c, h.contradiction = g.contradiction, h.cause = g.cause,
         h.uncertainties = g.uncertainties,
         h.human = Score!ShouldRequireHuman(c, g.contradiction, g.cause, g.uncertainties)
  PROVE  ScoredOK(h)
BY Zenon DEF ScoredOK

\* The node that scores leaves a state that the engine's rules are written for.
LEMMA ScoringFits ==
  ASSUME NEW g, FieldsOK(g), ValidatedOK(g), NEW c,
         c = Score!ConfidenceOf(g.evidence, g.rules, g.cases, g.ml, NoValue, g.cause,
                                g.raw, g.contradiction),
         NEW h, h = [g EXCEPT !.confidence = c,
                              !.human = Score!ShouldRequireHuman(c, g.contradiction, g.cause,
                                                                 g.uncertainties)]
  PROVE  FieldsOK(h) /\ ValidatedOK(h) /\ ScoredOK(h)
<1>1. /\ h.confidence = c /\ h.contradiction = g.contradiction /\ h.cause = g.cause
      /\ h.uncertainties = g.uncertainties
      /\ h.human = Score!ShouldRequireHuman(c, g.contradiction, g.cause, g.uncertainties)
  BY DEF FieldsOK
<1>2. FieldsOK(h)
  BY DEF FieldsOK
<1>3. ValidatedOK(h)
  BY <1>1 DEF ValidatedOK
<1>4. ScoredOK(h)
  BY <1>1, ConfidenceFits, ScoreCarriesOver
<1> QED BY <1>2, <1>3, <1>4

\* The node that validates adds what it found to the uncertainties.
LEMMA ValidationFits ==
  ASSUME NEW g, FieldsOK(g), g.uncertainties \in Nat, NEW n \in Nat,
         NEW b \in BOOLEAN, b => n > 0,
         NEW h, h = [g EXCEPT !.contradiction = b, !.uncertainties = @ + n]
  PROVE  FieldsOK(h) /\ ValidatedOK(h)
<1>1. h.contradiction = b /\ h.uncertainties = g.uncertainties + n
  BY DEF FieldsOK
<1>2. h.uncertainties \in Nat /\ h.uncertainties \in Nat \cup {Malformed}
  BY <1>1
<1>3. FieldsOK(h)
  BY <1>1, <1>2 DEF FieldsOK
<1>4. ValidatedOK(h)
  BY <1>1, <1>2 DEF ValidatedOK
<1> QED BY <1>3, <1>4

\* Every node that returns leaves a state that is right where its edge leads to.
LEMMA GraphStepFits ==
  ASSUME FitsInv, RunsInv, NEW r \in Runs, GraphStep(r)
  PROVE  Fail(r) \/ \E g : Return(r, g) /\ GraphOK(g, NextNode[node[r]])
<1> DEFINE here == graph[r]
<1>0. /\ FieldsOK(here)
      /\ node[r] \in Validated => ValidatedOK(here)
      /\ node[r] \in Scored => ScoredOK(here)
      /\ PredictionOK(LatestClassification)
  BY DEF FitsInv, GraphOK
<1>1. ASSUME NEW g, FieldsOK(g), NextNode[node[r]] \notin Validated
      PROVE  GraphOK(g, NextNode[node[r]])
  BY <1>1 DEF GraphOK, Validated, Scored, Explained
<1>2. CASE LoadException(r)
  <2> DEFINE g == IF exception.own THEN [here EXCEPT !.data = exception.type] ELSE here
  <2>1. Return(r, g) /\ node[r] = "load_exception"
    BY <1>2 DEF LoadException, At
  <2>2. FieldsOK(g)
    BY <1>0 DEF FieldsOK
  <2> QED BY <1>1, <2>1, <2>2 DEF NextNode, Validated
<1>3. CASE LoadIntelligence(r) \/ (CheckMlSignals(r) /\ ~Fail(r))
  <2> DEFINE g == [here EXCEPT !.ml = LatestClassification]
  <2>1. Return(r, g) /\ node[r] \in {"load_intelligence", "check_ml_signals"}
    BY <1>3 DEF LoadIntelligence, CheckMlSignals, At
  <2>2. FieldsOK(g)
    BY <1>0 DEF FieldsOK
  <2> QED BY <1>1, <2>1, <2>2 DEF NextNode, Validated
<1>4. CASE PlanInvestigation(r)
  <2>1. PICK p : Return(r, [here EXCEPT !.plan = p])
    BY <1>4 DEF PlanInvestigation
  <2>2. FieldsOK([here EXCEPT !.plan = p]) /\ node[r] = "plan_investigation"
    BY <1>0, <1>4 DEF FieldsOK, PlanInvestigation, At
  <2> QED BY <1>1, <2>1, <2>2 DEF NextNode, Validated
<1>5. CASE RetrieveEvidence(r) /\ ~Fail(r)
  <2>1. PICK e \in Found(r, PlannedEvidence(library, distance, here.plan)) :
          Return(r, [here EXCEPT !.evidence = e])
    BY <1>5 DEF RetrieveEvidence
  <2>2. IsFiniteSet(e)
    BY <2>1, FoundIsFinite, SearchStaysInside DEF PlannedEvidence, FitsInv
  <2>3. FieldsOK([here EXCEPT !.evidence = e]) /\ node[r] = "retrieve_evidence"
    BY <1>0, <1>5, <2>2 DEF FieldsOK, RetrieveEvidence, At
  <2> QED BY <1>1, <2>1, <2>3 DEF NextNode, Validated
<1>6. CASE AnalyzeRecords(r) /\ ~Fail(r)
  <2>1. PICK n \in FindingAnswers[r] : Return(r, [here EXCEPT !.findings = n])
    BY <1>6 DEF AnalyzeRecords
  <2>2. n \in Nat \cup {Malformed}
    BY InvestigationAssumption
  <2>3. FieldsOK([here EXCEPT !.findings = n]) /\ node[r] = "analyze_records"
    BY <1>0, <1>6, <2>2 DEF FieldsOK, AnalyzeRecords, At
  <2> QED BY <1>1, <2>1, <2>3 DEF NextNode, Validated
<1>7. CASE CheckFinanceRules(r)
  <2>1. PICK d : Return(r, [here EXCEPT !.rules = d])
    BY <1>7 DEF CheckFinanceRules
  <2>2. FieldsOK([here EXCEPT !.rules = d]) /\ node[r] = "check_finance_rules"
    BY <1>0, <1>7 DEF FieldsOK, CheckFinanceRules, At
  <2> QED BY <1>1, <2>1, <2>2 DEF NextNode, Validated
<1>8. CASE CompareHistory(r)
  <2>1. PICK d \in Found(r, SimilarCases(library, distance)) : Return(r, [here EXCEPT !.cases = d])
    BY <1>8 DEF CompareHistory
  <2>2. IsFiniteSet(d)
    BY <2>1, FoundIsFinite, SearchStaysInside DEF SimilarCases, FitsInv
  <2>3. FieldsOK([here EXCEPT !.cases = d]) /\ node[r] = "compare_history"
    BY <1>0, <1>8, <2>2 DEF FieldsOK, CompareHistory, At
  <2> QED BY <1>1, <2>1, <2>3 DEF NextNode, Validated
<1>9. CASE DetermineRootCause(r)
  <2>1. PICK a \in CauseAnswers[r], b \in CauseAnswers[r] :
          Return(r, Heard(here, a)) \/ Return(r, Heard(Heard(here, a), b))
    BY <1>9 DEF DetermineRootCause
  <2>2. (a = NoReply \/ a \in Reply) /\ (b = NoReply \/ b \in Reply)
    BY InvestigationAssumption
  <2>3. FieldsOK(Heard(here, a)) /\ FieldsOK(Heard(Heard(here, a), b))
    BY <1>0, <2>2, HeardFits
  <2>4. node[r] = "determine_root_cause"
    BY <1>9 DEF DetermineRootCause, At
  <2> QED BY <1>1, <2>1, <2>3, <2>4 DEF NextNode, Validated
<1>10. CASE ValidateDecision(r) /\ ~Fail(r)
  <2> DEFINE n == Score!ContradictionCount(here.ml, here.cause, here.findings)
             b == n > 0
             g == [here EXCEPT !.contradiction = b, !.uncertainties = @ + n]
  <2>1. /\ Return(r, g) /\ node[r] = "validate_decision"
        /\ here.findings # Malformed /\ here.uncertainties # Malformed
    BY <1>10 DEF ValidateDecision, At
  <2>2. here.findings \in Nat /\ here.uncertainties \in Nat /\ n \in Nat
    BY <1>0, <2>1 DEF FieldsOK, Score!ContradictionCount
  <2>3. b \in BOOLEAN /\ (b => n > 0)
    BY <2>2
  <2> HIDE DEF n, b
  <2>4. FieldsOK(g) /\ ValidatedOK(g)
    BY <1>0, <2>2, <2>3, ValidationFits
  <2>5. NextNode[node[r]] = "calculate_confidence"
    BY <2>1 DEF NextNode
  <2> HIDE DEF g
  <2> QED BY <2>1, <2>4, <2>5 DEF GraphOK, Validated, Scored, Explained
<1>11. CASE CalculateConfidence(r)
  <2> DEFINE c == Score!ConfidenceOf(here.evidence, here.rules, here.cases, here.ml, NoValue,
                                     here.cause, here.raw, here.contradiction)
             g == [here EXCEPT !.confidence = c,
                               !.human = Score!ShouldRequireHuman(c, here.contradiction,
                                                                  here.cause,
                                                                  here.uncertainties)]
  <2>1. Return(r, g) /\ node[r] = "calculate_confidence"
    BY <1>11 DEF CalculateConfidence, At
  <2>2. ValidatedOK(here)
    BY <1>0, <2>1 DEF Validated
  <2>3. FieldsOK(g) /\ ValidatedOK(g) /\ ScoredOK(g)
    BY <1>0, <2>2, ScoringFits
  <2>4. NextNode[node[r]] = "generate_explanation"
    BY <2>1 DEF NextNode
  <2> HIDE DEF g
  <2> QED BY <2>1, <2>3, <2>4 DEF GraphOK, Validated, Scored, Explained
<1>12. CASE GenerateExplanation(r) /\ ~Fail(r)
  <2>1. Return(r, here) /\ here.ids # Malformed /\ node[r] = "generate_explanation"
    BY <1>12 DEF GenerateExplanation, At
  <2>2. ValidatedOK(here) /\ ScoredOK(here) /\ here.ids \in Nat
    BY <1>0, <2>1 DEF Validated, Scored, FieldsOK
  <2>3. GraphOK(here, NextNode[node[r]])
    BY <1>0, <2>2 DEF GraphOK
  <2> QED BY <2>1, <2>3
<1> QED BY <1>2, <1>3, <1>4, <1>5, <1>6, <1>7, <1>8, <1>9, <1>10, <1>11, <1>12
        DEF GraphStep

\* What a completed run leaves is what the engine's rules are written for.
LEMMA ResultFits ==
  ASSUME NEW g, GraphOK(g, "commit"), NEW row,
         row.result = ResultOf(g), row.human = g.human
  PROVE  RowFits(row)
<1> DEFINE f == FindingOf(row.result)
<1>1. FieldsOK(g) /\ ValidatedOK(g) /\ ScoredOK(g) /\ g.ids \in Nat
  BY DEF GraphOK, Validated, Scored, Explained
<1>2. /\ f = [cause |-> g.cause, confidence |-> g.confidence \div 100,
              contradiction |-> g.contradiction, evidence |-> g.ids,
              uncertainties |-> g.uncertainties]
  BY DEF FindingOf, ResultOf
<1>3. /\ g.confidence \div 100 \in 0..100
      /\ g.confidence < 7000 <=> g.confidence \div 100 < 70
      /\ g.confidence <= 6900 => g.confidence \div 100 <= 69
      /\ g.confidence <= 6500 => g.confidence \div 100 <= 65
  <2> DEFINE c == g.confidence
  <2>1. c \in 0..10000
    BY <1>1 DEF ScoredOK, CappedOK
  <2> HIDE DEF c, f
  <2>2. c \div 100 \in 0..100
    BY <2>1
  <2>3. c < 7000 <=> c \div 100 < 70
    BY <2>1
  <2>4. (c <= 6900 => c \div 100 <= 69) /\ (c <= 6500 => c \div 100 <= 65)
    BY <2>1
  <2> QED BY <2>2, <2>3, <2>4 DEF c
<1>4. g.contradiction => g.confidence <= 6900 /\ g.uncertainties > 0
  BY <1>1 DEF ScoredOK, CappedOK, ValidatedOK
<1>5. g.cause = "UNKNOWN" => g.confidence <= 6500
  BY <1>1 DEF ScoredOK, CappedOK
<1>6. g.cause \in Tables!Causes /\ g.contradiction \in BOOLEAN /\ g.uncertainties \in Nat
  BY <1>1 DEF FieldsOK, ValidatedOK, Score!RootCauses, Tables!Causes, Tables!Types
<1>7. f \in Tables!Findings
  <2>1. f \in [cause : Tables!Causes, confidence : 0..100, contradiction : BOOLEAN,
               evidence : Nat, uncertainties : Nat]
    BY <1>1, <1>2, <1>3, <1>6
  <2>2. /\ f.contradiction => f.confidence <= 69 /\ f.uncertainties > 0
        /\ f.cause = "UNKNOWN" => f.confidence <= 65
    BY <1>2, <1>3, <1>4, <1>5
  <2> HIDE DEF f
  <2> QED BY <2>1, <2>2 DEF Tables!Findings
<1>8. row.human = Tables!RequiresHuman(f)
  <2>1. row.human = (g.contradiction \/ g.confidence < 7000 \/ g.cause = "UNKNOWN"
                       \/ g.uncertainties >= 2)
    BY <1>1 DEF ScoredOK, Score!ShouldRequireHuman
  <2>2. Tables!RequiresHuman(f) = (g.contradiction \/ g.confidence \div 100 < 70
                                    \/ g.cause = "UNKNOWN" \/ g.uncertainties >= 2)
    BY <1>2 DEF Tables!RequiresHuman
  <2> QED BY <1>3, <2>1, <2>2
<1> QED BY <1>7, <1>8 DEF RowFits

\* A step that moves one request keeps the invariant if its state fits where it goes.
LEMMA OneFits ==
  ASSUME FitsInv, RunsInv, NEW r \in Runs, NEW n, NEW g, GraphOK(g, n),
         node' = [node EXCEPT ![r] = n], graph' = [graph EXCEPT ![r] = g],
         UNCHANGED <<library, latest>>,
         \A x \in Runs : rows'[x].status = "COMPLETED" => rows'[x] = rows[x] \/ RowFits(rows'[x])
  PROVE  FitsInv'
<1>1. ASSUME NEW x \in Runs
      PROVE  GraphOK(graph'[x], node'[x])
  <2>1. CASE x = r
    BY <2>1 DEF RunsInv
  <2>2. CASE x # r
    <3>1. graph'[x] = graph[x] /\ node'[x] = node[x]
      BY <2>2 DEF RunsInv
    <3> QED BY <3>1 DEF FitsInv
  <2> QED BY <2>1, <2>2
<1>2. ASSUME NEW x \in Runs, rows'[x].status = "COMPLETED"
      PROVE  RowFits(rows'[x])
  BY <1>2 DEF FitsInv, Settled
<1>3. LatestClassification' = LatestClassification
  BY DEF LatestClassification
<1> QED BY <1>1, <1>2, <1>3 DEF FitsInv, Settled

\* The state of a request that has not begun, or is over.
LEMMA InitialStateFits == GraphOK(InitialState, "create") /\ GraphOK(InitialState, "over")
<1>1. FieldsOK(InitialState)
  BY FS_EmptySet DEF FieldsOK, InitialState, PredictionOK, Score!RootCauses
<1> QED BY <1>1 DEF GraphOK, Validated, Scored, Explained

\* A run that fails leaves no completed row.
LEMMA FailFits ==
  ASSUME FitsInv, RunsInv, NEW r \in Runs, Fail(r)
  PROVE  FitsInv'
<1>1. /\ node' = [node EXCEPT ![r] = "over"] /\ graph' = [graph EXCEPT ![r] = InitialState]
      /\ UNCHANGED <<library, latest>>
  BY DEF Fail, Finish, GoTo, world
<1>2. \A x \in Runs : rows'[x].status = "COMPLETED" => rows'[x] = rows[x]
  BY DEF Fail, RunsInv, RunOK
<1> QED BY <1>1, <1>2, InitialStateFits, OneFits

\* Every step of a request keeps the invariant.
LEMMA RunStepFits ==
  ASSUME FitsInv, RunsInv, NEW r \in Runs, RunStep(r)
  PROVE  FitsInv'
<1>0. GraphOK(graph[r], node[r]) /\ FieldsOK(graph[r]) /\ graph = [graph EXCEPT ![r] = graph[r]]
  BY DEF FitsInv, GraphOK, RunsInv
<1>1. CASE CreateRow(r)
  <2>1. \A x \in Runs : rows'[x].status = "COMPLETED" => rows'[x] = rows[x]
    BY <1>1 DEF CreateRow, RunningRow, RunsInv
  <2>2. GraphOK(graph[r], "audit")
    BY <1>0 DEF GraphOK, Validated, Scored, Explained
  <2> QED BY <1>0, <1>1, <2>1, <2>2, OneFits DEF CreateRow, GoTo, world
<1>2. CASE AuditStarted(r) \/ BuildGraph(r)
  <2>1. PICK n \in {"build", "load_exception"} :
          node' = [node EXCEPT ![r] = n] /\ UNCHANGED <<rows, graph, library, latest>>
    BY <1>2 DEF AuditStarted, BuildGraph, GoTo, world
  <2>2. GraphOK(graph[r], n)
    BY <1>0 DEF GraphOK, Validated, Scored, Explained
  <2> QED BY <1>0, <2>1, <2>2, OneFits
<1>3. CASE NoProvider(r)
  BY <1>3, FailFits DEF NoProvider
<1>4. CASE GraphStep(r)
  <2>1. CASE Fail(r)
    BY <2>1, FailFits
  <2>2. ASSUME NEW g, Return(r, g), GraphOK(g, NextNode[node[r]])
        PROVE  FitsInv'
    BY <2>2, OneFits DEF Return, GoTo, world
  <2> QED BY <1>4, <2>1, <2>2, GraphStepFits
<1>5. CASE Stamp(r)
  <2>1. GraphOK(graph[r], "commit")
    BY <1>0, <1>5 DEF Stamp, At, GraphOK, Validated, Scored, Explained
  <2> QED BY <1>0, <1>5, <2>1, OneFits DEF Stamp, GoTo, world
<1>6. CASE CommitResult(r) /\ r \in broken
  BY <1>6, InitialStateFits, OneFits DEF CommitResult, Finish, GoTo, world
<1>7. CASE CommitResult(r) /\ r \notin broken
  <2>1. /\ rows'[r].result = ResultOf(graph[r]) /\ rows'[r].human = graph[r].human
        /\ \A x \in Runs \ {r} : rows'[x] = rows[x]
    <3>1. rows[r] = [status |-> rows[r].status, result |-> rows[r].result,
                     human |-> rows[r].human]
      BY DEF RunsInv, RunOK
    <3>2. rows' = [rows EXCEPT ![r] = [status |-> "COMPLETED", result |-> ResultOf(graph[r]),
                                       human |-> graph[r].human]]
      BY <1>7, <3>1 DEF CommitResult, RunsInv
    <3> QED BY <3>2 DEF RunsInv
  <2>2. GraphOK(graph[r], "commit") /\ GraphOK(graph[r], "reply")
    BY <1>0, <1>7 DEF CommitResult, At, GraphOK, Validated, Scored, Explained
  <2>3. RowFits(rows'[r])
    BY <2>1, <2>2, ResultFits
  <2> QED BY <1>0, <1>7, <2>1, <2>2, <2>3, OneFits DEF CommitResult, GoTo, world
<1>8. CASE ReturnResult(r)
  BY <1>8, InitialStateFits, OneFits DEF ReturnResult, Finish, GoTo, world
<1> QED BY <1>1, <1>2, <1>3, <1>4, <1>5, <1>6, <1>7, <1>8 DEF RunStep

\* A fault ends a request, or skips a search and leaves the state as it was.
LEMMA FaultFits ==
  ASSUME FitsInv, RunsInv, NEW r \in Runs, Fault(r)
  PROVE  FitsInv'
<1>1. CASE QueryFails(r) \/ CommitFails(r) \/ Crash(r)
  BY <1>1, InitialStateFits, OneFits DEF QueryFails, CommitFails, Crash, Finish, GoTo, world
<1>2. CASE SearchFails(r)
  <2>1. GraphOK(graph[r], NextNode[node[r]])
    <3>1. NextNode[node[r]] \notin Validated
      BY <1>2 DEF SearchFails, NextNode, Validated
    <3> QED BY <3>1 DEF FitsInv, GraphOK, Validated, Scored, Explained
  <2>2. graph' = [graph EXCEPT ![r] = graph[r]]
    BY <1>2 DEF SearchFails, RunsInv
  <2> QED BY <1>2, <2>1, <2>2, OneFits DEF SearchFails, GoTo, world
<1> QED BY <1>1, <1>2 DEF Fault

\* Nothing is completed before a request is made.
LEMMA FitsInit == Init => FitsInv
<1> SUFFICES ASSUME Init PROVE FitsInv
  OBVIOUS
<1>1. IsFiniteSet(library)
  <2>1. PICK s \in Seedings : library = SeededLibrary(s[1], s[2])
    BY DEF Init
  <2>2. s[1] \in Nat /\ s[2] \in Nat
    BY InvestigationAssumption DEF Seeding
  <2> QED BY <2>1, <2>2, LibraryIsFinite
<1>2. DOMAIN latest = Models /\ PredictionOK(LatestClassification)
  BY DEF Init, LatestClassification, Models, PredictionOK
<1>3. \A r \in Runs : GraphOK(graph[r], node[r]) /\ ~Settled(r)
  BY InitialStateFits DEF Init, Settled, NoRow
<1> QED BY <1>1, <1>2, <1>3 DEF FitsInv

\* The ML request only stores predictions that are shares.
LEMMA FitsNext == FitsInv /\ RunsInv /\ [Next]_vars => FitsInv'
<1> SUFFICES ASSUME FitsInv, RunsInv, [Next]_vars PROVE FitsInv'
  OBVIOUS
<1>1. ASSUME NEW r \in Runs, RunStep(r) \/ Fault(r)
      PROVE  FitsInv'
  BY <1>1, RunStepFits, FaultFits
<1>2. CASE RunClassifier
  BY <1>2, InvestigationAssumption
     DEF RunClassifier, Store, requests, FitsInv, Settled, LatestClassification, PredictionOK, Models
<1>3. CASE RunDetector
  BY <1>3 DEF RunDetector, Store, requests, FitsInv, Settled, LatestClassification, Models
<1>4. CASE UNCHANGED vars
  BY <1>4 DEF vars, FitsInv, Settled, LatestClassification
<1> QED BY <1>1, <1>2, <1>3, <1>4 DEF Next, RunMlAnalysis

\* The state of every graph and every completed row are right at each point.
THEOREM FitsHold == Spec => []FitsInv
BY FitsInit, FitsNext, RunsHold, PTL DEF Spec

\* Whatever the library, the predictions, the language model and the faults are, a
\* completed row is one that the engine's risk and stopping rules are written for.
THEOREM FindingFitsEngineHolds == Spec => []FindingFitsEngine
<1>1. FitsInv => FindingFitsEngine
  BY DEF FitsInv, RowFits, FindingFitsEngine
<1> QED BY <1>1, FitsHold, PTL
===============================================================================
