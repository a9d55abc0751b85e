---------------------------- MODULE Investigation ----------------------------
(***************************************************************************)
(* Investigations of one exception (backend/app/agents/investigator.py,    *)
(* graph.py, nodes.py), run at the same time by several requests, and the  *)
(* ML request that adds predictions under them.  A run commits a row       *)
(* RUNNING, walks twelve nodes over a state of its own, and commits the    *)
(* result.  What the controller would read of the rows at any moment goes  *)
(* through the decision engine.                                            *)
(***************************************************************************)
EXTENDS EvidenceLibrary

CONSTANTS
  Runs,                \* the requests for an investigation
  Batches,             \* which of them may be made together
  ExceptionTypes,      \* the types the exception may have
  Amounts,             \* the amounts it may have
  Seedings,            \* how many rules and cases the seed may have ingested
  Distances,           \* how far the documents may be from what the searches ask for
  Classifications,     \* what the classifier may answer
  AnomalyAnswers,      \* what the anomaly detector may answer
  PlanAnswers,         \* per run: the plans the language model may answer
  FindingAnswers,      \* per run: how many of its findings may tell of a contradiction
  CauseAnswers,        \* per run: the root causes it may answer
  Unlucky,             \* the runs in which the database or a search may fail
  NoValue,             \* no row, no prediction, no answer yet
  NoReply,             \* the language model raises, or answers no object
  Malformed            \* a field of the answer that is null or of another type

Score == INSTANCE ConfidencePolicy

Reply == [cause : STRING, raw : Int \cup {Malformed}, ids : Nat \cup {Malformed},
          uncertainties : Nat \cup {Malformed}]

\* What a completed row holds of final_result.
Results == [cause : Score!RootCauses, confidence : 0..10000, contradiction : BOOLEAN,
            evidence : Nat, uncertainties : Nat, retrieved : Nat]

ASSUME InvestigationAssumption ==
  /\ ExceptionTypes \subseteq STRING
  /\ Amounts \subseteq Nat
  /\ \A s \in Seedings : Seeding(s[1], s[2])
  /\ Batches \subseteq SUBSET Runs
  /\ Distances \subseteq [DocumentNames -> Nat]
  /\ \A c \in Classifications : c.confidence \in 1..100
  /\ \A r \in Runs : \A p \in PlanAnswers[r] : p = Malformed \/ p = NoReply \/ p \subseteq SourceTypes
  /\ \A r \in Runs : FindingAnswers[r] \subseteq Nat \cup {Malformed}
  /\ \A r \in Runs : \A a \in CauseAnswers[r] : a = NoReply \/ a \in Reply
  /\ Unlucky \subseteq Runs
  /\ Malformed \notin Int
  /\ NoValue \notin {"COMPLETED", "FAILED", "ERROR", "LOST"}
  /\ NoValue \notin Classifications \cup AnomalyAnswers \cup Results

VARIABLES
  exception,     \* its type, its amount, and whether the merchant owns it
  library,       \* the documents that have an embedding
  distance,      \* of each document from the exception's description
  latest,        \* of each model: its newest stored prediction
  newest,        \* the model that has stored one last
  mlRequest,     \* how far the ML request is
  rows,          \* per run: its row, as committed
  stamps,        \* the runs that have a completed_at, the latest last
  node,          \* per run: what it does next
  graph,         \* per run: the state its graph carries
  broken,        \* the runs whose session the database has failed
  answers        \* per run: the status its caller got

vars == <<exception, library, distance, latest, newest, mlRequest, rows, stamps, node,
          graph, broken, answers>>

----------------------------------------------------------------------------
(* States.                                                                 *)

\* The node each node leads to; from the last one back to run_investigation.
NextNode ==
  [load_exception       |-> "load_intelligence",
   load_intelligence    |-> "plan_investigation",
   plan_investigation   |-> "retrieve_evidence",
   retrieve_evidence    |-> "analyze_records",
   analyze_records      |-> "check_ml_signals",
   check_ml_signals     |-> "check_finance_rules",
   check_finance_rules  |-> "compare_history",
   compare_history      |-> "determine_root_cause",
   determine_root_cause |-> "validate_decision",
   validate_decision    |-> "calculate_confidence",
   calculate_confidence |-> "generate_explanation",
   generate_explanation |-> "stamp"]

Nodes == DOMAIN NextNode

\* initial_state, the texts left out.
InitialState ==
  [data |-> NoValue, plan |-> {}, evidence |-> {}, findings |-> 0, ml |-> NoValue,
   rules |-> {}, cases |-> {}, cause |-> "UNKNOWN", raw |-> 50, ids |-> 0,
   uncertainties |-> 0, contradiction |-> FALSE, confidence |-> 5000, human |-> TRUE]

Models == {"EXCEPTION_CLASSIFIER", "ANOMALY_DETECTOR"}

\* A row, and none yet; the result holds what the controller reads of final_result and, of the
\* persisted steps, how many documents the run retrieved.
NoRow      == [status |-> "NONE", result |-> NoValue, human |-> FALSE]
RunningRow == [status |-> "RUNNING", result |-> NoValue, human |-> FALSE]

ResultOf(g) ==
  [cause |-> g.cause, confidence |-> g.confidence, contradiction |-> g.contradiction,
   evidence |-> g.ids, uncertainties |-> g.uncertainties,
   retrieved |-> Cardinality(g.evidence)]

Init ==
  /\ exception \in [type : ExceptionTypes, amount : Amounts, own : BOOLEAN]
  /\ library \in {SeededLibrary(s[1], s[2]) : s \in Seedings}
  /\ distance \in Distances
  /\ latest = [m \in Models |-> NoValue]
  /\ newest = NoValue
  /\ mlRequest = "asked"
  /\ rows = [r \in Runs |-> NoRow]
  /\ stamps = <<>>
  /\ \E b \in Batches : node = [r \in Runs |-> IF r \in b THEN "create" ELSE "over"]
  /\ graph = [r \in Runs |-> InitialState]
  /\ broken = {}
  /\ answers = [r \in Runs |-> NoValue]

----------------------------------------------------------------------------
(* The start and the two ends of a run (run_investigation).                *)

world == <<exception, library, distance, latest, newest, mlRequest>>

At(r, n) == node[r] = n

GoTo(r, n) == node' = [node EXCEPT ![r] = n]

\* The call is over: its state is gone.
Finish(r, answer) ==
  /\ GoTo(r, "over")
  /\ graph' = [graph EXCEPT ![r] = InitialState]
  /\ answers' = [answers EXCEPT ![r] = answer]

\* The row is committed before anything else happens.
CreateRow(r) ==
  /\ At(r, "create")
  /\ rows' = [rows EXCEPT ![r] = RunningRow]
  /\ GoTo(r, "audit")
  /\ UNCHANGED <<world, stamps, graph, broken, answers>>

AuditStarted(r) ==
  /\ At(r, "audit")
  /\ GoTo(r, "build")
  /\ UNCHANGED <<world, rows, stamps, graph, broken, answers>>

\* The provider's name is committed once the graph is built.
BuildGraph(r) ==
  /\ At(r, "build")
  /\ GoTo(r, "load_exception")
  /\ UNCHANGED <<world, rows, stamps, graph, broken, answers>>

Fail_RowForgotten(r) ==
  /\ UNCHANGED <<world, rows, stamps, broken>>
  /\ Finish(r, "FAILED")

\* _fail: the row is committed FAILED, unless the session is broken: then that
\* commit raises too, and the exception is swallowed.
Fail(r) ==
  /\ IF r \in broken
     THEN UNCHANGED <<rows, stamps>>
     ELSE /\ rows' = [rows EXCEPT ![r].status = "FAILED", ![r].human = TRUE]
          /\ stamps' = Append(stamps, r)
  /\ Finish(r, "FAILED")
  /\ UNCHANGED <<world, broken>>

NoProvider(r) == At(r, "build") /\ Fail(r)

\* completed_at is taken before the commit, so commits may come in another order.
Stamp(r) ==
  /\ At(r, "stamp")
  /\ stamps' = Append(stamps, r)
  /\ GoTo(r, "commit")
  /\ UNCHANGED <<world, rows, graph, broken, answers>>

\* The final commit is outside the try: on a broken session it raises, and the
\* row stays RUNNING.
CommitResult(r) ==
  /\ At(r, "commit")
  /\ IF r \in broken
     THEN Finish(r, "ERROR") /\ UNCHANGED rows
     ELSE /\ rows' = [rows EXCEPT ![r].status = "COMPLETED",
                                  ![r].result = ResultOf(graph[r]),
                                  ![r].human = graph[r].human]
          /\ GoTo(r, "reply")
          /\ UNCHANGED <<graph, answers>>
  /\ UNCHANGED <<world, stamps, broken>>

\* The completed run is audited and its result returned.
ReturnResult(r) ==
  /\ At(r, "reply")
  /\ Finish(r, "COMPLETED")
  /\ UNCHANGED <<world, rows, stamps, broken>>

----------------------------------------------------------------------------
(* The nodes (nodes.py) and the tools they call (tools.py).                *)

\* A node returns the fields it changes, and the edge leads to the next one.
Return(r, g) ==
  /\ graph' = [graph EXCEPT ![r] = g]
  /\ GoTo(r, NextNode[node[r]])
  /\ UNCHANGED <<world, rows, stamps, broken, answers>>

\* An exception of another merchant is not loaded, and the graph goes on without.
LoadException(r) ==
  /\ At(r, "load_exception")
  /\ Return(r, IF exception.own THEN [graph[r] EXCEPT !.data = exception.type] ELSE graph[r])

\* get_ml_prediction: the newest answer of the classifier.
LatestClassification == latest["EXCEPTION_CLASSIFIER"]

LoadIntelligence(r) ==
  /\ At(r, "load_intelligence")
  /\ Return(r, [graph[r] EXCEPT !.ml = LatestClassification])

\* Every fallback plan names records, whatever the type.
FallbackPlan(type) ==
  CASE type \in {"FEE_VARIANCE", "DATE_MISMATCH"} -> {"TRANSACTION", "SETTLEMENT", "FINANCE_RULE"}
    [] type = "MISSING_INVOICE" -> {"TRANSACTION", "INVOICE", "HISTORICAL_CASE"}
    [] type = "DUPLICATE"       -> {"TRANSACTION", "SETTLEMENT", "HISTORICAL_CASE"}
    [] type = "REFUND_MISMATCH" -> {"TRANSACTION", "SETTLEMENT", "INVOICE", "HISTORICAL_CASE"}
    [] OTHER -> {"TRANSACTION", "SETTLEMENT", "FINANCE_RULE", "HISTORICAL_CASE"}

PlanInvestigation(r) ==
  /\ At(r, "plan_investigation")
  /\ \E p \in PlanAnswers[r] :
       Return(r, [graph[r] EXCEPT !.plan = IF p = NoReply THEN FallbackPlan(graph[r].data)
                                           ELSE p])

\* search_evidence: no document on any error, whether it is the embedding's or
\* that of a session that is broken.
Found(r, documents) ==
  IF r \in broken THEN {{}} ELSE IF r \in Unlucky THEN {documents, {}} ELSE {documents}

\* A plan that is no list raises when it is filtered.
RetrieveEvidence(r) ==
  /\ At(r, "retrieve_evidence")
  /\ IF graph[r].plan = Malformed THEN Fail(r)
     ELSE \E e \in Found(r, PlannedEvidence(library, distance, graph[r].plan)) :
            Return(r, [graph[r] EXCEPT !.evidence = e])

\* null raises here, a list of other things than texts in validate_decision.
AnalyzeRecords(r) ==
  /\ At(r, "analyze_records")
  /\ \E n \in FindingAnswers[r] :
       \/ Return(r, [graph[r] EXCEPT !.findings = n])
       \/ n = Malformed /\ Fail(r)

CheckMlSignals(r) ==
  /\ At(r, "check_ml_signals")
  /\ IF r \in broken THEN Fail(r)
     ELSE Return(r, [graph[r] EXCEPT !.ml = LatestClassification])

CheckFinanceRules(r) ==
  /\ At(r, "check_finance_rules")
  /\ \E d \in Found(r, FinanceRulesFor(library, distance)) : Return(r, [graph[r] EXCEPT !.rules = d])

CompareHistory(r) ==
  /\ At(r, "compare_history")
  /\ \E d \in Found(r, SimilarCases(library, distance)) : Return(r, [graph[r] EXCEPT !.cases = d])

Understood(a) == a # NoReply /\ a.raw # Malformed

Cause(a) == IF a.cause \in Score!RootCauses THEN a.cause ELSE "UNKNOWN"

\* The cause is taken before the confidence is converted, so an answer that is
\* given up leaves its cause behind, and nothing else.
Heard(g, a) ==
  IF a = NoReply THEN g
  ELSE IF a.raw = Malformed THEN [g EXCEPT !.cause = Cause(a)]
  ELSE [g EXCEPT !.cause = Cause(a), !.raw = a.raw, !.ids = a.ids,
                 !.uncertainties = a.uncertainties]

\* Two attempts, the second only if the first was not understood.
DetermineRootCause(r) ==
  /\ At(r, "determine_root_cause")
  /\ \E a \in CauseAnswers[r] :
       IF Understood(a) THEN Return(r, Heard(graph[r], a))
       ELSE \E b \in CauseAnswers[r] : Return(r, Heard(Heard(graph[r], a), b))

\* Each contradiction becomes an uncertainty.
ValidateDecision(r) ==
  /\ At(r, "validate_decision")
  /\ IF graph[r].findings = Malformed \/ graph[r].uncertainties = Malformed THEN Fail(r)
     ELSE LET g == graph[r]
              n == Score!ContradictionCount(g.ml, g.cause, g.findings)
          IN  Return(r, [g EXCEPT !.contradiction = n > 0, !.uncertainties = @ + n])

\* No node asks for an anomaly, so that component stays neutral.
CalculateConfidence(r) ==
  /\ At(r, "calculate_confidence")
  /\ LET g == graph[r]
         c == Score!ConfidenceOf(g.evidence, g.rules, g.cases, g.ml, NoValue, g.cause,
                                 g.raw, g.contradiction)
     IN  Return(r, [g EXCEPT !.confidence = c,
                             !.human = Score!ShouldRequireHuman(c, g.contradiction, g.cause,
                                                                g.uncertainties)])

\* Evidence ids that cannot be joined raise, like a conclusion that is no text.
GenerateExplanation(r) ==
  /\ At(r, "generate_explanation")
  /\ \/ graph[r].ids # Malformed /\ Return(r, graph[r])
     \/ Fail(r)

----------------------------------------------------------------------------
(* Faults.                                                                 *)

\* A query of a node that does not catch it: _fail cannot commit either.
QueryFails(r) ==
  /\ r \in Unlucky
  /\ node[r] \in {"load_exception", "load_intelligence", "check_ml_signals"}
  /\ broken' = broken \cup {r}
  /\ Finish(r, "FAILED")
  /\ UNCHANGED <<world, rows, stamps>>

\* A query of a search: the node goes on without documents on a broken session.
SearchFails(r) ==
  /\ r \in Unlucky \ broken
  /\ node[r] \in {"retrieve_evidence", "check_finance_rules", "compare_history"}
  /\ graph[r].plan # Malformed
  /\ broken' = broken \cup {r}
  /\ GoTo(r, NextNode[node[r]])
  /\ UNCHANGED <<world, rows, stamps, graph, answers>>

CommitFails_RowOverwritten(r) ==
  /\ r \in Unlucky
  /\ node[r] \in {"commit", "reply"}
  /\ rows' = [rows EXCEPT ![r].status = "FAILED", ![r].human = TRUE]
  /\ Finish(r, "FAILED")
  /\ UNCHANGED <<world, stamps, broken>>

\* A commit outside the graph: the request ends with an error.
CommitFails(r) ==
  /\ r \in Unlucky
  /\ node[r] \in {"create", "audit", "build", "commit", "reply"}
  /\ broken' = broken \cup {r}
  /\ Finish(r, "ERROR")
  /\ UNCHANGED <<world, rows, stamps>>

\* The process dies, and nothing looks at its rows when another one starts.
Crash(r) ==
  /\ node[r] \notin {"create", "over"}
  /\ Finish(r, "LOST")
  /\ UNCHANGED <<world, rows, stamps, broken>>

----------------------------------------------------------------------------
(* The ML request (routes/intelligence.py, ml/inference.py).               *)

requests == <<rows, stamps, node, graph, broken, answers>>

Store(model, prediction) ==
  /\ latest' = [latest EXCEPT ![model] = prediction]
  /\ newest' = model

\* Models that are not trained, another merchant's exception or a failure end the
\* request at any point, with what it has stored so far.
RunClassifier ==
  /\ mlRequest = "asked" /\ exception.own
  /\ \E p \in Classifications : Store("EXCEPTION_CLASSIFIER", p)
  /\ mlRequest' = "classified"
  /\ UNCHANGED <<exception, library, distance, requests>>

RunDetector ==
  /\ mlRequest = "classified"
  /\ \E p \in AnomalyAnswers : Store("ANOMALY_DETECTOR", p)
  /\ mlRequest' = "over"
  /\ UNCHANGED <<exception, library, distance, requests>>

\* run_ml_analysis: the classifier, then the detector.
RunMlAnalysis == RunClassifier \/ RunDetector

----------------------------------------------------------------------------
GraphStep(r) ==
  \/ LoadException(r)       \/ LoadIntelligence(r)  \/ PlanInvestigation(r)
  \/ RetrieveEvidence(r)    \/ AnalyzeRecords(r)    \/ CheckMlSignals(r)
  \/ CheckFinanceRules(r)   \/ CompareHistory(r)    \/ DetermineRootCause(r)
  \/ ValidateDecision(r)    \/ CalculateConfidence(r)
  \/ GenerateExplanation(r)

RunStep(r) ==
  \/ CreateRow(r) \/ AuditStarted(r) \/ BuildGraph(r) \/ NoProvider(r)
  \/ GraphStep(r)
  \/ Stamp(r) \/ CommitResult(r) \/ ReturnResult(r)

Fault(r) == QueryFails(r) \/ SearchFails(r) \/ CommitFails(r) \/ Crash(r)

Next ==
  \/ \E r \in Runs : RunStep(r) \/ Fault(r)
  \/ RunMlAnalysis

Spec == Init /\ [][Next]_vars

----------------------------------------------------------------------------
(* What the controller reads (_process_exception) and what follows.        *)

Settled(r) == rows[r].status = "COMPLETED"

StampOf(r) == IF \E i \in 1..Len(stamps) : stamps[i] = r
              THEN CHOOSE i \in 1..Len(stamps) : stamps[i] = r
              ELSE 0

NewestRun_AnyStatus ==
  LET candidates == {r \in Runs : StampOf(r) # 0}
  IN  IF candidates = {} THEN NoValue
      ELSE CHOOSE r \in candidates : \A q \in candidates : StampOf(q) <= StampOf(r)

NewestRun_Ascending ==
  LET candidates == {r \in Runs : Settled(r)}
  IN  IF candidates = {} THEN NoValue
      ELSE CHOOSE r \in candidates : \A q \in candidates : StampOf(q) >= StampOf(r)

\* The completed run with the latest completed_at.
NewestRun ==
  LET candidates == {r \in Runs : Settled(r)}
  IN  IF candidates = {} THEN NoValue
      ELSE CHOOSE r \in candidates : \A q \in candidates : StampOf(q) <= StampOf(r)

\* The engine with the four built-in policies in force and the kill switch off.
Tables == INSTANCE DecisionEngine WITH
            Confidences <- 0..100, MlConfidences <- 0..100, EvidenceCounts <- Nat,
            UncertaintyCounts <- Nat, PolicySets <- {}, case <- NoValue,
            policies <- {}, killSwitch <- FALSE, verdict <- NoValue
Engine == INSTANCE DecisionEngine WITH
            Confidences <- 0..100, MlConfidences <- 0..100, EvidenceCounts <- Nat,
            UncertaintyCounts <- Nat, PolicySets <- {}, case <- NoValue,
            policies <- Tables!BuiltInPolicies, killSwitch <- FALSE, verdict <- NoValue

\* The engine's confidences are whole percentages, and so are its thresholds.
FindingOf(result) ==
  [cause |-> result.cause, confidence |-> result.confidence \div 100,
   contradiction |-> result.contradiction, evidence |-> result.evidence,
   uncertainties |-> result.uncertainties]

\* The newest prediction of either model.
PredictionFor(cause) ==
  IF newest = NoValue THEN <<NoValue, TRUE>>
  ELSE <<latest[newest].confidence, latest[newest].type = cause>>

Reading ==
  LET finding == IF NewestRun = NoValue \/ rows[NewestRun].result = NoValue
                 THEN Tables!Uninvestigated
                 ELSE FindingOf(rows[NewestRun].result)
  IN  [type |-> exception.type, amount |-> exception.amount, finding |-> finding,
       ml |-> PredictionFor(finding.cause)]

Automatic == "AUTO_EXECUTE" \in Engine!VerdictsOf(Reading)

----------------------------------------------------------------------------
(* Properties.                                                             *)

Statuses == {"RUNNING", "COMPLETED", "FAILED"}
Pcs == {"create", "audit", "build", "stamp", "commit", "reply", "over"}
         \cup Nodes

\* No score is above 90%, in hundredths of a percent.
CappedScores == 0..9000

\* The type of every part of the state (models/investigation.py).
TypeOK ==
  /\ mlRequest \in {"asked", "classified", "over"}
  /\ \A r \in Runs :
       /\ rows[r].status \in Statuses \cup {"NONE"}
       /\ rows[r].human \in BOOLEAN
       /\ rows[r].status = "COMPLETED" <=> rows[r].result # NoValue
  /\ node \in [Runs -> Pcs]
  /\ \A r \in Runs : graph[r].confidence \in CappedScores
  /\ broken \subseteq Unlucky
  /\ answers \in [Runs -> {NoValue, "COMPLETED", "FAILED", "ERROR", "LOST"}]

\* Whatever the language model answers, a completed row is one the engine's risk
\* and stopping rules are written for: a contradiction comes with a confidence
\* below the medium band and an uncertainty that names it, an unknown cause with
\* one of 65% at most, and the stored flag is the one the rules compute.
FindingFitsEngine ==
  \A r \in Runs : Settled(r) =>
    LET f == FindingOf(rows[r].result)
    IN  /\ f \in Tables!Findings
        /\ rows[r].human = Tables!RequiresHuman(f)

\* MARK_EXCEPTION_RESOLVED is never executed automatically: with the rules and
\* cases the seed ingests, in full or in part, and the built-in policies, no cause
\* that leads to it reaches the confidence its policy asks for.
NothingIsResolvedAutomatically ==
  Automatic => Tables!SelectAction(Reading.finding.cause) # "MARK_EXCEPTION_RESOLVED"

\* An automatic action rests on documents that were found, not only on evidence
\* ids the language model has cited.
AutomaticRestsOnDocuments == Automatic => rows[NewestRun].result.retrieved > 0

\* The engine does not ask for requires_human, but all that can be automatic
\* against it is a confident, uncontradicted cause with several uncertainties.
FlaggedIsAutomaticOnlyIfUncertain ==
  Automatic /\ rows[NewestRun].human => Reading.finding.uncertainties >= 2

\* A caller who gets a result finds it in the row.  A row stays RUNNING for good
\* only if its process died or its session was broken, never because a node or
\* the provider raised, and no caller is told COMPLETED of a row that is not.
AnswerMatchesRow ==
  \A r \in Runs : At(r, "over") =>
    /\ answers[r] = "COMPLETED" => Settled(r)
    /\ answers[r] = "FAILED" => ~Settled(r)
    /\ rows[r].status = "RUNNING" => answers[r] = "LOST" \/ r \in broken

\* A row that is COMPLETED or FAILED is never written again, not even when what
\* follows its commit fails.
SettledRowIsFinal ==
  [][\A r \in Runs : rows[r].status \in {"COMPLETED", "FAILED"} => rows'[r] = rows[r]]_vars

\* A crash, a failure or a run that is still going never changes what the
\* controller would decide: only a run that completes or a prediction does.
OnlyResultsChangeTheDecision ==
  [][Reading' # Reading =>
       \/ latest' # latest
       \/ \E r \in Runs : ~Settled(r) /\ Settled(r)']_vars

\* Two runs that overlap may commit in either order: the one whose result was
\* taken later decides, and an older one that commits after it changes nothing.
DecisionNeverGoesBack ==
  [][NewestRun # NoValue => StampOf(NewestRun) <= StampOf(NewestRun)']_vars
===============================================================================
