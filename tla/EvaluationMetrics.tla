--------------------------- MODULE EvaluationMetrics ---------------------------
(***************************************************************************)
(* What a benchmark holds and how it is scored: the ground truth of every  *)
(* scenario (backend/app/evaluation/ground_truth.py), the generator's      *)
(* choice of cases (dataset_generator.py) and the metrics (metrics.py).    *)
(* A rate is a fraction <<numerator, denominator>>, an amount a number of  *)
(* rupees; the cases of a dataset are a sequence, and a prediction or a    *)
(* decision for each of them is a function of its index.                   *)
(***************************************************************************)
EXTENDS Integers, Sequences, FiniteSets, FiniteSetsExt

Expect(match, exception, action) ==
  [match |-> match, exception |-> exception, action |-> action]

\* SCENARIO_GROUND_TRUTH; a clean match has no exception.
GroundTruth ==
  [clean_match        |-> Expect("MATCHED",   "",                   "NO_ACTION"),
   fee_variance       |-> Expect("PARTIAL",   "FEE_VARIANCE",       "AUTO_RESOLVE_ALLOWED"),
   amount_mismatch    |-> Expect("UNMATCHED", "AMOUNT_MISMATCH",    "HUMAN_REVIEW"),
   duplicate          |-> Expect("UNMATCHED", "DUPLICATE",          "HUMAN_REVIEW"),
   missing_invoice    |-> Expect("UNMATCHED", "MISSING_INVOICE",    "HUMAN_REVIEW"),
   missing_settlement |-> Expect("UNMATCHED", "MISSING_SETTLEMENT", "HUMAN_REVIEW"),
   refund_mismatch    |-> Expect("UNMATCHED", "REFUND_MISMATCH",    "HUMAN_REVIEW"),
   date_mismatch      |-> Expect("PARTIAL",   "DATE_MISMATCH",      "AUTO_RESOLVE_ALLOWED"),
   ambiguous          |-> Expect("UNMATCHED", "AMOUNT_MISMATCH",    "HUMAN_REVIEW")]

Scenarios == DOMAIN GroundTruth

AmountRange ==
  [clean_match        |-> <<1000, 50000>>, fee_variance    |-> <<5000, 20000>>,
   amount_mismatch    |-> <<2000, 100000>>, duplicate      |-> <<1000, 30000>>,
   missing_invoice    |-> <<500, 15000>>,  missing_settlement |-> <<1000, 25000>>,
   refund_mismatch    |-> <<500, 10000>>,  date_mismatch   |-> <<1000, 40000>>,
   ambiguous          |-> <<5000, 50000>>]

MatchStatuses == {"MATCHED", "UNMATCHED"}
Decisions     == {"NO_ACTION", "AUTO_EXECUTE", "RECOMMEND", "ESCALATE", "BLOCK"}

----------------------------------------------------------------------------
(* The generator.  A distribution is a sequence of scenarios with their    *)
(* share in thousandths.                                                   *)

\* f[1] + ... + f[n]
Total(f, n) == LET sum[k \in 0..n] == IF k = 0 THEN 0 ELSE sum[k - 1] + f[k] IN sum[n]

Share(distribution, i) == Total([j \in 1..i |-> distribution[j][2]], i)

\* _validate_distribution looks at the shares only, not at the scenarios.
Usable(distribution) == Share(distribution, Len(distribution)) \in 999..1001

DefaultDistribution == <<
  <<"clean_match", 550>>, <<"fee_variance", 100>>, <<"amount_mismatch", 80>>,
  <<"duplicate", 70>>, <<"missing_invoice", 60>>, <<"missing_settlement", 50>>,
  <<"refund_mismatch", 40>>, <<"date_mismatch", 30>>, <<"ambiguous", 20>> >>

\* An empty distribution counts as none.
DistributionFor(given) == IF given = <<>> THEN DefaultDistribution ELSE given

\* DEMO_PRESETS, by the name of the dataset they are loaded as.
Presets ==
  [demo_preset_a |-> <<<<"clean_match", 600>>, <<"fee_variance", 350>>, <<"date_mismatch", 50>>>>,
   demo_preset_b |-> <<<<"clean_match", 400>>, <<"fee_variance", 150>>,
                       <<"amount_mismatch", 150>>, <<"duplicate", 100>>,
                       <<"missing_invoice", 100>>, <<"refund_mismatch", 100>>>>,
   demo_preset_c |-> <<<<"amount_mismatch", 300>>, <<"ambiguous", 300>>,
                       <<"missing_settlement", 200>>, <<"refund_mismatch", 200>>>>,
   demo_preset_d |-> <<<<"ambiguous", 400>>, <<"amount_mismatch", 350>>, <<"duplicate", 250>>>>]

\* The first scenario whose cumulated share exceeds the draw, or the last.
PickScenario(distribution, draw) ==
  LET above == {i \in 1..Len(distribution) : draw < Share(distribution, i)}
  IN  distribution[IF above = {} THEN Len(distribution) ELSE Min(above)][1]

CaseFor(scenario, end) == [scenario |-> scenario, amount |-> AmountRange[scenario][end]]

----------------------------------------------------------------------------
(* The metrics.                                                            *)

Truth(cases, i)       == GroundTruth[cases[i].scenario]
IsException(cases, i) == Truth(cases, i).exception # ""

Count(cases, P(_))    == Cardinality({i \in 1..Len(cases) : P(i)})
AmountOf(cases, P(_)) ==
  Total([i \in 1..Len(cases) |-> IF P(i) THEN cases[i].amount ELSE 0], Len(cases))

AtLeastOne_Unguarded(n) == n

\* max(n, 1)
AtLeastOne(n) == IF n < 1 THEN 1 ELSE n

\* compute_reconciliation_metrics.  Recall subtracts the missed matches from the
\* predicted ones, and the miss rate divides them by the predicted ones.
Reconciliation(cases, actual) ==
  LET total     == Len(cases)
      matched   == Count(cases, LAMBDA i : actual[i] = "MATCHED")
      unmatched == total - matched
      fn == Count(cases, LAMBDA i : actual[i] # "MATCHED" /\ Truth(cases, i).match = "MATCHED")
      fp == Count(cases, LAMBDA i : actual[i] = "MATCHED" /\ Truth(cases, i).match # "MATCHED")
  IN  [accuracy  |-> <<Count(cases, LAMBDA i : actual[i] = Truth(cases, i).match),
                       AtLeastOne(total)>>,
       matchRate |-> <<matched, AtLeastOne(total)>>,
       precision |-> IF matched + fp > 0 THEN <<matched, matched + fp>> ELSE <<1, 1>>,
       recall    |-> IF matched > 0 THEN <<matched - fn, matched>> ELSE <<0, 1>>,
       falsePositiveRate |-> IF unmatched + fp > 0 THEN <<fp, unmatched + fp>> ELSE <<0, 1>>,
       falseNegativeRate |-> <<fn, AtLeastOne(total - unmatched)>>,
       unmatchedRate     |-> <<unmatched, AtLeastOne(total)>>]

\* No decision carries a predicted type, so every run stores these.
MlScores == [accuracy |-> <<0, 1>>, f1Macro |-> <<0, 1>>, f1Weighted |-> <<0, 1>>]

ExpectedDecision(action) ==
  CASE action = "AUTO_RESOLVE_ALLOWED" -> "AUTO_EXECUTE"
    [] action = "BLOCK"                -> "BLOCK"
    [] action = "NO_ACTION"            -> "NO_ACTION"
    [] OTHER                           -> "RECOMMEND"

\* compute_controller_metrics: only the cases with an exception can be right.
Controller(cases, decided) ==
  LET made(d)     == Count(cases, LAMBDA i : decided[i] = d)
      rate(d)     == <<made(d), AtLeastOne(Len(cases))>>
      right(d, a) == <<Count(cases, LAMBDA i : /\ decided[i] = d /\ IsException(cases, i)
                                               /\ Truth(cases, i).action = a),
                       AtLeastOne(made(d))>>
      exceptions  == Count(cases, LAMBDA i : IsException(cases, i))
  IN  [accuracy |->
         <<Count(cases, LAMBDA i : /\ IsException(cases, i)
                                   /\ decided[i] = ExpectedDecision(Truth(cases, i).action)),
           AtLeastOne(exceptions)>>,
       autoPrecision   |-> right("AUTO_EXECUTE", "AUTO_RESOLVE_ALLOWED"),
       reviewPrecision |-> right("RECOMMEND", "HUMAN_REVIEW"),
       autoRate        |-> rate("AUTO_EXECUTE"),
       reviewRate      |-> rate("RECOMMEND"),
       escalationRate  |-> rate("ESCALATE"),
       blockingRate    |-> rate("BLOCK")]

UnderReview_RecommendOnly == {"RECOMMEND"}

UnderReview == {"RECOMMEND", "ESCALATE"}

\* compute_financial_metrics: what is escalated counts as under review, and what is
\* blocked as escalated.
Financial(cases, decided) ==
  LET amount(ds) == AmountOf(cases, LAMBDA i : decided[i] \in ds)
      safe(i)    == Truth(cases, i).action = "AUTO_RESOLVE_ALLOWED"
      auto(i)    == decided[i] = "AUTO_EXECUTE"
      wrong      == AmountOf(cases, LAMBDA i : auto(i) /\ ~safe(i))
      needless   == AmountOf(cases, LAMBDA i : decided[i] \in UnderReview /\ safe(i))
  IN  [processed          |-> amount(Decisions),
       auto               |-> amount({"AUTO_EXECUTE"}),
       wrongAuto          |-> wrong,
       falsePositiveCost  |-> wrong,
       falseNegativeCost  |-> needless,
       review             |-> amount(UnderReview),
       escalated          |-> amount({"BLOCK"}),
       errorRate          |-> <<Count(cases, LAMBDA i : auto(i) /\ ~safe(i)),
                                AtLeastOne(Count(cases, auto))>>,
       financialErrorRate |-> <<wrong, AtLeastOne(amount({"AUTO_EXECUTE"}))>>,
       avoided            |-> Count(cases, LAMBDA i : auto(i) /\ safe(i))]

Ai_Unguarded(investigations) ==
  LET total    == Cardinality(investigations)
      share(S) == <<Cardinality(S), total>>
  IN  [citations |-> <<total + Cardinality({v \in investigations : v.cited}), 2 * total>>,
       uncertainty |-> share({v \in investigations : v.unknown}),
       humanReview |-> share({v \in investigations : v.human})]

\* _compute_ai_metrics: over some completed investigations, whichever exceptions they
\* are about; one without a cited evidence id counts half.
Ai(investigations) ==
  LET total   == Cardinality(investigations)
      share(S) == IF total = 0 THEN <<0, 1>> ELSE <<Cardinality(S), total>>
  IN  [citations |-> IF total = 0 THEN <<0, 1>>
                     ELSE <<total + Cardinality({v \in investigations : v.cited}), 2 * total>>,
       uncertainty |-> share({v \in investigations : v.unknown}),
       humanReview |-> share({v \in investigations : v.human})]

----------------------------------------------------------------------------
(* What a run stores: rates, and amounts of money.                         *)

Rates == Int \X (Nat \ {0})

ReconciliationScores ==
  [accuracy : Rates, matchRate : Rates, precision : Rates, recall : Rates,
   falsePositiveRate : Rates, falseNegativeRate : Rates, unmatchedRate : Rates]

ControllerScores ==
  [accuracy : Rates, autoPrecision : Rates, reviewPrecision : Rates, autoRate : Rates,
   reviewRate : Rates, escalationRate : Rates, blockingRate : Rates]

FinancialScores ==
  [processed : Nat, auto : Nat, wrongAuto : Nat, falsePositiveCost : Nat,
   falseNegativeCost : Nat, review : Nat, escalated : Nat, errorRate : Rates,
   financialErrorRate : Rates, avoided : Nat]

FixedScores ==
  [reconciliation : ReconciliationScores,
   ml             : [accuracy : Rates, f1Macro : Rates, f1Weighted : Rates],
   controller     : ControllerScores,
   financial      : FinancialScores]

Scores ==
  [fixed : FixedScores, ai : [citations : Rates, uncertainty : Rates, humanReview : Rates]]
===============================================================================
