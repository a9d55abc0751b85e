---------------------------- MODULE DecisionEngine ----------------------------
(***************************************************************************)
(* How one exception becomes a verdict                                     *)
(* (backend/app/controller/decision_engine.py): a risk score from five     *)
(* signals, stopping rules, a choice of action, and the policy that        *)
(* matches.  Confidences are percentages and risks are integers: a score   *)
(* is a number of ten-thousandths, the precision the code rounds to.       *)
(***************************************************************************)
EXTENDS Integers, FiniteSets

CONSTANTS
  Amounts,             \* the amounts an exception may have, in whole units
  Confidences,         \* the confidences an investigation may end with
  MlConfidences,       \* the confidences of an ML prediction
  EvidenceCounts,      \* how many pieces of evidence an investigation cites
  UncertaintyCounts,   \* how many uncertainties it lists
  PolicySets,          \* the sets of policies that may be active
  NoValue              \* no amount, no prediction, no limit, no verdict yet

Types  == {"AMOUNT_MISMATCH", "MISSING_INVOICE", "MISSING_SETTLEMENT", "DUPLICATE",
           "REFUND_MISMATCH", "UNKNOWN"}
Causes == Types \cup {"FEE_VARIANCE", "DATE_MISMATCH"}

\* What the engine may propose.
ChosenActions == {"MARK_EXCEPTION_RESOLVED", "MARK_EXCEPTION_REVIEWED",
                  "REQUEST_HUMAN_REVIEW", "ESCALATE_EXCEPTION"}

\* A policy as its configuration column holds it, defaults filled in.
PolicyRows ==
  [types : SUBSET Types, causes : SUBSET Causes, allowed : SUBSET STRING,
   confidence : 0..100, maxBand : 0..3, autoLimit : Nat \cup {NoValue},
   reviewLimit : Nat \cup {NoValue}, conflictCheck : BOOLEAN, alwaysEscalate : BOOLEAN]

ASSUME EngineAssumption ==
  /\ Amounts \subseteq Nat
  /\ Confidences \subseteq 0..100
  /\ MlConfidences \subseteq 0..100
  /\ EvidenceCounts \subseteq Nat
  /\ UncertaintyCounts \subseteq Nat
  /\ \A ps \in PolicySets : \A p \in ps : p \in PolicyRows
  /\ NoValue \notin Nat /\ NoValue \notin ChosenActions

VARIABLES
  case,         \* the signals of the exception that is decided
  policies,     \* the policies that are active
  killSwitch,
  verdict       \* NoValue until the engine has answered

vars == <<case, policies, killSwitch, verdict>>

----------------------------------------------------------------------------
(* The signals (_process_exception).  Without a completed investigation    *)
(* they are defaults; with one, the investigator has capped the confidence *)
(* of a contradiction at 69% and that of an unknown cause at 65%.          *)

Uninvestigated == [cause |-> "UNKNOWN", confidence |-> 30, contradiction |-> FALSE,
                   evidence |-> 0, uncertainties |-> 1]

Findings ==
  {Uninvestigated} \cup
  {f \in [cause : Causes, confidence : Confidences, contradiction : BOOLEAN,
          evidence : EvidenceCounts, uncertainties : UncertaintyCounts] :
     /\ f.contradiction => f.confidence <= 69 /\ f.uncertainties > 0
     /\ f.cause = "UNKNOWN" => f.confidence <= 65}

\* Without a prediction there is nothing to disagree with.
Predictions == {<<NoValue, TRUE>>} \cup (MlConfidences \X BOOLEAN)

Cases == {[type |-> t, amount |-> a, finding |-> f, ml |-> m] :
            t \in Types, a \in Amounts \cup {NoValue}, f \in Findings, m \in Predictions}

\* should_require_human_review; the default without an investigation agrees.
RequiresHuman(f) ==
  f.contradiction \/ f.confidence < 70 \/ f.cause = "UNKNOWN" \/ f.uncertainties >= 2

----------------------------------------------------------------------------
(* Risk (risk_engine.py), in tenths, hundredths or thousandths.            *)

SmallerOf(a, b) == IF a < b THEN a ELSE b

Tier(amount, low, high) == amount # NoValue /\ low < amount /\ amount <= high

AmountRisk(amount) ==
  CASE amount = NoValue             -> 5
    [] Tier(amount, 0, 1000)        -> 1
    [] Tier(amount, 1000, 5000)     -> 3
    [] Tier(amount, 5000, 10000)    -> 5
    [] Tier(amount, 10000, 50000)   -> 7
    [] Tier(amount, 50000, 100000)  -> 9
    [] amount # NoValue /\ amount > 100000 -> 10
    [] OTHER -> 0

\* The average trust is a fixed 70%, and any evidence counts as primary.
EvidenceRisk(count) ==
  IF count = 0 THEN 100 ELSE 8 * (5 - SmallerOf(count, 5)) + 12

UncertaintyRisk(f) ==
  (IF f.contradiction THEN 5 ELSE 0) + SmallerOf(f.uncertainties, 3)
    + (IF RequiresHuman(f) THEN 2 ELSE 0)

TypeRisk(t) ==
  CASE t = "AMOUNT_MISMATCH" -> 3
    [] t = "DUPLICATE"       -> 6
    [] t = "UNKNOWN"         -> 10
    [] OTHER                 -> 5

DisagreementRisk_Swapped(agrees) == IF agrees THEN 300 ELSE 0

DisagreementRisk(agrees) == IF agrees THEN 0 ELSE 300

ModelRisk(f, m) ==
  (CASE m[1] = NoValue                 -> 300
     [] m[1] # NoValue /\ m[1] < 60    -> 3 * (100 - m[1])
     [] OTHER                          -> 0)
    + DisagreementRisk(m[2])
    + (IF f.confidence < 70 THEN 3 * (100 - f.confidence) ELSE 0)

RiskScore_TypeForgotten(c) ==
  300 * AmountRisk(c.amount) + 25 * EvidenceRisk(c.finding.evidence)
    + 200 * UncertaintyRisk(c.finding) + ModelRisk(c.finding, c.ml)

RiskScore(c) ==
  300 * AmountRisk(c.amount) + 25 * EvidenceRisk(c.finding.evidence)
    + 200 * UncertaintyRisk(c.finding) + 150 * TypeRisk(c.type)
    + ModelRisk(c.finding, c.ml)

\* The bands LOW, MEDIUM, HIGH and CRITICAL in their order.
Band(score) ==
  CASE score < 2500                   -> 0
    [] score >= 2500 /\ score < 5000  -> 1
    [] score >= 5000 /\ score < 7500  -> 2
    [] OTHER                          -> 3

RiskBand(c) == Band(RiskScore(c))

----------------------------------------------------------------------------
(* Stopping rules and the choice of action.                                *)

StopsAt_ContradictionOnly(f) == f.contradiction

StopsAt(f) == f.contradiction \/ f.confidence < 50 \/ f.evidence = 0

BlockedByRule(c) == RiskBand(c) = 3 \/ StopsAt(c.finding)

EscalatedByRule(c) ==
  ~BlockedByRule(c) /\ (c.finding.cause = "UNKNOWN" \/ RiskBand(c) = 2)

SelectAction(cause) ==
  CASE cause \in {"FEE_VARIANCE", "AMOUNT_MISMATCH", "DATE_MISMATCH"} ->
         "MARK_EXCEPTION_RESOLVED"
    [] cause \in {"DUPLICATE", "REFUND_MISMATCH"}          -> "MARK_EXCEPTION_REVIEWED"
    [] cause \in {"MISSING_INVOICE", "MISSING_SETTLEMENT"} -> "REQUEST_HUMAN_REVIEW"
    [] OTHER                                               -> "ESCALATE_EXCEPTION"

----------------------------------------------------------------------------
(* Policies (policy_engine.py).  A limit of 0 is the same as none: the     *)
(* code tests it for truth, like the amount.                               *)

\* Any policy for the cause goes before any for the type; of several, the last
\* or the first the query returns, and the query states no order.
MatchingPolicies(c) ==
  LET byCause == {p \in policies : c.finding.cause \in p.causes}
  IN  IF byCause # {} THEN byCause ELSE {p \in policies : c.type \in p.types}

Over_Reversed(amount, limit) ==
  amount # NoValue /\ limit # NoValue /\ limit # 0 /\ amount < limit

Over(amount, limit) ==
  amount # NoValue /\ limit # NoValue /\ limit # 0 /\ amount > limit

Forbids(p, c) ==
  \/ SelectAction(c.finding.cause) \notin p.allowed
  \/ p.conflictCheck /\ c.finding.contradiction

EscalatedByPolicy(p, c) ==
  \/ RiskBand(c) > p.maxBand /\ RiskBand(c) >= 2
  \/ /\ RiskBand(c) <= p.maxBand
     /\ ~Over(c.amount, p.reviewLimit)
     /\ c.finding.confidence < p.confidence /\ c.finding.confidence < 50

NeedsApproval(p, c) ==
  \/ RiskBand(c) > p.maxBand
  \/ Over(c.amount, p.reviewLimit)
  \/ c.finding.confidence < p.confidence
  \/ Over(c.amount, p.autoLimit)

PolicyVerdict(p, c) ==
  CASE p.alwaysEscalate                         -> "ESCALATE"
    [] ~p.alwaysEscalate /\ Forbids(p, c)       -> "BLOCK"
    [] ~p.alwaysEscalate /\ ~Forbids(p, c) ->
         IF EscalatedByPolicy(p, c) THEN "ESCALATE"
         ELSE IF NeedsApproval(p, c) THEN "RECOMMEND" ELSE "AUTO_EXECUTE"

\* The four built-in configurations, defaults filled in.
FeeVariancePolicy ==
  [types |-> {"AMOUNT_MISMATCH"}, causes |-> {"FEE_VARIANCE"},
   allowed |-> {"MARK_EXCEPTION_RESOLVED", "APPLY_FEE_VARIANCE_RECONCILIATION"},
   confidence |-> 95, maxBand |-> 0, autoLimit |-> 10000, reviewLimit |-> NoValue,
   conflictCheck |-> TRUE, alwaysEscalate |-> FALSE]

DuplicatePolicy ==
  [types |-> {"DUPLICATE"}, causes |-> {"DUPLICATE"},
   allowed |-> {"MARK_EXCEPTION_RESOLVED", "MARK_EXCEPTION_REVIEWED"},
   confidence |-> 90, maxBand |-> 1, autoLimit |-> 5000, reviewLimit |-> 5000,
   conflictCheck |-> FALSE, alwaysEscalate |-> FALSE]

UnknownPolicy ==
  [types |-> {"UNKNOWN"}, causes |-> {"UNKNOWN"},
   allowed |-> {"ESCALATE_EXCEPTION", "REQUEST_HUMAN_REVIEW"},
   confidence |-> 95, maxBand |-> 0, autoLimit |-> NoValue, reviewLimit |-> NoValue,
   conflictCheck |-> FALSE, alwaysEscalate |-> TRUE]

LargePolicy ==
  LET kinds == {"AMOUNT_MISMATCH", "MISSING_SETTLEMENT", "MISSING_INVOICE",
                "REFUND_MISMATCH"}
  IN  [types |-> kinds, causes |-> kinds,
       allowed |-> {"MARK_EXCEPTION_RESOLVED", "MARK_EXCEPTION_REVIEWED",
                    "REQUEST_HUMAN_REVIEW"},
       confidence |-> 70, maxBand |-> 0, autoLimit |-> NoValue, reviewLimit |-> 50000,
       conflictCheck |-> FALSE, alwaysEscalate |-> FALSE]

BuiltInPolicies == {FeeVariancePolicy, DuplicatePolicy, UnknownPolicy, LargePolicy}

----------------------------------------------------------------------------
(* The pipeline.                                                           *)

PolicyVerdicts_SwitchIgnored(c) ==
  IF MatchingPolicies(c) = {} THEN {"ESCALATE"}
  ELSE {PolicyVerdict(p, c) : p \in MatchingPolicies(c)}

\* evaluate: the kill switch first, then the policy, if there is one.
PolicyVerdicts(c) ==
  IF killSwitch THEN {"BLOCK"}
  ELSE IF MatchingPolicies(c) = {} THEN {"ESCALATE"}
  ELSE {PolicyVerdict(p, c) : p \in MatchingPolicies(c)}

\* make_decision: what it may answer, by which policy the query returns.
VerdictsOf(c) ==
  IF BlockedByRule(c) THEN {"BLOCK"}
  ELSE IF EscalatedByRule(c) THEN {"ESCALATE"}
  ELSE PolicyVerdicts(c)

ActionFor(v, c) ==
  IF v = "BLOCK" THEN NoValue
  ELSE IF EscalatedByRule(c) THEN "ESCALATE_EXCEPTION"
  ELSE SelectAction(c.finding.cause)

Init ==
  /\ case \in Cases
  /\ policies \in PolicySets
  /\ killSwitch \in BOOLEAN
  /\ verdict = NoValue

MakeDecision ==
  /\ verdict = NoValue
  /\ \E v \in VerdictsOf(case) : verdict' = <<v, ActionFor(v, case)>>
  /\ UNCHANGED <<case, policies, killSwitch>>

Next == MakeDecision

Spec == Init /\ [][Next]_vars

----------------------------------------------------------------------------
(* Properties.                                                             *)

Automatic == verdict # NoValue /\ verdict[1] = "AUTO_EXECUTE"

\* What a verdict lets happen: nothing, something after an answer, or at once.
Freedom(v) == CASE v = "AUTO_EXECUTE" -> 2 [] v = "RECOMMEND" -> 1 [] OTHER -> 0

\* The case with one signal worse and all others equal.
Worse(c) ==
  LET f == c.finding
      findings ==
           {[f EXCEPT !.evidence = n] : n \in {m \in EvidenceCounts : m < f.evidence}}
      \cup {[f EXCEPT !.uncertainties = n] :
              n \in {m \in UncertaintyCounts : m > f.uncertainties}}
      \cup {[f EXCEPT !.confidence = n] : n \in {m \in Confidences : m < f.confidence}}
      \cup {[f EXCEPT !.contradiction = TRUE]}
      amounts == IF c.amount = NoValue THEN {} ELSE {n \in Amounts : n > c.amount}
  IN     {[c EXCEPT !.finding = g] : g \in findings}
    \cup {[c EXCEPT !.amount = n] : n \in amounts}
    \cup {[c EXCEPT !.ml = <<@[1], FALSE>>]}

\* Less evidence, more uncertainty, less confidence, a contradiction, a larger
\* amount or a dissenting model never makes the controller freer to act: risk
\* score, stopping rules and policy limits pull the same way.
MoreDoubtIsNoFreer ==
  verdict = NoValue =>
    \A w \in Worse(case) :
      /\ \A v \in VerdictsOf(w) : \E u \in VerdictsOf(case) : Freedom(v) <= Freedom(u)
      /\ \A u \in VerdictsOf(case) : \E v \in VerdictsOf(w) : Freedom(v) <= Freedom(u)

\* policy_engine.py, "duplicate_high_value": a high-value duplicate is never
\* resolved automatically, not even when its cause selects another policy with a
\* higher limit.
HighValueDuplicateIsReviewed ==
  case.type = "DUPLICATE" /\ case.amount # NoValue /\ DuplicatePolicy \in policies =>
    (case.amount > 5000 => ~Automatic)

\* policy_engine.py, "large_discrepancy": above its threshold every discrepancy
\* is reviewed, whichever of the four policies is the one that matches.
LargeDiscrepancyIsReviewed ==
  case.amount # NoValue /\ policies \subseteq BuiltInPolicies =>
    (case.amount > 50000 => ~Automatic)

\* An exception that nobody investigated is blocked by its default signals,
\* whatever its amount, its type, the model's prediction and the policies.
UninvestigatedIsBlocked ==
  case.finding = Uninvestigated /\ verdict # NoValue => verdict = <<"BLOCK", NoValue>>

\* What a controller run takes for granted about the verdict it routes: nothing
\* but ESCALATE and BLOCK under the kill switch, an action unless it is BLOCK,
\* and no escalation as an automatic or recommended action.
VerdictFitsController ==
  verdict # NoValue =>
    /\ killSwitch => verdict[1] \in {"ESCALATE", "BLOCK"}
    /\ verdict[2] = NoValue <=> verdict[1] = "BLOCK"
    /\ verdict[2] = "ESCALATE_EXCEPTION" => verdict[1] \in {"ESCALATE", "BLOCK"}

\* policy_engine.py:67: unknown transactions can never be auto-resolved.  A policy
\* for the cause goes before the one for the type.
UnknownIsNeverAutomatic ==
  case.type = "UNKNOWN" /\ UnknownPolicy \in policies => ~Automatic
===============================================================================
