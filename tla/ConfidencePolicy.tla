---------------------------- MODULE ConfidencePolicy ----------------------------
(***************************************************************************)
(* The score of an investigation (backend/app/agents/policies.py).  Every  *)
(* component is in ten-thousandths of the total, its weight included; a    *)
(* confidence that comes from a model is a whole percentage.  The two      *)
(* components that average are fractions <<numerator, denominator>>, so    *)
(* that the sum is rounded once, like the code's.                          *)
(***************************************************************************)
EXTENDS Integers, FiniteSets

CONSTANT NoValue      \* no prediction, no anomaly score

RootCauses == {"FEE_VARIANCE", "AMOUNT_MISMATCH", "DUPLICATE", "MISSING_INVOICE",
               "MISSING_SETTLEMENT", "REFUND_MISMATCH", "DATE_MISMATCH", "UNKNOWN"}

SmallerOf(a, b) == IF a < b THEN a ELSE b
LargerOf(a, b)  == IF a > b THEN a ELSE b

\* Causes that are close enough for a model to mean the other one.
Related(type, cause) ==
  <<type, cause>> \in {<<"FEE_VARIANCE", "AMOUNT_MISMATCH">>,
                       <<"AMOUNT_MISMATCH", "FEE_VARIANCE">>}

----------------------------------------------------------------------------
(* The components.                                                         *)

OfTrust(evidence, level) == Cardinality({d \in evidence : d.trust = level})

TotalTrust(evidence) ==
  10 * OfTrust(evidence, "PRIMARY") + 7 * OfTrust(evidence, "SECONDARY")
    + 5 * OfTrust(evidence, "REFERENCE") + 4 * OfTrust(evidence, "HISTORICAL")

EvidenceQuality_FullIfNone(evidence) ==
  IF evidence = {} THEN <<3000, 1>>
  ELSE LET n == Cardinality(evidence)
       IN  <<210 * TotalTrust(evidence) + 180 * SmallerOf(n, 5) * n, n>>

EvidenceQuality(evidence) ==
  IF evidence = {} THEN <<0, 1>>
  ELSE LET n == Cardinality(evidence)
       IN  <<210 * TotalTrust(evidence) + 180 * SmallerOf(n, 5) * n, n>>

MlSupport(ml, cause) ==
  IF ml = NoValue THEN 1000
  ELSE IF ml.type = cause THEN 20 * ml.confidence
  ELSE IF Related(ml.type, cause) THEN 12 * ml.confidence
  ELSE LargerOf(0, 1000 - 6 * ml.confidence)

AnomalyAgreement(anomaly, cause) ==
  IF anomaly = NoValue THEN 1000
  ELSE IF cause = "UNKNOWN" THEN 800
  ELSE IF anomaly.is THEN SmallerOf(1000 + 10 * anomaly.score, 2000)
  ELSE LargerOf(600, 1200 - 6 * anomaly.score)

Keywords(cause) ==
  CASE cause = "FEE_VARIANCE"       -> {"fee", "processing", "deduction", "rate"}
    [] cause = "AMOUNT_MISMATCH"    -> {"mismatch", "amount", "difference", "discrepancy"}
    [] cause = "DUPLICATE"          -> {"duplicate", "same payment", "double"}
    [] cause = "MISSING_INVOICE"    -> {"invoice", "missing"}
    [] cause = "MISSING_SETTLEMENT" -> {"settlement", "missing", "delay"}
    [] cause = "REFUND_MISMATCH"    -> {"refund", "reversal"}
    [] cause = "DATE_MISMATCH"      -> {"date", "timing", "delay", "window"}
    [] OTHER                        -> {}

RuleMatch_AnyKeyword(rules, cause) ==
  IF rules = {} THEN 600
  ELSE IF Keywords(cause) = {} THEN 750
  ELSE IF Keywords(cause) \cap UNION {r.words : r \in rules} = {} THEN 0 ELSE 1500

\* 2, 3 and 4 keywords divide the weight of 1500 evenly.
RuleMatch(rules, cause) ==
  IF rules = {} THEN 600
  ELSE IF Keywords(cause) = {} THEN 750
  ELSE LET hits == Keywords(cause) \cap UNION {r.words : r \in rules}
       IN  (1500 \div Cardinality(Keywords(cause))) * Cardinality(hits)

HistoricalMatch(cases, cause) ==
  IF cases = {} THEN <<400, 1>>
  ELSE LET n == Cardinality(cases)
       IN  <<200 * n + 800 * Cardinality({c \in cases : cause \in c.words}), n>>

LlmSignal_Unclamped(raw) == 5 * raw

LlmSignal(raw) == 5 * LargerOf(0, SmallerOf(100, raw))

----------------------------------------------------------------------------
(* The score.                                                              *)

\* round(): to the nearest ten-thousandth.
Rounded(numerator, denominator) ==
  (2 * numerator + denominator) \div (2 * denominator)

RawScore(evidence, rules, cases, ml, anomaly, cause, raw) ==
  LET quality == EvidenceQuality(evidence)
      history == HistoricalMatch(cases, cause)
      rest    == MlSupport(ml, cause) + AnomalyAgreement(anomaly, cause)
                   + RuleMatch(rules, cause) + LlmSignal(raw)
  IN  Rounded((quality[1] + rest * quality[2]) * history[2] + history[1] * quality[2],
              quality[2] * history[2])

Capped_ContradictionIgnored(score, cause, contradiction) ==
  IF cause = "UNKNOWN" THEN SmallerOf(score, 6500) ELSE score

\* A contradiction stays below the medium band, an unknown cause below 0.65.
Capped(score, cause, contradiction) ==
  LET limited == IF contradiction THEN SmallerOf(score, 6900) ELSE score
  IN  IF cause = "UNKNOWN" THEN SmallerOf(limited, 6500) ELSE limited

ConfidenceOf(evidence, rules, cases, ml, anomaly, cause, raw, contradiction) ==
  LET score == Capped(RawScore(evidence, rules, cases, ml, anomaly, cause, raw),
                      cause, contradiction)
  IN  LargerOf(0, SmallerOf(10000, score))

BandOf(confidence) ==
  IF confidence >= 9000 THEN "HIGH" ELSE IF confidence >= 7000 THEN "MEDIUM" ELSE "LOW"

----------------------------------------------------------------------------
(* Contradictions and the flag for a person.                               *)

MlContradicts(ml, cause) ==
  /\ ml # NoValue
  /\ ml.type # cause
  /\ ~Related(ml.type, cause)
  /\ ml.confidence > 70

\* flagged: how many findings hold one of the keywords of a contradiction.
ContradictionCount(ml, cause, flagged) ==
  flagged + (IF MlContradicts(ml, cause) THEN 1 ELSE 0)

ShouldRequireHuman_HighBand(confidence, contradiction, cause, uncertainties) ==
  contradiction \/ confidence < 9000 \/ cause = "UNKNOWN" \/ uncertainties >= 2

ShouldRequireHuman(confidence, contradiction, cause, uncertainties) ==
  contradiction \/ confidence < 7000 \/ cause = "UNKNOWN" \/ uncertainties >= 2
===============================================================================
