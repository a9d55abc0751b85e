-------------------------- MODULE DecisionEngineProofs --------------------------
(***************************************************************************)
(* The decision engine for every amount, confidence and set of policies:   *)
(* the risk score is monotone in each signal, the stopping rules and the   *)
(* policies pull the same way, and so no doubt makes the controller freer. *)
(***************************************************************************)
EXTENDS DecisionEngine, TLAPS

\* What the proofs use of a finding and of a case.
FindingRows == [cause : Causes, confidence : 0..100, contradiction : BOOLEAN,
                evidence : Nat, uncertainties : Nat]

CaseRows == [type : Types, amount : Nat \cup {NoValue}, finding : FindingRows,
             ml : ((0..100) \cup {NoValue}) \X BOOLEAN]

\* The cases, the active policies and the verdict are what they are declared to be.
EngineInv ==
  /\ case \in CaseRows
  /\ policies \in PolicySets
  /\ killSwitch \in BOOLEAN
  /\ verdict # NoValue => \E v \in VerdictsOf(case) : verdict = <<v, ActionFor(v, case)>>

\* Findings are records of the signals the rules read.
LEMMA FindingsTyped == Findings \subseteq FindingRows
<1>1. Uninvestigated \in FindingRows
  BY DEF Uninvestigated, FindingRows, Causes, Types
<1>2. ASSUME NEW f \in [cause : Causes, confidence : Confidences, contradiction : BOOLEAN,
                        evidence : EvidenceCounts, uncertainties : UncertaintyCounts]
      PROVE  f \in FindingRows
  BY EngineAssumption DEF FindingRows
<1> QED BY <1>1, <1>2 DEF Findings

\* Cases are records of an exception, a finding and a prediction.
LEMMA CasesTyped == Cases \subseteq CaseRows
<1>1. Predictions \subseteq ((0..100) \cup {NoValue}) \X BOOLEAN
  <2>1. <<NoValue, TRUE>> \in ((0..100) \cup {NoValue}) \X BOOLEAN
    OBVIOUS
  <2>2. MlConfidences \X BOOLEAN \subseteq ((0..100) \cup {NoValue}) \X BOOLEAN
    BY EngineAssumption
  <2> QED BY <2>1, <2>2 DEF Predictions
<1>2. SUFFICES ASSUME NEW t \in Types, NEW a \in Amounts \cup {NoValue},
                      NEW f \in Findings, NEW m \in Predictions
               PROVE  [type |-> t, amount |-> a, finding |-> f, ml |-> m] \in CaseRows
  BY DEF Cases
<1> QED BY <1>1, <1>2, FindingsTyped, EngineAssumption DEF CaseRows

\* Every behaviour of the engine keeps its cases typed and its verdicts explained.
THEOREM EngineInvHolds == Spec => []EngineInv
<1>1. Init => EngineInv
  BY CasesTyped DEF Init, EngineInv
<1>2. EngineInv /\ [Next]_vars => EngineInv'
  <2> SUFFICES ASSUME EngineInv, [Next]_vars PROVE EngineInv'
    OBVIOUS
  <2>1. CASE MakeDecision
    <3>1. /\ case' = case
          /\ policies' = policies
          /\ killSwitch' = killSwitch
      BY <2>1 DEF MakeDecision
    <3>2. PICK v \in VerdictsOf(case) : verdict' = <<v, ActionFor(v, case)>>
      BY <2>1 DEF MakeDecision
    <3>3. /\ VerdictsOf(case)' = VerdictsOf(case)
          /\ ActionFor(v, case)' = ActionFor(v, case)
      BY <3>1 DEF VerdictsOf, BlockedByRule, EscalatedByRule, PolicyVerdicts,
                  MatchingPolicies, ActionFor
    <3> QED BY <3>1, <3>2, <3>3 DEF EngineInv
  <2>2. CASE UNCHANGED vars
    BY <2>2 DEF EngineInv, vars, VerdictsOf, BlockedByRule, EscalatedByRule,
                PolicyVerdicts, MatchingPolicies, ActionFor
  <2> QED BY <2>1, <2>2 DEF Next
<1> QED BY <1>1, <1>2, PTL DEF Spec

----------------------------------------------------------------------------
(* The risk score is monotone.                                             *)

\* An amount, or none, adds at most 10 to the score.
LEMMA AmountRiskTyped == \A a \in Nat \cup {NoValue} : AmountRisk(a) \in 0..10
<1>1. AmountRisk(NoValue) = 5
  BY DEF AmountRisk, Tier
<1>2. \A a \in Nat : AmountRisk(a) \in 0..10
  BY EngineAssumption DEF AmountRisk, Tier
<1> QED BY <1>1, <1>2

\* A larger amount is no less risky.
LEMMA AmountRiskMonotone ==
  \A a, b \in Nat : a < b => AmountRisk(a) <= AmountRisk(b)
BY EngineAssumption DEF AmountRisk, Tier

\* Less evidence is no less risky.
LEMMA EvidenceRiskMonotone ==
  \A m, n \in Nat : m < n => /\ EvidenceRisk(m) \in Nat
                            /\ EvidenceRisk(n) \in Nat
                            /\ EvidenceRisk(n) <= EvidenceRisk(m)
BY DEF EvidenceRisk, SmallerOf

\* One finding doubts at least as much as another of the same cause.
Doubts(g, f) ==
  /\ g.cause = f.cause
  /\ g.confidence <= f.confidence
  /\ f.contradiction => g.contradiction
  /\ g.evidence <= f.evidence
  /\ f.uncertainties <= g.uncertainties

\* More uncertainties are no less risky.
LEMMA UncertaintyRiskMonotone ==
  ASSUME NEW f \in FindingRows, NEW g \in FindingRows, Doubts(g, f)
  PROVE  /\ UncertaintyRisk(f) \in Nat
         /\ UncertaintyRisk(g) \in Nat
         /\ UncertaintyRisk(f) <= UncertaintyRisk(g)
<1>1. RequiresHuman(f) => RequiresHuman(g)
  BY DEF FindingRows, Doubts, RequiresHuman
<1> QED BY <1>1 DEF FindingRows, Doubts, UncertaintyRisk, SmallerOf

\* A prediction that disagrees, or is less sure, is no less risky.
LEMMA ModelRiskMonotone ==
  ASSUME NEW f \in FindingRows, NEW g \in FindingRows, Doubts(g, f),
         NEW k \in (0..100) \cup {NoValue}, NEW x \in BOOLEAN, NEW y \in BOOLEAN,
         y => x
  PROVE  /\ ModelRisk(f, <<k, x>>) \in Nat
         /\ ModelRisk(g, <<k, y>>) \in Nat
         /\ ModelRisk(f, <<k, x>>) <= ModelRisk(g, <<k, y>>)
<1> DEFINE Unsure == CASE k = NoValue            -> 300
                       [] k # NoValue /\ k < 60 -> 3 * (100 - k)
                       [] OTHER                 -> 0
           Low(h) == IF h.confidence < 70 THEN 3 * (100 - h.confidence) ELSE 0
<1>1. Unsure \in Nat
  BY EngineAssumption
<1>2. Low(f) \in Nat /\ Low(g) \in Nat /\ Low(f) <= Low(g)
  BY DEF FindingRows, Doubts
<1>3. /\ DisagreementRisk(x) \in Nat
      /\ DisagreementRisk(y) \in Nat
      /\ DisagreementRisk(x) <= DisagreementRisk(y)
  BY DEF DisagreementRisk
<1>4. /\ ModelRisk(f, <<k, x>>) = Unsure + DisagreementRisk(x) + Low(f)
      /\ ModelRisk(g, <<k, y>>) = Unsure + DisagreementRisk(y) + Low(g)
  BY DEF ModelRisk
<1> HIDE DEF Unsure, Low
<1> QED BY <1>1, <1>2, <1>3, <1>4

\* A higher score is not in a lower band.
LEMMA BandMonotone ==
  \A m, n \in Nat : m <= n => /\ Band(m) \in 0..3
                             /\ Band(n) \in 0..3
                             /\ Band(m) <= Band(n)
BY DEF Band

\* One case is at least as doubtful as another in every signal.
Worsened(w, c) ==
  /\ w.type = c.type
  /\ Doubts(w.finding, c.finding)
  /\ \/ w.amount = c.amount
     \/ w.amount \in Nat /\ c.amount \in Nat /\ c.amount < w.amount
  /\ w.ml[1] = c.ml[1]
  /\ w.ml[2] => c.ml[2]

\* Every type has a risk of its own.
LEMMA TypeRiskTyped == \A t \in Types : TypeRisk(t) \in Nat
BY DEF TypeRisk

\* A case that is worse in some signal and better in none has no lower score.
LEMMA RiskScoreMonotone ==
  ASSUME NEW c \in CaseRows, NEW w \in CaseRows, Worsened(w, c)
  PROVE  /\ RiskScore(c) \in Nat
         /\ RiskScore(w) \in Nat
         /\ RiskScore(c) <= RiskScore(w)
<1> DEFINE f == c.finding
           g == w.finding
<1>1. f \in FindingRows /\ g \in FindingRows /\ Doubts(g, f)
  BY DEF CaseRows, Worsened
<1>2. /\ AmountRisk(c.amount) \in Nat
      /\ AmountRisk(w.amount) \in Nat
      /\ AmountRisk(c.amount) <= AmountRisk(w.amount)
  <2>1. c.amount \in Nat \cup {NoValue} /\ w.amount \in Nat \cup {NoValue}
    BY DEF CaseRows
  <2>2. AmountRisk(c.amount) \in Nat /\ AmountRisk(w.amount) \in Nat
    <3>1. AmountRisk(c.amount) \in 0..10 /\ AmountRisk(w.amount) \in 0..10
      BY <2>1, AmountRiskTyped, Zenon
    <3> QED BY <3>1
  <2>3. CASE w.amount = c.amount
    BY <2>2, <2>3
  <2>4. CASE w.amount \in Nat /\ c.amount \in Nat /\ c.amount < w.amount
    BY <2>2, <2>4, AmountRiskMonotone
  <2> QED BY <2>3, <2>4 DEF Worsened
<1>3. /\ EvidenceRisk(f.evidence) \in Nat
      /\ EvidenceRisk(g.evidence) \in Nat
      /\ EvidenceRisk(f.evidence) <= EvidenceRisk(g.evidence)
  <2>1. f.evidence \in Nat /\ g.evidence \in Nat /\ g.evidence <= f.evidence
    BY <1>1 DEF FindingRows, Doubts
  <2>2. CASE g.evidence < f.evidence
    BY <2>1, <2>2, EvidenceRiskMonotone
  <2>3. CASE g.evidence = f.evidence
    <3>1. EvidenceRisk(f.evidence) \in Nat
      BY <2>1 DEF EvidenceRisk, SmallerOf
    <3> QED BY <2>3, <3>1
  <2> QED BY <2>1, <2>2, <2>3
<1>4. /\ UncertaintyRisk(f) \in Nat
      /\ UncertaintyRisk(g) \in Nat
      /\ UncertaintyRisk(f) <= UncertaintyRisk(g)
  BY <1>1, UncertaintyRiskMonotone
<1>5. TypeRisk(c.type) \in Nat /\ TypeRisk(w.type) = TypeRisk(c.type)
  BY TypeRiskTyped DEF CaseRows, Worsened
<1>6. /\ ModelRisk(f, c.ml) \in Nat
      /\ ModelRisk(g, w.ml) \in Nat
      /\ ModelRisk(f, c.ml) <= ModelRisk(g, w.ml)
  <2>1. /\ c.ml = <<c.ml[1], c.ml[2]>>
        /\ w.ml = <<c.ml[1], w.ml[2]>>
        /\ c.ml[1] \in (0..100) \cup {NoValue}
        /\ c.ml[2] \in BOOLEAN
        /\ w.ml[2] \in BOOLEAN
        /\ w.ml[2] => c.ml[2]
    BY DEF CaseRows, Worsened
  <2> DEFINE k == c.ml[1]
             x == c.ml[2]
             y == w.ml[2]
  <2>2. /\ ModelRisk(f, <<k, x>>) \in Nat
        /\ ModelRisk(g, <<k, y>>) \in Nat
        /\ ModelRisk(f, <<k, x>>) <= ModelRisk(g, <<k, y>>)
    BY <1>1, <2>1, ModelRiskMonotone
  <2> QED BY <2>1, <2>2
<1>7. /\ RiskScore(c) = 300 * AmountRisk(c.amount) + 25 * EvidenceRisk(f.evidence)
            + 200 * UncertaintyRisk(f) + 150 * TypeRisk(c.type) + ModelRisk(f, c.ml)
      /\ RiskScore(w) = 300 * AmountRisk(w.amount) + 25 * EvidenceRisk(g.evidence)
            + 200 * UncertaintyRisk(g) + 150 * TypeRisk(w.type) + ModelRisk(g, w.ml)
  BY DEF RiskScore
<1> HIDE DEF f, g
<1> QED BY <1>2, <1>3, <1>4, <1>5, <1>6, <1>7

\* A worse case is not in a lower band.
LEMMA RiskBandMonotone ==
  ASSUME NEW c \in CaseRows, NEW w \in CaseRows, Worsened(w, c)
  PROVE  /\ RiskBand(c) \in 0..3
         /\ RiskBand(w) \in 0..3
         /\ RiskBand(c) <= RiskBand(w)
BY RiskScoreMonotone, BandMonotone DEF RiskBand

\* The property's worse case is worse in the sense of the lemmas.
LEMMA WorseIsWorsened ==
  ASSUME NEW c \in CaseRows, NEW w \in Worse(c)
  PROVE  w \in CaseRows /\ Worsened(w, c)
<1> DEFINE f == c.finding
<1>1. f \in FindingRows /\ c.amount \in Nat \cup {NoValue}
  BY DEF CaseRows
<1>2. ASSUME NEW g \in FindingRows, Doubts(g, f), w = [c EXCEPT !.finding = g]
      PROVE  w \in CaseRows /\ Worsened(w, c)
  BY <1>2 DEF CaseRows, Worsened
<1>3. CASE \E n \in EvidenceCounts : n < f.evidence /\ w = [c EXCEPT !.finding = [f EXCEPT !.evidence = n]]
  <2>1. PICK n \in EvidenceCounts : n < f.evidence /\ w = [c EXCEPT !.finding = [f EXCEPT !.evidence = n]]
    BY <1>3
  <2>2. [f EXCEPT !.evidence = n] \in FindingRows /\ Doubts([f EXCEPT !.evidence = n], f)
    BY <1>1, <2>1, EngineAssumption DEF FindingRows, Doubts
  <2> QED BY <1>2, <2>1, <2>2
<1>4. CASE \E n \in UncertaintyCounts :
             n > f.uncertainties /\ w = [c EXCEPT !.finding = [f EXCEPT !.uncertainties = n]]
  <2>1. PICK n \in UncertaintyCounts :
               n > f.uncertainties /\ w = [c EXCEPT !.finding = [f EXCEPT !.uncertainties = n]]
    BY <1>4
  <2>2. /\ [f EXCEPT !.uncertainties = n] \in FindingRows
        /\ Doubts([f EXCEPT !.uncertainties = n], f)
    BY <1>1, <2>1, EngineAssumption DEF FindingRows, Doubts
  <2> QED BY <1>2, <2>1, <2>2
<1>5. CASE \E n \in Confidences :
             n < f.confidence /\ w = [c EXCEPT !.finding = [f EXCEPT !.confidence = n]]
  <2>1. PICK n \in Confidences :
               n < f.confidence /\ w = [c EXCEPT !.finding = [f EXCEPT !.confidence = n]]
    BY <1>5
  <2>2. /\ [f EXCEPT !.confidence = n] \in FindingRows
        /\ Doubts([f EXCEPT !.confidence = n], f)
    BY <1>1, <2>1, EngineAssumption DEF FindingRows, Doubts
  <2> QED BY <1>2, <2>1, <2>2
<1>6. CASE w = [c EXCEPT !.finding = [f EXCEPT !.contradiction = TRUE]]
  <2> DEFINE g == [f EXCEPT !.contradiction = TRUE]
  <2>1. /\ g.contradiction
        /\ g.cause = f.cause
        /\ g.confidence = f.confidence
        /\ g.evidence = f.evidence
        /\ g.uncertainties = f.uncertainties
        /\ g \in FindingRows
    BY <1>1, Zenon DEF FindingRows
  <2>2. Doubts(g, f)
    <3> HIDE DEF g
    <3>1. f.confidence \in Int /\ f.evidence \in Int /\ f.uncertainties \in Int
      BY <1>1 DEF FindingRows
    <3> QED BY <2>1, <3>1 DEF Doubts
  <2> QED BY <1>2, <1>6, <2>1, <2>2
<1>7. CASE c.amount # NoValue /\ \E n \in Amounts : n > c.amount /\ w = [c EXCEPT !.amount = n]
  <2>1. PICK n \in Amounts : n > c.amount /\ w = [c EXCEPT !.amount = n]
    BY <1>7
  <2>2. n \in Nat /\ c.amount \in Nat
    BY <1>1, <1>7, EngineAssumption
  <2>3. Doubts(f, f)
    BY <1>1 DEF FindingRows, Doubts
  <2> QED BY <2>1, <2>2, <2>3 DEF CaseRows, Worsened
<1>8. CASE w = [c EXCEPT !.ml = <<@[1], FALSE>>]
  <2>1. Doubts(f, f)
    BY <1>1 DEF FindingRows, Doubts
  <2> QED BY <1>8, <2>1 DEF CaseRows, Worsened
<1> DEFINE Fs == {[f EXCEPT !.evidence = n] : n \in {m \in EvidenceCounts : m < f.evidence}}
                 \cup {[f EXCEPT !.uncertainties = n] :
                         n \in {m \in UncertaintyCounts : m > f.uncertainties}}
                 \cup {[f EXCEPT !.confidence = n] :
                         n \in {m \in Confidences : m < f.confidence}}
                 \cup {[f EXCEPT !.contradiction = TRUE]}
           As == IF c.amount = NoValue THEN {} ELSE {n \in Amounts : n > c.amount}
<1>9. \/ \E g \in Fs : w = [c EXCEPT !.finding = g]
      \/ \E n \in As : w = [c EXCEPT !.amount = n]
      \/ w = [c EXCEPT !.ml = <<@[1], FALSE>>]
  BY Zenon DEF Worse
<1>10. ASSUME NEW g \in Fs, w = [c EXCEPT !.finding = g]
       PROVE  w \in CaseRows /\ Worsened(w, c)
  <2>1. \/ \E n \in EvidenceCounts : n < f.evidence /\ g = [f EXCEPT !.evidence = n]
        \/ \E n \in UncertaintyCounts :
             n > f.uncertainties /\ g = [f EXCEPT !.uncertainties = n]
        \/ \E n \in Confidences : n < f.confidence /\ g = [f EXCEPT !.confidence = n]
        \/ g = [f EXCEPT !.contradiction = TRUE]
    BY Zenon
  <2> QED BY <1>3, <1>4, <1>5, <1>6, <1>10, <2>1, Zenon
<1>11. ASSUME NEW n \in As, w = [c EXCEPT !.amount = n]
       PROVE  w \in CaseRows /\ Worsened(w, c)
  <2>1. c.amount # NoValue /\ n \in Amounts /\ n > c.amount
    BY Zenon
  <2> QED BY <1>7, <1>11, <2>1, Zenon
<1> QED BY <1>8, <1>9, <1>10, <1>11, Zenon

----------------------------------------------------------------------------
(* The stopping rules and the policies.                                    *)

\* A rule that stops a case stops a worse one.
LEMMA RulesMonotone ==
  ASSUME NEW c \in CaseRows, NEW w \in CaseRows, Worsened(w, c)
  PROVE  /\ BlockedByRule(c) => BlockedByRule(w)
         /\ EscalatedByRule(c) => BlockedByRule(w) \/ EscalatedByRule(w)
<1>1. /\ RiskBand(c) \in 0..3
      /\ RiskBand(w) \in 0..3
      /\ RiskBand(c) <= RiskBand(w)
  BY RiskBandMonotone
<1>2. StopsAt(c.finding) => StopsAt(w.finding)
  BY DEF CaseRows, FindingRows, Worsened, Doubts, StopsAt
<1>3. w.finding.cause = c.finding.cause
  BY DEF Worsened, Doubts
<1>4. BlockedByRule(c) => BlockedByRule(w)
  BY <1>1, <1>2 DEF BlockedByRule
<1>5. RiskBand(c) = 2 => RiskBand(w) = 2 \/ RiskBand(w) = 3
  BY <1>1
<1> QED BY <1>3, <1>4, <1>5, Zenon DEF BlockedByRule, EscalatedByRule

\* The three degrees of freedom a policy may leave.
LEMMA PolicyFreedom ==
  ASSUME NEW c, NEW p
  PROVE  LET free == Freedom(PolicyVerdict(p, c))
             shut == p.alwaysEscalate \/ Forbids(p, c) \/ EscalatedByPolicy(p, c)
         IN  /\ shut => free = 0
             /\ ~shut /\ NeedsApproval(p, c) => free = 1
             /\ ~shut /\ ~NeedsApproval(p, c) => free = 2
<1>1. /\ Freedom("AUTO_EXECUTE") = 2
      /\ Freedom("RECOMMEND") = 1
      /\ Freedom("ESCALATE") = 0
      /\ Freedom("BLOCK") = 0
  BY DEF Freedom
<1>2. CASE p.alwaysEscalate
  BY <1>1, <1>2, Zenon DEF PolicyVerdict
<1>3. CASE ~p.alwaysEscalate /\ Forbids(p, c)
  BY <1>1, <1>3, Zenon DEF PolicyVerdict
<1>4. CASE ~p.alwaysEscalate /\ ~Forbids(p, c)
  <2>1. PolicyVerdict(p, c) = IF EscalatedByPolicy(p, c) THEN "ESCALATE"
                              ELSE IF NeedsApproval(p, c) THEN "RECOMMEND"
                              ELSE "AUTO_EXECUTE"
    BY <1>4, Zenon DEF PolicyVerdict
  <2> QED BY <1>1, <1>4, <2>1, Zenon
<1> QED BY <1>2, <1>3, <1>4, Zenon

\* A policy leaves a worse case no freer.
LEMMA PolicyMonotone ==
  ASSUME NEW c \in CaseRows, NEW w \in CaseRows, Worsened(w, c), NEW p \in PolicyRows,
         ~BlockedByRule(w)
  PROVE  Freedom(PolicyVerdict(p, w)) <= Freedom(PolicyVerdict(p, c))
<1>1. /\ RiskBand(c) \in 0..3
      /\ RiskBand(w) \in 0..3
      /\ RiskBand(c) <= RiskBand(w)
  BY RiskBandMonotone
<1>2. /\ p.maxBand \in Int
      /\ p.confidence \in Int
      /\ c.finding.confidence \in Int
      /\ w.finding.confidence \in Int
      /\ w.finding.confidence <= c.finding.confidence
  BY DEF PolicyRows, CaseRows, FindingRows, Worsened, Doubts
<1>3. Over(c.amount, p.reviewLimit) => Over(w.amount, p.reviewLimit)
  BY EngineAssumption DEF Over, PolicyRows, CaseRows, Worsened
<1>4. Over(c.amount, p.autoLimit) => Over(w.amount, p.autoLimit)
  BY EngineAssumption DEF Over, PolicyRows, CaseRows, Worsened
<1>5. Forbids(p, c) => Forbids(p, w)
  BY Zenon DEF Forbids, Worsened, Doubts
<1>6. NeedsApproval(p, c) => NeedsApproval(p, w)
  BY <1>1, <1>2, <1>3, <1>4 DEF NeedsApproval
<1>7. EscalatedByPolicy(p, c) => EscalatedByPolicy(p, w)
  <2>1. ~(w.finding.confidence < 50)
    BY Zenon DEF BlockedByRule, StopsAt
  <2> QED BY <1>1, <1>2, <2>1 DEF EscalatedByPolicy
<1> DEFINE Shut(x) == p.alwaysEscalate \/ Forbids(p, x) \/ EscalatedByPolicy(p, x)
<1>8. CASE Shut(w)
  <2>1. Freedom(PolicyVerdict(p, w)) = 0
    BY <1>8, PolicyFreedom, Zenon
  <2>2. Freedom(PolicyVerdict(p, c)) \in {0, 1, 2}
    BY PolicyFreedom
  <2> QED BY <2>1, <2>2
<1>9. CASE ~Shut(w)
  <2>1. ~Shut(c)
    BY <1>5, <1>7, <1>9
  <2>2. CASE NeedsApproval(p, w)
    <3>1. Freedom(PolicyVerdict(p, w)) = 1
      BY <1>9, <2>2, PolicyFreedom, Zenon
    <3>2. Freedom(PolicyVerdict(p, c)) \in {1, 2}
      BY <2>1, PolicyFreedom, Zenon
    <3> QED BY <3>1, <3>2
  <2>3. CASE ~NeedsApproval(p, w)
    <3>1. Freedom(PolicyVerdict(p, w)) = 2
      BY <1>9, <2>3, PolicyFreedom, Zenon
    <3>2. Freedom(PolicyVerdict(p, c)) = 2
      BY <1>6, <2>1, <2>3, PolicyFreedom, Zenon
    <3> QED BY <3>1, <3>2
  <2> QED BY <2>2, <2>3
<1> QED BY <1>8, <1>9

----------------------------------------------------------------------------
(* The whole pipeline.                                                     *)

\* The freedom of a verdict is the policies' if no rule has stopped the case.
LEMMA VerdictsFree ==
  ASSUME NEW c
  PROVE  /\ VerdictsOf(c) # {}
         /\ \A v \in VerdictsOf(c) : Freedom(v) \in {0, 1, 2}
<1>1. VerdictsOf(c) # {}
  BY Zenon DEF VerdictsOf, PolicyVerdicts
<1>2. \A v : Freedom(v) \in {0, 1, 2}
  BY DEF Freedom
<1> QED BY <1>1, <1>2

\* No doubt makes the engine freer: for every amount, confidence, count and set
\* of policies, whichever policy the query returns.
THEOREM MoreDoubtIsNoFreerHolds == Spec => []MoreDoubtIsNoFreer
<1>1. EngineInv => MoreDoubtIsNoFreer
  <2> SUFFICES ASSUME EngineInv, NEW w \in Worse(case)
               PROVE  /\ \A v \in VerdictsOf(w) :
                           \E u \in VerdictsOf(case) : Freedom(v) <= Freedom(u)
                      /\ \A u \in VerdictsOf(case) :
                           \E v \in VerdictsOf(w) : Freedom(v) <= Freedom(u)
    BY DEF MoreDoubtIsNoFreer
  <2>1. case \in CaseRows /\ w \in CaseRows /\ Worsened(w, case)
    BY WorseIsWorsened DEF EngineInv
  <2>2. CASE \E v \in {"BLOCK", "ESCALATE"} : VerdictsOf(w) = {v}
    <3>1. PICK v \in {"BLOCK", "ESCALATE"} : VerdictsOf(w) = {v}
      BY <2>2
    <3>2. Freedom(v) = 0
      BY <3>1 DEF Freedom
    <3>3. \A u \in VerdictsOf(case) : Freedom(v) <= Freedom(u)
      BY <3>2, VerdictsFree
    <3> QED BY <3>1, <3>3, VerdictsFree
  <2>3. CASE ~\E v \in {"BLOCK", "ESCALATE"} : VerdictsOf(w) = {v}
    <3>1. ~BlockedByRule(w) /\ ~EscalatedByRule(w)
      BY <2>3, Zenon DEF VerdictsOf
    <3>2. ~BlockedByRule(case) /\ ~EscalatedByRule(case)
      BY <2>1, <3>1, RulesMonotone
    <3>3. MatchingPolicies(w) = MatchingPolicies(case)
      BY <2>1, Zenon DEF MatchingPolicies, Worsened, Doubts
    <3>4. ~killSwitch /\ MatchingPolicies(w) # {}
      BY <2>3, <3>1, Zenon DEF VerdictsOf, PolicyVerdicts
    <3>5. /\ VerdictsOf(w) = {PolicyVerdict(p, w) : p \in MatchingPolicies(w)}
          /\ VerdictsOf(case) = {PolicyVerdict(p, case) : p \in MatchingPolicies(w)}
      BY <3>1, <3>2, <3>3, <3>4, Zenon DEF VerdictsOf, PolicyVerdicts
    <3>6. \A p \in MatchingPolicies(w) :
            Freedom(PolicyVerdict(p, w)) <= Freedom(PolicyVerdict(p, case))
      <4>1. \A p \in MatchingPolicies(w) : p \in PolicyRows
        BY EngineAssumption DEF MatchingPolicies, EngineInv
      <4> QED BY <2>1, <3>1, <4>1, PolicyMonotone
    <3> QED BY <3>5, <3>6, Zenon
  <2> QED BY <2>2, <2>3
<1> QED BY <1>1, EngineInvHolds, PTL

----------------------------------------------------------------------------
(* High amounts under the built-in policies.                               *)

\* Only a policy that applies makes a verdict automatic.
LEMMA AutomaticHasPolicy ==
  ASSUME EngineInv, Automatic
  PROVE  \E p \in policies : ~NeedsApproval(p, case)
<1>1. PICK v \in VerdictsOf(case) : verdict = <<v, ActionFor(v, case)>>
  BY Zenon DEF EngineInv, Automatic
<1>2. v = "AUTO_EXECUTE"
  BY <1>1 DEF Automatic
<1>3. v \in PolicyVerdicts(case)
  BY <1>2 DEF VerdictsOf
<1>4. PICK p \in MatchingPolicies(case) : v = PolicyVerdict(p, case)
  BY <1>2, <1>3 DEF PolicyVerdicts
<1>5. Freedom(PolicyVerdict(p, case)) = 2
  BY <1>2, <1>4 DEF Freedom
<1>6. ~NeedsApproval(p, case)
  <2>1. NeedsApproval(p, case) => Freedom(PolicyVerdict(p, case)) \in {0, 1}
    BY PolicyFreedom, Zenon
  <2> QED BY <1>5, <2>1
<1> QED BY <1>4, <1>6 DEF MatchingPolicies

\* The amount alone, or the amount of a duplicate, lifts the risk out of LOW.
LEMMA LargeAmountIsNotLow ==
  ASSUME NEW c \in CaseRows, c.amount \in Nat,
         c.amount > 50000 \/ (c.type = "DUPLICATE" /\ c.amount > 5000)
  PROVE  RiskBand(c) >= 1
<1>1. /\ AmountRisk(c.amount) \in Nat
      /\ c.amount > 5000 => AmountRisk(c.amount) >= 5
      /\ c.amount > 50000 => AmountRisk(c.amount) >= 9
  BY EngineAssumption DEF AmountRisk, Tier
<1>2. EvidenceRisk(c.finding.evidence) \in Nat /\ EvidenceRisk(c.finding.evidence) >= 12
  BY DEF CaseRows, FindingRows, EvidenceRisk, SmallerOf
<1>3. TypeRisk(c.type) \in Nat /\ (c.type = "DUPLICATE" => TypeRisk(c.type) = 6)
  <2>1. TypeRisk("DUPLICATE") = 6
    BY DEF TypeRisk
  <2> QED BY <2>1, TypeRiskTyped DEF CaseRows
<1>4. UncertaintyRisk(c.finding) \in Nat /\ ModelRisk(c.finding, c.ml) \in Nat
  <2>1. c.finding \in FindingRows /\ Doubts(c.finding, c.finding)
    BY DEF CaseRows, FindingRows, Doubts
  <2>2. UncertaintyRisk(c.finding) \in Nat
    BY <2>1, UncertaintyRiskMonotone
  <2>3. PICK k \in (0..100) \cup {NoValue}, x \in BOOLEAN : c.ml = <<k, x>>
    BY DEF CaseRows
  <2>4. ModelRisk(c.finding, <<k, x>>) \in Nat
    BY <2>1, <2>3, EngineAssumption DEF ModelRisk, DisagreementRisk, FindingRows
  <2> QED BY <2>2, <2>3, <2>4
<1>5. RiskScore(c) \in Nat /\ RiskScore(c) >= 2500
  <2>1. RiskScore(c) = 300 * AmountRisk(c.amount) + 25 * EvidenceRisk(c.finding.evidence)
          + 200 * UncertaintyRisk(c.finding) + 150 * TypeRisk(c.type)
          + ModelRisk(c.finding, c.ml)
    BY DEF RiskScore
  <2> QED BY <1>1, <1>2, <1>3, <1>4, <2>1
<1> QED BY <1>5 DEF RiskBand, Band

\* Only the policy for duplicates acts on a MEDIUM risk, and not above 5000.
LEMMA BuiltInNeedsApproval ==
  ASSUME NEW c \in CaseRows, NEW p \in BuiltInPolicies,
         c.amount \in Nat, c.amount > 5000, RiskBand(c) >= 1, RiskBand(c) \in 0..3
  PROVE  NeedsApproval(p, c)
<1>1. CASE p = DuplicatePolicy
  <2>1. p.autoLimit = 5000
    BY <1>1 DEF DuplicatePolicy
  <2> QED BY <2>1, EngineAssumption DEF NeedsApproval, Over
<1>2. CASE p # DuplicatePolicy
  <2>1. p.maxBand = 0
    BY <1>2 DEF BuiltInPolicies, FeeVariancePolicy, UnknownPolicy, LargePolicy
  <2> QED BY <2>1 DEF NeedsApproval
<1> QED BY <1>1, <1>2

\* Above 50000, and for a duplicate above 5000, no built-in policy is automatic.
LEMMA LargeAmountIsReviewed ==
  ASSUME EngineInv, policies \subseteq BuiltInPolicies, case.amount \in Nat,
         case.amount > 50000 \/ (case.type = "DUPLICATE" /\ case.amount > 5000)
  PROVE  ~Automatic
<1>1. case \in CaseRows
  BY DEF EngineInv
<1>2. RiskBand(case) >= 1
  BY <1>1, LargeAmountIsNotLow
<1>3. RiskBand(case) \in 0..3
  <2>1. Worsened(case, case)
    BY <1>1 DEF Worsened, Doubts, CaseRows, FindingRows
  <2> QED BY <1>1, <2>1, RiskBandMonotone
<1>4. case.amount > 5000
  OBVIOUS
<1>5. \A p \in policies : NeedsApproval(p, case)
  BY <1>1, <1>2, <1>3, <1>4, BuiltInNeedsApproval
<1> QED BY <1>5, AutomaticHasPolicy

\* As long as only built-in policies are active, a duplicate above 5000 is never
\* acted on automatically, whatever its cause, confidence and evidence.
THEOREM HighValueDuplicateHolds ==
  ASSUME \A ps \in PolicySets : ps \subseteq BuiltInPolicies
  PROVE  Spec => []HighValueDuplicateIsReviewed
<1>1. EngineInv => HighValueDuplicateIsReviewed
  <2> SUFFICES ASSUME EngineInv, case.type = "DUPLICATE", case.amount # NoValue,
                      case.amount > 5000
               PROVE  ~Automatic
    BY DEF HighValueDuplicateIsReviewed
  <2>1. case.amount \in Nat /\ policies \subseteq BuiltInPolicies
    BY DEF EngineInv, CaseRows
  <2> QED BY <2>1, LargeAmountIsReviewed
<1> QED BY <1>1, EngineInvHolds, PTL

\* Above 50000 nothing is automatic under built-in policies.
THEOREM LargeDiscrepancyHolds == Spec => []LargeDiscrepancyIsReviewed
<1>1. EngineInv => LargeDiscrepancyIsReviewed
  <2> SUFFICES ASSUME EngineInv, case.amount # NoValue, policies \subseteq BuiltInPolicies,
                      case.amount > 50000
               PROVE  ~Automatic
    BY DEF LargeDiscrepancyIsReviewed
  <2>1. case.amount \in Nat
    BY DEF EngineInv, CaseRows
  <2> QED BY <2>1, LargeAmountIsReviewed
<1> QED BY <1>1, EngineInvHolds, PTL

----------------------------------------------------------------------------
(* What the controller takes for granted.                                  *)

\* An unknown cause that no rule blocks is escalated by one, so no policy sees it.
LEMMA OnlyUnknownIsEscalated ==
  ASSUME NEW c \in CaseRows, SelectAction(c.finding.cause) = "ESCALATE_EXCEPTION"
  PROVE  BlockedByRule(c) \/ EscalatedByRule(c)
<1>1. c.finding.cause \in Causes
  BY DEF CaseRows, FindingRows
<1>2. c.finding.cause = "UNKNOWN"
  BY <1>1 DEF SelectAction, Causes, Types
<1> QED BY <1>2 DEF EscalatedByRule

\* Without an investigation every exception is blocked: its default confidence of 30%
\* and its lack of evidence each stop it.
THEOREM UninvestigatedHolds == Spec => []UninvestigatedIsBlocked
<1>1. EngineInv => UninvestigatedIsBlocked
  <2> SUFFICES ASSUME EngineInv, case.finding = Uninvestigated, verdict # NoValue
               PROVE  verdict = <<"BLOCK", NoValue>>
    BY DEF UninvestigatedIsBlocked
  <2>1. BlockedByRule(case)
    BY DEF BlockedByRule, StopsAt, Uninvestigated
  <2>2. VerdictsOf(case) = {"BLOCK"}
    BY <2>1 DEF VerdictsOf
  <2> QED BY <2>2 DEF EngineInv, ActionFor
<1> QED BY <1>1, EngineInvHolds, PTL

\* The verdict of any case under any policies is one the controller's routing is
\* written for.
THEOREM VerdictFitsHolds == Spec => []VerdictFitsController
<1>1. EngineInv => VerdictFitsController
  <2> SUFFICES ASSUME EngineInv, verdict # NoValue
               PROVE  /\ killSwitch => verdict[1] \in {"ESCALATE", "BLOCK"}
                      /\ verdict[2] = NoValue <=> verdict[1] = "BLOCK"
                      /\ verdict[2] = "ESCALATE_EXCEPTION" =>
                           verdict[1] \in {"ESCALATE", "BLOCK"}
    BY DEF VerdictFitsController
  <2>1. PICK v \in VerdictsOf(case) : verdict = <<v, ActionFor(v, case)>>
    BY DEF EngineInv
  <2>2. killSwitch => v \in {"ESCALATE", "BLOCK"}
    BY DEF VerdictsOf, PolicyVerdicts
  <2>3. ActionFor(v, case) = NoValue <=> v = "BLOCK"
    <3>1. SelectAction(case.finding.cause) # NoValue
      BY EngineAssumption DEF SelectAction, ChosenActions
    <3>2. "ESCALATE_EXCEPTION" # NoValue
      BY EngineAssumption DEF ChosenActions
    <3> QED BY <3>1, <3>2 DEF ActionFor
  <2>4. ActionFor(v, case) = "ESCALATE_EXCEPTION" => v \in {"ESCALATE", "BLOCK"}
    <3> SUFFICES ASSUME ActionFor(v, case) = "ESCALATE_EXCEPTION", v # "BLOCK"
                 PROVE  v = "ESCALATE"
      OBVIOUS
    <3>1. BlockedByRule(case) \/ EscalatedByRule(case)
      BY OnlyUnknownIsEscalated DEF ActionFor, EngineInv
    <3>2. ~BlockedByRule(case)
      BY DEF VerdictsOf
    <3> QED BY <3>1, <3>2 DEF VerdictsOf
  <2> QED BY <2>1, <2>2, <2>3, <2>4
<1> QED BY <1>1, EngineInvHolds, PTL
===============================================================================
