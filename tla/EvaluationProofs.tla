---------------------------- MODULE EvaluationProofs ----------------------------
(***************************************************************************)
(* Proofs about the benchmark: what a rate and an amount of money are, for *)
(* every dataset and every decision, which scores a run may have, and the  *)
(* order in which the dashboard shows the runs.                            *)
(***************************************************************************)
EXTENDS Evaluation, TLAPS, FiniteSetTheorems, WellFoundedInduction

----------------------------------------------------------------------------
(* Least and greatest naturals.                                            *)

\* Of some naturals there is a least one.
LEMMA LeastNatural ==
  ASSUME NEW T, T \subseteq Nat, T # {}
  PROVE  \E n \in T : \A m \in T : n <= m
<1> DEFINE R == OpToRel(<, Nat)
<1>1. IsWellFoundedOn(R, Nat)
  BY NatLessThanWellFounded
<1>2. \A x, y \in Nat : <<y, x>> \in R <=> y < x
  BY DEF OpToRel
<1>3. \A x, y \in Nat : y < x \/ x <= y
  OBVIOUS
<1> HIDE DEF R
<1>4. \A x, y \in Nat : <<y, x>> \in R \/ x <= y
  BY <1>2, <1>3, Zenon
<1>5. \E x \in T : \A y \in T : ~(<<y, x>> \in R)
  BY <1>1, WFMin
<1> QED BY <1>4, <1>5, Zenon

\* Of some naturals up to a bound there is a greatest one.
LEMMA GreatestNatural ==
  ASSUME NEW T, NEW n \in Nat, T \subseteq 0..n, T # {}
  PROVE  \E i \in T : \A j \in T : j <= i
<1> DEFINE Below == {n - i : i \in T}
<1>0. \A i \in T : i \in Int /\ 0 <= i /\ i <= n
  OBVIOUS
<1>1. Below \subseteq Nat /\ Below # {}
  <2>1. \A i \in T : n - i \in Nat
    BY <1>0
  <2> QED BY <2>1
<1>2. PICK k \in Below : \A m \in Below : k <= m
  BY <1>1, LeastNatural
<1>3. PICK i \in T : k = n - i
  BY <1>2
<1>4. ASSUME NEW j \in T PROVE j <= i
  <2>1. k <= n - j
    BY <1>2
  <2> QED BY <1>0, <1>3, <2>1
<1> QED BY <1>4

\* The least, as the model picks it.
LEMMA MinIsLeast ==
  ASSUME NEW T, T \subseteq Nat, T # {}
  PROVE  Min(T) \in T
<1>1. \E n \in T : \A m \in T : n <= m
  BY LeastNatural
<1> QED BY <1>1 DEF Min

\* The greatest, as the model picks it.
LEMMA MaxIsGreatest ==
  ASSUME NEW T, NEW n \in Nat, T \subseteq 0..n, T # {}
  PROVE  Max(T) \in T
<1>1. \E i \in T : \A j \in T : j <= i
  BY GreatestNatural
<1>2. \A i, j \in T : j <= i <=> i >= j
  OBVIOUS
<1>3. \E i \in T : \A j \in T : i >= j
  BY <1>1, <1>2
<1> QED BY <1>3 DEF Max

----------------------------------------------------------------------------
(* Sums.                                                                   *)

\* The sums of the beginnings of f, up to n.
Sums(s, f, n) == s = [k \in 0..n |-> IF k = 0 THEN 0 ELSE s[k - 1] + f[k]]

\* Every function has them: there is no least n up to which they are missing.
LEMMA SumsExist ==
  ASSUME NEW f, NEW n \in Nat
  PROVE  \E s : Sums(s, f, n)
<1> DEFINE Missing == {k \in Nat : ~ \E s : Sums(s, f, k)}
<1> SUFFICES ASSUME Missing # {} PROVE FALSE
  OBVIOUS
<1>1. PICK k \in Missing : \A m \in Missing : k <= m
  BY LeastNatural
<1>2. k # 0
  <2> DEFINE s == [j \in 0..0 |-> 0]
  <2>1. Sums(s, f, 0)
    BY DEF Sums
  <2> QED BY <2>1
<1>3. k - 1 \in Nat /\ k - 1 \notin Missing
  BY <1>1, <1>2
<1>4. PICK s : Sums(s, f, k - 1)
  BY <1>3
<1> DEFINE t == [j \in 0..k |-> IF j = k THEN s[k - 1] + f[k] ELSE s[j]]
<1>5. Sums(t, f, k)
  <2>1. ASSUME NEW j \in 0..k
        PROVE  t[j] = IF j = 0 THEN 0 ELSE t[j - 1] + f[j]
    <3>1. CASE j = k
      BY <1>2, <3>1
    <3>2. CASE j # k
      <4>1. j \in 0..(k - 1)
        BY <3>2
      <4>2. s[j] = IF j = 0 THEN 0 ELSE s[j - 1] + f[j]
        BY <1>4, <4>1 DEF Sums
      <4>3. t[j] = s[j] /\ (j # 0 => t[j - 1] = s[j - 1])
        BY <3>2
      <4> QED BY <4>2, <4>3
    <3> QED BY <3>1, <3>2
  <2> HIDE DEF t
  <2>2. t = [j \in 0..k |-> t[j]]
    BY DEF t
  <2> QED BY <2>1, <2>2 DEF Sums
<1> QED BY <1>5

\* The total is the last of them.
LEMMA TotalIsLast ==
  ASSUME NEW f, NEW n \in Nat
  PROVE  \E s : Sums(s, f, n) /\ Total(f, n) = s[n]
BY SumsExist DEF Total, Sums

\* What holds of nothing and is kept by one more step holds of every beginning.
LEMMA NoLeastCounterexample ==
  ASSUME NEW n \in Nat, NEW Holds, 0 \in Holds,
         \A k \in 1..n : k - 1 \in Holds => k \in Holds
  PROVE  n \in Holds
<1> DEFINE Fails == {k \in 0..n : k \notin Holds}
<1> SUFFICES ASSUME Fails # {} PROVE FALSE
  OBVIOUS
<1>1. Fails \subseteq Nat
  OBVIOUS
<1>2. PICK k \in Fails : \A m \in Fails : k <= m
  BY <1>1, LeastNatural
<1>3. k # 0 /\ k \in 0..n
  BY <1>2
<1>4. k \in 1..n /\ k - 1 \in 0..n /\ ~(k <= k - 1)
  BY <1>3
<1>5. k - 1 \in Holds
  BY <1>2, <1>4
<1> QED BY <1>2, <1>4, <1>5

\* The unfolding of the sums.
LEMMA SumsUnfold ==
  ASSUME NEW f, NEW n \in Nat, NEW s, Sums(s, f, n)
  PROVE  s[0] = 0 /\ \A k \in 1..n : s[k] = s[k - 1] + f[k]
<1>1. \A k \in 0..n : s[k] = IF k = 0 THEN 0 ELSE s[k - 1] + f[k]
  BY DEF Sums
<1>2. 0 \in 0..n /\ \A k \in 1..n : k \in 0..n /\ k # 0
  OBVIOUS
<1> QED BY <1>1, <1>2

\* A sum of amounts is an amount.
LEMMA TotalIsNatural ==
  ASSUME NEW n \in Nat, NEW f \in [1..n -> Nat]
  PROVE  Total(f, n) \in Nat
<1>1. PICK s : Sums(s, f, n) /\ Total(f, n) = s[n]
  BY TotalIsLast
<1> DEFINE Holds == {k \in 0..n : s[k] \in Nat}
<1>2. s[0] = 0 /\ \A k \in 1..n : s[k] = s[k - 1] + f[k]
  BY <1>1, SumsUnfold
<1>3. 0 \in Holds
  BY <1>2
<1>4. \A k \in 1..n : k - 1 \in Holds => k \in Holds
  BY <1>2
<1>5. n \in Holds
  <2> HIDE DEF Holds
  <2> QED BY <1>3, <1>4, NoLeastCounterexample
<1> QED BY <1>1, <1>5

\* A sum of smaller amounts is smaller.
LEMMA TotalIsMonotone ==
  ASSUME NEW n \in Nat, NEW f \in [1..n -> Nat], NEW g \in [1..n -> Nat],
         \A i \in 1..n : f[i] <= g[i]
  PROVE  Total(f, n) <= Total(g, n)
<1>1. PICK s : Sums(s, f, n) /\ Total(f, n) = s[n]
  BY TotalIsLast
<1>2. PICK t : Sums(t, g, n) /\ Total(g, n) = t[n]
  BY TotalIsLast
<1>3. s[0] = 0 /\ \A k \in 1..n : s[k] = s[k - 1] + f[k]
  BY <1>1, SumsUnfold
<1>4. t[0] = 0 /\ \A k \in 1..n : t[k] = t[k - 1] + g[k]
  BY <1>2, SumsUnfold
<1> DEFINE Holds == {k \in 0..n : s[k] \in Nat /\ t[k] \in Nat /\ s[k] <= t[k]}
<1>5. 0 \in Holds
  BY <1>3, <1>4
<1>6. ASSUME NEW k \in 1..n, k - 1 \in Holds PROVE k \in Holds
  <2>1. s[k - 1] <= t[k - 1] /\ f[k] <= g[k] /\ f[k] \in Nat /\ g[k] \in Nat
    BY <1>6
  <2> QED BY <1>3, <1>4, <1>6, <2>1
<1>7. n \in Holds
  <2> HIDE DEF Holds
  <2> QED BY <1>5, <1>6, NoLeastCounterexample
<1> QED BY <1>1, <1>2, <1>7

\* The sum of two amounts at each place is the sum of both sums.
LEMMA TotalIsAdditive ==
  ASSUME NEW n \in Nat, NEW f \in [1..n -> Nat], NEW g \in [1..n -> Nat],
         NEW h \in [1..n -> Nat], \A i \in 1..n : h[i] = f[i] + g[i]
  PROVE  Total(h, n) = Total(f, n) + Total(g, n)
<1>1. PICK s : Sums(s, f, n) /\ Total(f, n) = s[n]
  BY TotalIsLast
<1>2. PICK t : Sums(t, g, n) /\ Total(g, n) = t[n]
  BY TotalIsLast
<1>3. PICK u : Sums(u, h, n) /\ Total(h, n) = u[n]
  BY TotalIsLast
<1>4. s[0] = 0 /\ \A k \in 1..n : s[k] = s[k - 1] + f[k]
  BY <1>1, SumsUnfold
<1>5. t[0] = 0 /\ \A k \in 1..n : t[k] = t[k - 1] + g[k]
  BY <1>2, SumsUnfold
<1>6. u[0] = 0 /\ \A k \in 1..n : u[k] = u[k - 1] + h[k]
  BY <1>3, SumsUnfold
<1> DEFINE Holds == {k \in 0..n : s[k] \in Nat /\ t[k] \in Nat /\ u[k] = s[k] + t[k]}
<1>7. 0 \in Holds
  BY <1>4, <1>5, <1>6
<1>8. ASSUME NEW k \in 1..n, k - 1 \in Holds PROVE k \in Holds
  <2>1. /\ s[k - 1] \in Nat /\ f[k] \in Nat /\ t[k - 1] \in Nat /\ g[k] \in Nat
        /\ h[k] = f[k] + g[k] /\ u[k - 1] = s[k - 1] + t[k - 1]
    BY <1>8
  <2>2. s[k] = s[k - 1] + f[k] /\ t[k] = t[k - 1] + g[k] /\ u[k] = u[k - 1] + h[k]
    BY <1>4, <1>5, <1>6
  <2>3. s[k] \in Nat /\ t[k] \in Nat
    <3>1. \A a, b \in Nat : a + b \in Nat
      OBVIOUS
    <3> QED BY <2>1, <2>2, <3>1, Zenon
  <2>4. u[k] = (s[k - 1] + t[k - 1]) + (f[k] + g[k])
    BY <2>1, <2>2, Zenon
  <2>5. (s[k - 1] + t[k - 1]) + (f[k] + g[k]) = (s[k - 1] + f[k]) + (t[k - 1] + g[k])
    BY <2>1
  <2>6. u[k] = s[k] + t[k]
    BY <2>2, <2>4, <2>5, Zenon
  <2> QED BY <2>3, <2>6
<1>9. n \in Holds
  <2> HIDE DEF Holds
  <2> QED BY <1>7, <1>8, NoLeastCounterexample
<1> QED BY <1>1, <1>2, <1>3, <1>9

\* The sum of nothing is nothing.
LEMMA TotalOfNothing ==
  ASSUME NEW n \in Nat, NEW f, \A i \in 1..n : f[i] = 0
  PROVE  Total(f, n) = 0
<1>1. PICK s : Sums(s, f, n) /\ Total(f, n) = s[n]
  BY TotalIsLast
<1> DEFINE Holds == {k \in 0..n : s[k] = 0}
<1>2. s[0] = 0 /\ \A k \in 1..n : s[k] = s[k - 1] + f[k]
  BY <1>1, SumsUnfold
<1>3. 0 \in Holds
  BY <1>2
<1>4. \A k \in 1..n : k - 1 \in Holds => k \in Holds
  BY <1>2
<1>5. n \in Holds
  <2> HIDE DEF Holds
  <2> QED BY <1>3, <1>4, NoLeastCounterexample
<1> QED BY <1>1, <1>5

----------------------------------------------------------------------------
(* Rates.                                                                  *)

\* A part of a part of n places is counted, and has no more places.
LEMMA PartIsCounted ==
  ASSUME NEW n \in Nat, NEW T, NEW S, T \subseteq 1..n, S \subseteq T
  PROVE  /\ Cardinality(S) \in Nat /\ Cardinality(T) \in Nat
         /\ Cardinality(S) <= Cardinality(T) /\ Cardinality(T) <= n
<1>1. IsFiniteSet(1..n) /\ Cardinality(1..n) = n
  BY FS_Interval
<1>2. IsFiniteSet(T) /\ Cardinality(T) <= n
  BY <1>1, FS_Subset
<1>3. IsFiniteSet(S) /\ Cardinality(S) <= Cardinality(T)
  BY <1>2, FS_Subset
<1> QED BY <1>2, <1>3, FS_CardinalityType

\* A share of something, or of one where there is nothing.
LEMMA GuardedShare ==
  ASSUME NEW a \in Nat, NEW b \in Nat, a <= b
  PROVE  <<a, AtLeastOne(b)>> \in Rates /\ IsShare(<<a, AtLeastOne(b)>>)
BY DEF AtLeastOne, Rates, IsShare, Within

\* A share of something that is there.
LEMMA PlainShare ==
  ASSUME NEW a \in Nat, NEW b \in Nat \ {0}, a <= b
  PROVE  <<a, b>> \in Rates /\ IsShare(<<a, b>>)
BY DEF Rates, IsShare, Within

\* Whatever is predicted, the rates but recall and the miss rate are shares, and
\* those two are rates.
LEMMA ReconciliationRates ==
  ASSUME NEW cases \in Cases, NEW actual
  PROVE  LET m == Reconciliation(cases, actual)
         IN  /\ m \in ReconciliationScores
             /\ \A n \in DOMAIN m \ {"recall", "falseNegativeRate"} : IsShare(m[n])
<1> DEFINE Matched == {i \in 1..Len(cases) : actual[i] = "MATCHED"}
           Right   == {i \in 1..Len(cases) : actual[i] = Truth(cases, i).match}
           Missed  == {i \in 1..Len(cases) : actual[i] # "MATCHED" /\ Truth(cases, i).match = "MATCHED"}
           Wrongly == {i \in 1..Len(cases) : actual[i] = "MATCHED" /\ Truth(cases, i).match # "MATCHED"}
           matched   == Cardinality(Matched)
           right     == Cardinality(Right)
           fn        == Cardinality(Missed)
           fp        == Cardinality(Wrongly)
           total     == Len(cases)
           unmatched == total - matched
           m         == Reconciliation(cases, actual)
<1>1. total \in Nat
  BY DEF Cases
<1>2. /\ matched \in Nat /\ matched <= total /\ right \in Nat /\ right <= total
      /\ fn \in Nat /\ fp \in Nat /\ unmatched \in Nat /\ unmatched <= total
  <2>1. matched \in Nat /\ matched <= total
    BY <1>1, PartIsCounted
  <2>2. right \in Nat /\ right <= total
    BY <1>1, PartIsCounted
  <2>3. fn \in Nat /\ fp \in Nat
    BY <1>1, PartIsCounted
  <2> HIDE DEF matched, total
  <2> QED BY <1>1, <2>1, <2>2, <2>3
<1>3. m = [accuracy  |-> <<right, AtLeastOne(total)>>,
           matchRate |-> <<matched, AtLeastOne(total)>>,
           precision |-> IF matched + fp > 0 THEN <<matched, matched + fp>> ELSE <<1, 1>>,
           recall    |-> IF matched > 0 THEN <<matched - fn, matched>> ELSE <<0, 1>>,
           falsePositiveRate |-> IF unmatched + fp > 0 THEN <<fp, unmatched + fp>> ELSE <<0, 1>>,
           falseNegativeRate |-> <<fn, AtLeastOne(total - unmatched)>>,
           unmatchedRate     |-> <<unmatched, AtLeastOne(total)>>]
  BY DEF Reconciliation, Count
<1> HIDE DEF matched, right, fn, fp, total, m
<1>4. /\ <<right, AtLeastOne(total)>> \in Rates /\ IsShare(<<right, AtLeastOne(total)>>)
      /\ <<matched, AtLeastOne(total)>> \in Rates /\ IsShare(<<matched, AtLeastOne(total)>>)
      /\ <<unmatched, AtLeastOne(total)>> \in Rates /\ IsShare(<<unmatched, AtLeastOne(total)>>)
  <2> HIDE DEF unmatched
  <2> QED BY <1>1, <1>2, GuardedShare
<1>5. m.precision \in Rates /\ IsShare(m.precision)
  <2>1. CASE matched + fp > 0
    <3>1. matched + fp \in Nat \ {0} /\ matched <= matched + fp
      BY <1>2, <2>1
    <3> QED BY <1>2, <1>3, <2>1, <3>1, PlainShare
  <2>2. CASE ~(matched + fp > 0)
    BY <1>3, <2>2, PlainShare
  <2> QED BY <2>1, <2>2
<1>6. m.falsePositiveRate \in Rates /\ IsShare(m.falsePositiveRate)
  <2>1. CASE unmatched + fp > 0
    <3> HIDE DEF unmatched
    <3>1. unmatched + fp \in Nat \ {0} /\ fp <= unmatched + fp
      BY <1>2, <2>1
    <3> QED BY <1>2, <1>3, <2>1, <3>1, PlainShare
  <2>2. CASE ~(unmatched + fp > 0)
    <3>1. m.falsePositiveRate = <<0, 1>>
      BY <1>3, <2>2
    <3> QED BY <3>1, PlainShare
  <2> QED BY <2>1, <2>2
<1>7. m.recall \in Rates
  <2>1. CASE matched > 0
    BY <1>2, <1>3, <2>1 DEF Rates
  <2>2. CASE ~(matched > 0)
    BY <1>3, <2>2 DEF Rates
  <2> QED BY <2>1, <2>2
<1>8. m.falseNegativeRate \in Rates
  <2>1. <<fn, AtLeastOne(total - unmatched)>> \in Rates
    BY <1>1, <1>2 DEF Rates, AtLeastOne
  <2> QED BY <1>3, <2>1
<1>9. m \in ReconciliationScores
  <2>1. /\ m.accuracy = <<right, AtLeastOne(total)>> /\ m.matchRate = <<matched, AtLeastOne(total)>>
        /\ m.unmatchedRate = <<unmatched, AtLeastOne(total)>>
    BY <1>3
  <2>2. m = [accuracy |-> m.accuracy, matchRate |-> m.matchRate, precision |-> m.precision,
             recall |-> m.recall, falsePositiveRate |-> m.falsePositiveRate,
             falseNegativeRate |-> m.falseNegativeRate, unmatchedRate |-> m.unmatchedRate]
    BY <1>3
  <2> QED BY <1>4, <1>5, <1>6, <1>7, <1>8, <2>1, <2>2 DEF ReconciliationScores
<1>10. ASSUME NEW n \in DOMAIN m \ {"recall", "falseNegativeRate"} PROVE IsShare(m[n])
  <2>1. n \in {"accuracy", "matchRate", "precision", "falsePositiveRate", "unmatchedRate"}
    BY <1>3, <1>10
  <2>2. /\ m["accuracy"] = <<right, AtLeastOne(total)>>
        /\ m["matchRate"] = <<matched, AtLeastOne(total)>>
        /\ m["unmatchedRate"] = <<unmatched, AtLeastOne(total)>>
    BY <1>3
  <2> QED BY <1>4, <1>5, <1>6, <2>1, <2>2
<1> QED BY <1>9, <1>10 DEF m

\* Whatever is decided, every rate of the controller's is a share.
LEMMA ControllerRates ==
  ASSUME NEW cases \in Cases, NEW decided
  PROVE  LET m == Controller(cases, decided)
         IN  m \in ControllerScores /\ \A n \in DOMAIN m : IsShare(m[n])
<1> DEFINE Made(d)     == {i \in 1..Len(cases) : decided[i] = d}
           Right(d, a) == {i \in 1..Len(cases) : /\ decided[i] = d /\ IsException(cases, i)
                                                 /\ Truth(cases, i).action = a}
           Exceptions  == {i \in 1..Len(cases) : IsException(cases, i)}
           Answered    == {i \in 1..Len(cases) :
                             /\ IsException(cases, i)
                             /\ decided[i] = ExpectedDecision(Truth(cases, i).action)}
           rate(d)     == <<Cardinality(Made(d)), AtLeastOne(Len(cases))>>
           right(d, a) == <<Cardinality(Right(d, a)), AtLeastOne(Cardinality(Made(d)))>>
           answered    == <<Cardinality(Answered), AtLeastOne(Cardinality(Exceptions))>>
           m           == Controller(cases, decided)
<1>1. Len(cases) \in Nat
  BY DEF Cases
<1>2. \A d : rate(d) \in Rates /\ IsShare(rate(d))
  <2> TAKE d
  <2>1. Cardinality(Made(d)) \in Nat /\ Cardinality(Made(d)) <= Len(cases)
    BY <1>1, PartIsCounted
  <2> HIDE DEF Made
  <2> QED BY <1>1, <2>1, GuardedShare
<1>3. \A d, a : right(d, a) \in Rates /\ IsShare(right(d, a))
  <2> TAKE d, a
  <2>1. Right(d, a) \subseteq Made(d) /\ Made(d) \subseteq 1..Len(cases)
    OBVIOUS
  <2> HIDE DEF Made, Right
  <2>2. /\ Cardinality(Right(d, a)) \in Nat /\ Cardinality(Made(d)) \in Nat
        /\ Cardinality(Right(d, a)) <= Cardinality(Made(d))
    BY <1>1, <2>1, PartIsCounted
  <2> QED BY <2>2, GuardedShare
<1>4. answered \in Rates /\ IsShare(answered)
  <2>1. Answered \subseteq Exceptions /\ Exceptions \subseteq 1..Len(cases)
    OBVIOUS
  <2> HIDE DEF Answered, Exceptions
  <2>2. /\ Cardinality(Answered) \in Nat /\ Cardinality(Exceptions) \in Nat
        /\ Cardinality(Answered) <= Cardinality(Exceptions)
    BY <1>1, <2>1, PartIsCounted
  <2> QED BY <2>2, GuardedShare
<1>5. m = [accuracy        |-> answered,
           autoPrecision   |-> right("AUTO_EXECUTE", "AUTO_RESOLVE_ALLOWED"),
           reviewPrecision |-> right("RECOMMEND", "HUMAN_REVIEW"),
           autoRate        |-> rate("AUTO_EXECUTE"),
           reviewRate      |-> rate("RECOMMEND"),
           escalationRate  |-> rate("ESCALATE"),
           blockingRate    |-> rate("BLOCK")]
  BY DEF Controller, Count
<1> HIDE DEF rate, right, answered, m
<1>6. m \in ControllerScores
  BY <1>2, <1>3, <1>4, <1>5 DEF ControllerScores
<1>7. ASSUME NEW n \in DOMAIN m PROVE IsShare(m[n])
  <2>1. n \in {"accuracy", "autoPrecision", "reviewPrecision", "autoRate", "reviewRate",
               "escalationRate", "blockingRate"}
    BY <1>5, <1>7
  <2> QED BY <1>2, <1>3, <1>4, <1>5, <2>1
<1> QED BY <1>6, <1>7 DEF m

----------------------------------------------------------------------------
(* Money.                                                                  *)

\* The amount at each place that is in S.
At(cases, S) == [i \in 1..Len(cases) |-> IF i \in S THEN cases[i].amount ELSE 0]

\* The amount of the places in S.
In(cases, S) == Total(At(cases, S), Len(cases))

\* An element of a sequence.
LEMMA ElementOf ==
  ASSUME NEW S, NEW s \in Seq(S), NEW i \in 1..Len(s)
  PROVE  s[i] \in S
OBVIOUS

\* Every case of a dataset has an amount.
LEMMA CasesHaveAmounts ==
  ASSUME NEW cases \in Cases
  PROVE  Len(cases) \in Nat /\ \A i \in 1..Len(cases) : cases[i].amount \in Nat
<1>1. Len(cases) \in Nat
  BY DEF Cases
<1>2. ASSUME NEW i \in 1..Len(cases) PROVE cases[i].amount \in Nat
  <2>1. cases[i] \in [scenario : Scenarios, amount : Nat]
    BY ElementOf DEF Cases
  <2> QED BY <2>1
<1> QED BY <1>1, <1>2

\* It is one, and grows with S.
LEMMA InIsAmount ==
  ASSUME NEW cases \in Cases, NEW T, NEW S, S \subseteq T
  PROVE  In(cases, S) \in Nat /\ In(cases, T) \in Nat /\ In(cases, S) <= In(cases, T)
<1>1. Len(cases) \in Nat /\ \A i \in 1..Len(cases) : cases[i].amount \in Nat
  BY CasesHaveAmounts
<1>2. At(cases, S) \in [1..Len(cases) -> Nat] /\ At(cases, T) \in [1..Len(cases) -> Nat]
  BY <1>1 DEF At
<1>3. ASSUME NEW i \in 1..Len(cases) PROVE At(cases, S)[i] <= At(cases, T)[i]
  <2>1. /\ At(cases, S)[i] = IF i \in S THEN cases[i].amount ELSE 0
        /\ At(cases, T)[i] = IF i \in T THEN cases[i].amount ELSE 0
    BY DEF At
  <2> QED BY <1>1, <2>1
<1> QED BY <1>1, <1>2, <1>3, TotalIsNatural, TotalIsMonotone DEF In

\* Of two parts that share no place, the amounts add up.
LEMMA InAddsUp ==
  ASSUME NEW cases \in Cases, NEW S, NEW T, S \cap T = {}
  PROVE  In(cases, S \cup T) = In(cases, S) + In(cases, T)
<1>1. Len(cases) \in Nat /\ \A i \in 1..Len(cases) : cases[i].amount \in Nat
  BY CasesHaveAmounts
<1>2. /\ At(cases, S) \in [1..Len(cases) -> Nat] /\ At(cases, T) \in [1..Len(cases) -> Nat]
      /\ At(cases, S \cup T) \in [1..Len(cases) -> Nat]
  BY <1>1 DEF At
<1>3. ASSUME NEW i \in 1..Len(cases)
      PROVE  At(cases, S \cup T)[i] = At(cases, S)[i] + At(cases, T)[i]
  <2>1. /\ At(cases, S)[i] = IF i \in S THEN cases[i].amount ELSE 0
        /\ At(cases, T)[i] = IF i \in T THEN cases[i].amount ELSE 0
        /\ At(cases, S \cup T)[i] = IF i \in S \cup T THEN cases[i].amount ELSE 0
    BY DEF At
  <2> QED BY <1>1, <2>1
<1> QED BY <1>1, <1>2, <1>3, TotalIsAdditive DEF In

\* Of no places there is no amount.
LEMMA InNothing ==
  ASSUME NEW cases \in Cases
  PROVE  In(cases, {}) = 0
<1>1. Len(cases) \in Nat
  BY DEF Cases
<1>2. \A i \in 1..Len(cases) : At(cases, {})[i] = 0
  BY DEF At
<1> QED BY <1>1, <1>2, TotalOfNothing DEF In

\* The places a condition names, and the financial metrics by the places they count.
Decided(cases, decided, ds) == {i \in 1..Len(cases) : decided[i] \in ds}
Executed(cases, decided)    == {i \in 1..Len(cases) : decided[i] = "AUTO_EXECUTE"}
Wrong(cases, decided) ==
  {i \in 1..Len(cases) : decided[i] = "AUTO_EXECUTE" /\ ~(Truth(cases, i).action = "AUTO_RESOLVE_ALLOWED")}
Saved(cases, decided) ==
  {i \in 1..Len(cases) : decided[i] = "AUTO_EXECUTE" /\ Truth(cases, i).action = "AUTO_RESOLVE_ALLOWED"}
Needless(cases, decided) ==
  {i \in 1..Len(cases) : decided[i] \in UnderReview /\ Truth(cases, i).action = "AUTO_RESOLVE_ALLOWED"}

\* The metrics, by the places they count.
LEMMA FinancialIs ==
  ASSUME NEW cases, NEW decided
  PROVE  Financial(cases, decided) =
           [processed          |-> In(cases, Decided(cases, decided, Decisions)),
            auto               |-> In(cases, Decided(cases, decided, {"AUTO_EXECUTE"})),
            wrongAuto          |-> In(cases, Wrong(cases, decided)),
            falsePositiveCost  |-> In(cases, Wrong(cases, decided)),
            falseNegativeCost  |-> In(cases, Needless(cases, decided)),
            review             |-> In(cases, Decided(cases, decided, UnderReview)),
            escalated          |-> In(cases, Decided(cases, decided, {"BLOCK"})),
            errorRate          |-> <<Cardinality(Wrong(cases, decided)),
                                     AtLeastOne(Cardinality(Executed(cases, decided)))>>,
            financialErrorRate |-> <<In(cases, Wrong(cases, decided)),
                                     AtLeastOne(In(cases, Decided(cases, decided, {"AUTO_EXECUTE"})))>>,
            avoided            |-> Cardinality(Saved(cases, decided))]
<1> DEFINE amount(ds) == Total([i \in 1..Len(cases) |-> IF decided[i] \in ds THEN cases[i].amount ELSE 0],
                               Len(cases))
           wrong == Total([i \in 1..Len(cases) |->
                             IF decided[i] = "AUTO_EXECUTE" /\ ~(Truth(cases, i).action = "AUTO_RESOLVE_ALLOWED")
                             THEN cases[i].amount ELSE 0], Len(cases))
           needless == Total([i \in 1..Len(cases) |->
                                IF decided[i] \in UnderReview /\ Truth(cases, i).action = "AUTO_RESOLVE_ALLOWED"
                                THEN cases[i].amount ELSE 0], Len(cases))
<1>1. ASSUME NEW ds PROVE amount(ds) = In(cases, Decided(cases, decided, ds))
  <2>1. [i \in 1..Len(cases) |-> IF decided[i] \in ds THEN cases[i].amount ELSE 0]
          = At(cases, Decided(cases, decided, ds))
    BY DEF At, Decided
  <2> QED BY <2>1 DEF In
<1>2. wrong = In(cases, Wrong(cases, decided))
  <2>1. [i \in 1..Len(cases) |->
           IF decided[i] = "AUTO_EXECUTE" /\ ~(Truth(cases, i).action = "AUTO_RESOLVE_ALLOWED")
           THEN cases[i].amount ELSE 0] = At(cases, Wrong(cases, decided))
    BY DEF At, Wrong
  <2> QED BY <2>1 DEF In
<1>3. needless = In(cases, Needless(cases, decided))
  <2>1. [i \in 1..Len(cases) |->
           IF decided[i] \in UnderReview /\ Truth(cases, i).action = "AUTO_RESOLVE_ALLOWED"
           THEN cases[i].amount ELSE 0] = At(cases, Needless(cases, decided))
    BY DEF At, Needless
  <2> QED BY <2>1 DEF In
<1>4. Financial(cases, decided) =
        [processed          |-> amount(Decisions),
         auto               |-> amount({"AUTO_EXECUTE"}),
         wrongAuto          |-> wrong,
         falsePositiveCost  |-> wrong,
         falseNegativeCost  |-> needless,
         review             |-> amount(UnderReview),
         escalated          |-> amount({"BLOCK"}),
         errorRate          |-> <<Cardinality(Wrong(cases, decided)),
                                  AtLeastOne(Cardinality(Executed(cases, decided)))>>,
         financialErrorRate |-> <<wrong, AtLeastOne(amount({"AUTO_EXECUTE"}))>>,
         avoided            |-> Cardinality(Saved(cases, decided))]
  BY DEF Financial, AmountOf, Count, Wrong, Executed, Saved
<1> HIDE DEF amount, wrong, needless
<1>5. /\ amount(Decisions) = In(cases, Decided(cases, decided, Decisions))
      /\ amount({"AUTO_EXECUTE"}) = In(cases, Decided(cases, decided, {"AUTO_EXECUTE"}))
      /\ amount(UnderReview) = In(cases, Decided(cases, decided, UnderReview))
      /\ amount({"BLOCK"}) = In(cases, Decided(cases, decided, {"BLOCK"}))
  BY <1>1
<1> QED BY <1>2, <1>3, <1>4, <1>5

\* Whatever is decided, both error rates are shares, and the amounts are amounts.
LEMMA FinancialRates ==
  ASSUME NEW cases \in Cases, NEW decided
  PROVE  LET m == Financial(cases, decided)
         IN  m \in FinancialScores /\ IsShare(m.errorRate) /\ IsShare(m.financialErrorRate)
<1> DEFINE m     == Financial(cases, decided)
           auto  == In(cases, Decided(cases, decided, {"AUTO_EXECUTE"}))
           wrong == In(cases, Wrong(cases, decided))
           many  == Cardinality(Executed(cases, decided))
           bad   == Cardinality(Wrong(cases, decided))
           saved == Cardinality(Saved(cases, decided))
           amount(ds) == In(cases, Decided(cases, decided, ds))
           needless   == In(cases, Needless(cases, decided))
<1>1. auto \in Nat /\ wrong \in Nat /\ wrong <= auto
  <2>1. Wrong(cases, decided) \subseteq Decided(cases, decided, {"AUTO_EXECUTE"})
    BY DEF Wrong, Decided
  <2> QED BY <2>1, InIsAmount
<1>2. bad \in Nat /\ many \in Nat /\ saved \in Nat /\ bad <= many
  <2>1. /\ Wrong(cases, decided) \subseteq Executed(cases, decided)
        /\ Saved(cases, decided) \subseteq Executed(cases, decided)
        /\ Executed(cases, decided) \subseteq 1..Len(cases)
    BY DEF Wrong, Executed, Saved
  <2>2. Len(cases) \in Nat
    BY DEF Cases
  <2> QED BY <2>1, <2>2, PartIsCounted
<1>3. (\A ds : amount(ds) \in Nat) /\ needless \in Nat
  BY InIsAmount
<1>4. m = [processed |-> amount(Decisions), auto |-> auto, wrongAuto |-> wrong,
           falsePositiveCost |-> wrong, falseNegativeCost |-> needless,
           review |-> amount(UnderReview), escalated |-> amount({"BLOCK"}),
           errorRate |-> <<bad, AtLeastOne(many)>>,
           financialErrorRate |-> <<wrong, AtLeastOne(auto)>>, avoided |-> saved]
  BY FinancialIs
<1> HIDE DEF m, auto, wrong, many, bad, saved, amount, needless
<1>5. /\ <<bad, AtLeastOne(many)>> \in Rates /\ IsShare(<<bad, AtLeastOne(many)>>)
      /\ <<wrong, AtLeastOne(auto)>> \in Rates /\ IsShare(<<wrong, AtLeastOne(auto)>>)
  BY <1>1, <1>2, GuardedShare
<1>6. m \in FinancialScores
  BY <1>1, <1>2, <1>3, <1>4, <1>5 DEF FinancialScores
<1>7. IsShare(m.errorRate) /\ IsShare(m.financialErrorRate)
  BY <1>4, <1>5
<1> QED BY <1>6, <1>7 DEF m

\* Whatever is decided, the money adds up.
LEMMA MoneyIsSplit ==
  ASSUME NEW cases \in Cases, NEW d \in Anything(cases, Decisions)
  PROVE  LET f == Financial(cases, d)
         IN  /\ f.processed = f.auto + f.review + f.escalated
                                + AmountOf(cases, LAMBDA j : d[j] = "NO_ACTION")
             /\ f.wrongAuto <= f.auto
             /\ f.falseNegativeCost <= f.review
             /\ f.errorRate[1] = 0 => f.falsePositiveCost = 0
<1> DEFINE f      == Financial(cases, d)
           A      == Decided(cases, d, {"AUTO_EXECUTE"})
           R      == Decided(cases, d, UnderReview)
           B      == Decided(cases, d, {"BLOCK"})
           N      == Decided(cases, d, {"NO_ACTION"})
           All    == Decided(cases, d, Decisions)
           nothing == AmountOf(cases, LAMBDA j : d[j] = "NO_ACTION")
<1>1. nothing = In(cases, N)
  <2>1. [i \in 1..Len(cases) |-> IF d[i] = "NO_ACTION" THEN cases[i].amount ELSE 0] = At(cases, N)
    BY DEF At, Decided
  <2> QED BY <2>1 DEF In, AmountOf
<1>2. /\ f.processed = In(cases, All) /\ f.auto = In(cases, A) /\ f.review = In(cases, R)
      /\ f.escalated = In(cases, B) /\ f.wrongAuto = In(cases, Wrong(cases, d))
      /\ f.falsePositiveCost = In(cases, Wrong(cases, d))
      /\ f.falseNegativeCost = In(cases, Needless(cases, d))
      /\ f.errorRate[1] = Cardinality(Wrong(cases, d))
  BY FinancialIs
<1>3. /\ All = ((A \cup R) \cup B) \cup N
      /\ A \cap R = {} /\ (A \cup R) \cap B = {} /\ ((A \cup R) \cup B) \cap N = {}
  BY DEF Decided, Decisions, UnderReview
<1>4. /\ Wrong(cases, d) \subseteq A /\ Needless(cases, d) \subseteq R
      /\ Wrong(cases, d) \subseteq 1..Len(cases)
  BY DEF Wrong, Needless, Decided
<1>5. Len(cases) \in Nat
  BY DEF Cases
<1> HIDE DEF f, A, R, B, N, All, nothing
<1>6. f.processed = f.auto + f.review + f.escalated + nothing
  <2>1. In(cases, A \cup R) = In(cases, A) + In(cases, R)
    BY <1>3, InAddsUp
  <2>2. In(cases, (A \cup R) \cup B) = In(cases, A \cup R) + In(cases, B)
    BY <1>3, InAddsUp
  <2>3. In(cases, ((A \cup R) \cup B) \cup N) = In(cases, (A \cup R) \cup B) + In(cases, N)
    BY <1>3, InAddsUp
  <2> QED BY <1>1, <1>2, <1>3, <2>1, <2>2, <2>3
<1>7. f.wrongAuto <= f.auto /\ f.falseNegativeCost <= f.review
  BY <1>2, <1>4, InIsAmount
<1>8. f.errorRate[1] = 0 => f.falsePositiveCost = 0
  <2>1. IsFiniteSet(Wrong(cases, d))
    <3>1. IsFiniteSet(1..Len(cases))
      BY <1>5, FS_Interval
    <3> QED BY <1>4, <3>1, FS_Subset
  <2>2. Cardinality(Wrong(cases, d)) = 0 => Wrong(cases, d) = {}
    BY <2>1, FS_EmptySet
  <2> QED BY <1>2, <2>2, InNothing
<1> QED BY <1>6, <1>7, <1>8 DEF f, nothing

\* The rates over any sample of investigations.
LEMMA AiRates ==
  ASSUME NEW sample, IsFiniteSet(sample)
  PROVE  Ai(sample) \in [citations : Rates, uncertainty : Rates, humanReview : Rates]
<1> DEFINE total    == Cardinality(sample)
           Cited    == {v \in sample : v.cited}
           Unknown  == {v \in sample : v.unknown}
           Human    == {v \in sample : v.human}
           share(n) == IF total = 0 THEN <<0, 1>> ELSE <<n, total>>
           cited    == IF total = 0 THEN <<0, 1>> ELSE <<total + Cardinality(Cited), 2 * total>>
<1>1. total \in Nat /\ \A S \in SUBSET sample : Cardinality(S) \in Nat
  BY FS_CardinalityType, FS_Subset
<1>2. Cardinality(Cited) \in Nat /\ Cardinality(Unknown) \in Nat /\ Cardinality(Human) \in Nat
  BY <1>1
<1>3. Ai(sample) = [citations |-> cited, uncertainty |-> share(Cardinality(Unknown)),
                            humanReview |-> share(Cardinality(Human))]
  BY DEF Ai
<1> HIDE DEF total, Cited, Unknown, Human
<1>4. cited \in Rates
  <2>1. CASE total = 0
    BY <2>1 DEF Rates
  <2>2. CASE total # 0
    <3>1. total + Cardinality(Cited) \in Int /\ 2 * total \in Nat \ {0}
      BY <1>1, <1>2, <2>2
    <3> QED BY <2>2, <3>1 DEF Rates
  <2> QED BY <2>1, <2>2
<1>5. \A n \in Nat : share(n) \in Rates
  BY <1>1 DEF Rates
<1> HIDE DEF share, cited
<1> QED BY <1>2, <1>3, <1>4, <1>5

\* What a run samples is finite.
LEMMA SamplesAreFinite ==
  ASSUME IsFiniteSet(investigations), NEW sample \in Samples
  PROVE  IsFiniteSet(sample)
<1>1. sample \subseteq investigations
  BY DEF Samples, kSubset
<1> QED BY <1>1, FS_Subset

\* The scores of a dataset.
LEMMA ScoresAreScores ==
  ASSUME NEW cases \in Cases
  PROVE  ScoresOf(cases) \in FixedScores
<1>1. Reconciliation(cases, Predictions(cases)) \in ReconciliationScores
  BY ReconciliationRates
<1>2. Controller(cases, Collected(cases)) \in ControllerScores
  BY ControllerRates
<1>3. Financial(cases, Collected(cases)) \in FinancialScores
  BY FinancialRates
<1>4. MlScores \in [accuracy : Rates, f1Macro : Rates, f1Weighted : Rates]
  BY DEF MlScores, Rates
<1> QED BY <1>1, <1>2, <1>3, <1>4 DEF ScoresOf, FixedScores

\* The last dataset is one.
LEMMA LastCases ==
  ASSUME datasets \in Seq(Rows), datasets # <<>>
  PROVE  datasets[Len(datasets)].cases \in Cases
<1>1. Len(datasets) \in 1..Len(datasets)
  OBVIOUS
<1>2. datasets[Len(datasets)] \in Rows
  BY <1>1, ElementOf
<1> QED BY <1>2 DEF Rows

\* The properties of the metrics need of a state only that its datasets are datasets.
LEMMA RatesFollow == datasets \in Seq(Rows) => RatesAreShares
<1> SUFFICES ASSUME datasets \in Seq(Rows), datasets # <<>> PROVE RatesAreShares
  BY DEF RatesAreShares
<1> DEFINE cases == datasets[Len(datasets)].cases
<1>1. cases \in Cases
  BY LastCases
<1> HIDE DEF cases
<1>2. ASSUME NEW p \in Anything(cases, MatchStatuses)
      PROVE  LET m == Reconciliation(cases, p)
             IN  \A n \in DOMAIN m \ {"recall", "falseNegativeRate"} : IsShare(m[n])
  BY <1>1, ReconciliationRates
<1>3. ASSUME NEW d \in Anything(cases, Decisions)
      PROVE  LET m == Controller(cases, d)
             IN  /\ \A n \in DOMAIN m : IsShare(m[n])
                 /\ IsShare(Financial(cases, d).errorRate)
                 /\ IsShare(Financial(cases, d).financialErrorRate)
  BY <1>1, ControllerRates, FinancialRates
<1> QED BY <1>2, <1>3 DEF RatesAreShares, cases

\* So do the sums of money.
LEMMA MoneyFollows == datasets \in Seq(Rows) => MoneyAddsUp
<1> SUFFICES ASSUME datasets \in Seq(Rows), datasets # <<>> PROVE MoneyAddsUp
  BY DEF MoneyAddsUp
<1> DEFINE cases == datasets[Len(datasets)].cases
<1>1. cases \in Cases
  BY LastCases
<1> HIDE DEF cases
<1>2. ASSUME NEW d \in Anything(cases, Decisions)
      PROVE  LET f == Financial(cases, d)
             IN  /\ f.processed = f.auto + f.review + f.escalated
                                    + AmountOf(cases, LAMBDA j : d[j] = "NO_ACTION")
                 /\ f.wrongAuto <= f.auto
                 /\ f.falseNegativeCost <= f.review
                 /\ f.errorRate[1] = 0 => f.falsePositiveCost = 0
  BY <1>1, MoneyIsSplit
<1> QED BY <1>2 DEF MoneyAddsUp, cases

----------------------------------------------------------------------------
(* The cases a generator draws.                                            *)

\* Both ends of a scenario's range are amounts.
LEMMA AmountsAreAmounts ==
  ASSUME NEW scenario \in Scenarios, NEW end \in {1, 2}
  PROVE  AmountRange[scenario][end] \in Nat
<1>1. scenario \in {"clean_match", "fee_variance", "amount_mismatch", "duplicate",
                    "missing_invoice", "missing_settlement", "refund_mismatch",
                    "date_mismatch", "ambiguous"}
  BY DEF Scenarios, GroundTruth
<1>2. CASE end = 1
  BY <1>1, <1>2 DEF AmountRange
<1>3. CASE end = 2
  BY <1>1, <1>3 DEF AmountRange
<1> QED BY <1>2, <1>3

\* Of a distribution of known scenarios, one of them is picked.
LEMMA PickIsKnown ==
  ASSUME NEW distribution, NEW draw, Len(distribution) \in Nat \ {0},
         \A i \in 1..Len(distribution) : distribution[i][1] \in Scenarios
  PROVE  PickScenario(distribution, draw) \in Scenarios
<1> DEFINE above == {i \in 1..Len(distribution) : draw < Share(distribution, i)}
           place == IF above = {} THEN Len(distribution) ELSE Min(above)
<1>1. place \in 1..Len(distribution)
  <2>1. CASE above = {}
    BY <2>1
  <2>2. CASE above # {}
    <3>1. above \subseteq Nat
      OBVIOUS
    <3>2. Min(above) \in above
      BY <2>2, <3>1, MinIsLeast
    <3> QED BY <2>2, <3>2
  <2> QED BY <2>1, <2>2
<1>2. PickScenario(distribution, draw) = distribution[place][1]
  BY DEF PickScenario
<1> QED BY <1>1, <1>2

\* Every preset is one of known scenarios, and has one.
LEMMA PresetIsKnown ==
  ASSUME NEW name \in DOMAIN Presets
  PROVE  /\ Len(Presets[name]) \in Nat \ {0}
         /\ \A i \in 1..Len(Presets[name]) : Presets[name][i][1] \in Scenarios
<1>1. name \in {"demo_preset_a", "demo_preset_b", "demo_preset_c", "demo_preset_d"}
  BY DEF Presets
<1>2. CASE name = "demo_preset_a"
  BY <1>2 DEF Presets, Scenarios, GroundTruth
<1>3. CASE name = "demo_preset_b"
  BY <1>3 DEF Presets, Scenarios, GroundTruth
<1>4. CASE name = "demo_preset_c"
  BY <1>4 DEF Presets, Scenarios, GroundTruth
<1>5. CASE name = "demo_preset_d"
  BY <1>5 DEF Presets, Scenarios, GroundTruth
<1> QED BY <1>1, <1>2, <1>3, <1>4, <1>5

\* Cases of known scenarios are cases.
LEMMA DrawnAreCases ==
  ASSUME NEW size \in Nat, NEW picked, NEW end \in {1, 2},
         \A i \in 1..size : picked[i] \in Scenarios
  PROVE  [i \in 1..size |-> CaseFor(picked[i], end)] \in Cases
<1>1. ASSUME NEW i \in 1..size
      PROVE  CaseFor(picked[i], end) \in [scenario : Scenarios, amount : Nat]
  BY AmountsAreAmounts DEF CaseFor
<1> QED BY <1>1 DEF Cases

\* The cases of a preset.
LEMMA PresetsHaveCases ==
  ASSUME NEW name \in Loaded
  PROVE  PresetCases(name) \in Cases
<1> DEFINE n      == Len(PresetDraws)
           picked == [i \in 1..n |-> PickScenario(Presets[name], PresetDraws[i])]
<1>1. name \in DOMAIN Presets /\ n \in Nat
  BY EvaluationAssumption
<1>2. \A i \in 1..n : picked[i] \in Scenarios
  BY <1>1, PresetIsKnown, PickIsKnown
<1>3. [i \in 1..n |-> CaseFor(picked[i], 1)] = PresetCases(name)
  BY DEF PresetCases
<1> HIDE DEF picked, n
<1>4. [i \in 1..n |-> CaseFor(picked[i], 1)] \in Cases
  BY <1>1, <1>2, DrawnAreCases
<1> QED BY <1>3, <1>4

----------------------------------------------------------------------------
(* The datasets.                                                           *)

\* What a request for a dataset, or for a preset of n rows, may be.
DatasetRequests   == [at : {"asked", "store", "over"}, dataset : Rows \cup {NoValue}]
PresetRequests(n) == [at : {"asked", "store", "over"}, name : Loaded \cup {NoValue}, row : 0..n]

\* What is stored and what is about to be: a dataset that a preset request inserted
\* has the preset's cases and nobody else's, and the row a preset request has found
\* keeps its name.
DatasetsInv ==
  /\ datasets \in Seq(Rows)
  /\ generator \in [Generators -> DatasetRequests]
  /\ loader \in [Loaders -> PresetRequests(Len(datasets))]
  /\ OneDatasetPerVersion
  /\ \A i \in 1..Len(datasets) : datasets[i].by = "preset" =>
       datasets[i].name \in Loaded /\ datasets[i].cases = PresetCases(datasets[i].name)
  /\ \A g \in Generators : generator[g].at = "store" =>
       generator[g].dataset \in Rows /\ generator[g].dataset.by = "request"
  /\ \A l \in Loaders : loader[l].at = "store" =>
       /\ loader[l].name \in Loaded
       /\ loader[l].row # 0 => datasets[loader[l].row].name = loader[l].name

\* Whether a row that is there stays one that the scores of a run may belong to: its
\* identity does not change, nor do its cases unless it was requested and a preset is
\* loaded over it, and that is not undone.
Stays(d, e) ==
  /\ e.name = d.name /\ e.version = d.version /\ e.by = d.by
  /\ e.cases = d.cases \/ (e.by = "request" /\ e.metadata = "preset")
  /\ d.metadata = "preset" => e.metadata = "preset"

\* The table only grows, and its rows stay.
Grows ==
  /\ Len(datasets) <= Len(datasets')
  /\ \A i \in 1..Len(datasets) : i \in 1..Len(datasets') /\ Stays(datasets[i], datasets'[i])

\* Nothing is stored at first.
LEMMA DatasetsInit == Init => DatasetsInv
<1> SUFFICES ASSUME Init PROVE DatasetsInv
  OBVIOUS
<1>1. datasets = <<>> /\ Len(datasets) = 0
  BY DEF Init
<1>2. generator \in [Generators -> DatasetRequests]
  BY DEF Init, Asked, DatasetRequests
<1>3. loader \in [Loaders -> PresetRequests(Len(datasets))]
  BY <1>1 DEF Init, Preset, PresetRequests
<1>4. /\ \A g \in Generators : generator[g].at # "store"
      /\ \A l \in Loaders : loader[l].at # "store"
  BY DEF Init, Asked, Preset
<1> QED BY <1>1, <1>2, <1>3, <1>4 DEF DatasetsInv, OneDatasetPerVersion

\* A step that leaves the table alone keeps the rows.
LEMMA SameTableGrows ==
  ASSUME datasets \in Seq(Rows), datasets' = datasets
  PROVE  Grows
BY DEF Grows, Stays

\* Another row at the end, that no row has the version of.
LEMMA OneMoreRow ==
  ASSUME DatasetsInv, NEW d \in Rows, ~StoredAs(d.name, d.version),
         d.by = "preset" => d.name \in Loaded /\ d.cases = PresetCases(d.name),
         datasets' = Append(datasets, d)
  PROVE  /\ Grows
         /\ datasets' \in Seq(Rows) /\ OneDatasetPerVersion'
         /\ \A i \in 1..Len(datasets') : datasets'[i].by = "preset" =>
              datasets'[i].name \in Loaded /\ datasets'[i].cases = PresetCases(datasets'[i].name)
<1>1. datasets \in Seq(Rows) /\ Len(datasets) \in Nat
  BY DEF DatasetsInv
<1>2. /\ datasets' \in Seq(Rows) /\ Len(datasets') = Len(datasets) + 1
      /\ \A i \in 1..Len(datasets) : datasets'[i] = datasets[i]
      /\ datasets'[Len(datasets) + 1] = d
  BY <1>1
<1>3. \A i \in 1..Len(datasets') : i \in 1..Len(datasets) \/ i = Len(datasets) + 1
  BY <1>1, <1>2
<1>4. \A i \in 1..Len(datasets) : i \in 1..Len(datasets')
  BY <1>1, <1>2
<1>5. Grows
  BY <1>1, <1>2, <1>4 DEF Grows, Stays
<1>6. ASSUME NEW i \in 1..Len(datasets'), NEW j \in 1..Len(datasets'),
             datasets'[i].name = datasets'[j].name, datasets'[i].version = datasets'[j].version
      PROVE  i = j
  BY <1>2, <1>3, <1>6 DEF DatasetsInv, OneDatasetPerVersion, StoredAs
<1>7. \A i \in 1..Len(datasets') : datasets'[i].by = "preset" =>
        datasets'[i].name \in Loaded /\ datasets'[i].cases = PresetCases(datasets'[i].name)
  BY <1>2, <1>3 DEF DatasetsInv
<1>8. OneDatasetPerVersion'
  BY <1>6 DEF OneDatasetPerVersion
<1> QED BY <1>2, <1>5, <1>7, <1>8

\* A request draws its cases, and stores nothing yet.
LEMMA GenerateKeeps ==
  ASSUME DatasetsInv, NEW g \in Generators, Generate(g)
  PROVE  DatasetsInv' /\ Grows
<1>1. datasets' = datasets /\ loader' = loader
  BY DEF Generate
<1>2. PICK name \in Names, version \in Versions, given \in Distributions, size \in Sizes :
        \E drawn \in [1..size -> Draws], end \in Ends :
          generator' = [generator EXCEPT ![g] =
                          Generated(name, version, DistributionFor(given), drawn, end)]
  BY DEF Generate
<1>3. PICK drawn \in [1..size -> Draws], end \in Ends :
        generator' = [generator EXCEPT ![g] =
                        Generated(name, version, DistributionFor(given), drawn, end)]
  BY <1>2
<1> DEFINE picked == [i \in 1..size |-> PickScenario(DistributionFor(given), drawn[i])]
           cases  == [i \in 1..size |-> CaseFor(picked[i], end)]
           d      == Dataset(name, version, "request", cases)
           over   == \/ StoredAs(name, version) \/ ~Usable(DistributionFor(given))
                     \/ \E i \in 1..size : picked[i] \notin Scenarios
           next   == IF over THEN Finished ELSE ToStore(d)
<1>a. Generated(name, version, DistributionFor(given), drawn, end) = next
  <2>1. DOMAIN drawn = 1..size
    OBVIOUS
  <2> QED BY <2>1 DEF Generated
<1>4. next.at = "store" => next.dataset \in Rows /\ next.dataset.by = "request"
  <2>1. CASE over
    BY <2>1 DEF Finished
  <2>2. CASE ~over
    <3>1. cases \in Cases
      <4>1. size \in Nat /\ end \in {1, 2}
        BY EvaluationAssumption
      <4>2. \A i \in 1..size : picked[i] \in Scenarios
        BY <2>2
      <4> HIDE DEF picked
      <4> QED BY <4>1, <4>2, DrawnAreCases
    <3> HIDE DEF cases
    <3>2. d \in Rows /\ d.by = "request"
      BY <3>1 DEF Dataset, Rows
    <3> HIDE DEF d
    <3> QED BY <2>2, <3>2 DEF ToStore
  <2> QED BY <2>1, <2>2
<1>5. next \in DatasetRequests
  <2>1. next = Finished \/ (next = ToStore(d) /\ next.at = "store")
    BY DEF ToStore
  <2> HIDE DEF next, d
  <2> QED BY <1>4, <2>1 DEF Finished, ToStore, DatasetRequests
<1>6. generator' = [generator EXCEPT ![g] = next]
  BY <1>3, <1>a
<1> HIDE DEF next, d, cases
<1>7. generator' \in [Generators -> DatasetRequests]
  BY <1>5, <1>6 DEF DatasetsInv
<1>8. ASSUME NEW x \in Generators, generator'[x].at = "store"
      PROVE  generator'[x].dataset \in Rows /\ generator'[x].dataset.by = "request"
  BY <1>4, <1>6, <1>8 DEF DatasetsInv
<1>9. Grows
  BY <1>1, SameTableGrows DEF DatasetsInv
<1> QED BY <1>1, <1>7, <1>8, <1>9 DEF DatasetsInv, OneDatasetPerVersion

\* What the requests wait to store is still what it was, once the table has grown.
LEMMA WaitingStays ==
  ASSUME DatasetsInv, Grows, datasets' \in Seq(Rows),
         NEW l \in Loaders, NEW x \in PresetRequests(Len(datasets)),
         x.at = "store" => /\ x.name \in Loaded
                           /\ x.row # 0 => datasets[x.row].name = x.name,
         loader' = [loader EXCEPT ![l] = x] \/ loader' = loader
  PROVE  /\ loader' \in [Loaders -> PresetRequests(Len(datasets'))]
         /\ \A y \in Loaders : loader'[y].at = "store" =>
              /\ loader'[y].name \in Loaded
              /\ loader'[y].row # 0 => datasets'[loader'[y].row].name = loader'[y].name
<1> DEFINE OK(y) == y.at = "store" => /\ y.name \in Loaded
                                      /\ y.row # 0 => datasets[y.row].name = y.name
           OKNow(y) == y.at = "store" => /\ y.name \in Loaded
                                         /\ y.row # 0 => datasets'[y.row].name = y.name
<1>1. Len(datasets) \in Nat /\ Len(datasets') \in Nat /\ Len(datasets) <= Len(datasets')
  BY DEF DatasetsInv, Grows
<1>2. ASSUME NEW y, y \in PresetRequests(Len(datasets)), OK(y)
      PROVE  y \in PresetRequests(Len(datasets')) /\ OKNow(y)
  <2>1. y.row \in 0..Len(datasets)
    BY <1>2 DEF PresetRequests
  <2>2. y.row \in 0..Len(datasets') /\ (y.row # 0 => y.row \in 1..Len(datasets))
    BY <1>1, <2>1
  <2>3. y.row # 0 => datasets'[y.row].name = datasets[y.row].name
    BY <2>2 DEF Grows, Stays
  <2>4. y \in PresetRequests(Len(datasets'))
    BY <1>2, <2>2 DEF PresetRequests
  <2> QED BY <1>2, <2>3, <2>4
<1>3. \A y \in Loaders : loader[y] \in PresetRequests(Len(datasets)) /\ OK(loader[y])
  BY DEF DatasetsInv
<1>4. loader \in [Loaders -> PresetRequests(Len(datasets))]
  BY DEF DatasetsInv
<1>5. x \in PresetRequests(Len(datasets)) /\ OK(x)
  OBVIOUS
<1> HIDE DEF OK, OKNow
<1>6. \A y \in Loaders : loader'[y] \in PresetRequests(Len(datasets)) /\ OK(loader'[y])
  BY <1>3, <1>4, <1>5
<1>7. \A y \in Loaders : loader'[y] \in PresetRequests(Len(datasets')) /\ OKNow(loader'[y])
  BY <1>2, <1>6
<1>8. loader' \in [Loaders -> PresetRequests(Len(datasets'))]
  BY <1>4, <1>7
<1> QED BY <1>7, <1>8 DEF OKNow

\* A request stores its dataset, or finds its version taken.
LEMMA StoreDatasetKeeps ==
  ASSUME DatasetsInv, NEW g \in Generators, StoreDataset(g)
  PROVE  DatasetsInv' /\ Grows
<1> DEFINE d == generator[g].dataset
<1>1. d \in Rows /\ d.by = "request"
  BY DEF StoreDataset, DatasetsInv
<1>2. /\ datasets' = IF StoredAs(d.name, d.version) THEN datasets ELSE Append(datasets, d)
      /\ generator' = [generator EXCEPT ![g] = Finished] /\ loader' = loader
  BY DEF StoreDataset
<1> HIDE DEF d
<1>3. /\ Grows /\ datasets' \in Seq(Rows) /\ OneDatasetPerVersion'
      /\ \A i \in 1..Len(datasets') : datasets'[i].by = "preset" =>
           datasets'[i].name \in Loaded /\ datasets'[i].cases = PresetCases(datasets'[i].name)
  <2>1. CASE StoredAs(d.name, d.version)
    BY <1>2, <2>1, SameTableGrows DEF DatasetsInv, OneDatasetPerVersion
  <2>2. CASE ~StoredAs(d.name, d.version)
    BY <1>1, <1>2, <2>2, OneMoreRow
  <2> QED BY <2>1, <2>2
<1>4. Finished \in DatasetRequests
      /\ Finished.at # "store"
  BY DEF Finished, DatasetRequests
<1>5. generator' \in [Generators -> DatasetRequests]
  BY <1>2, <1>4 DEF DatasetsInv
<1>6. ASSUME NEW x \in Generators, generator'[x].at = "store"
      PROVE  generator'[x].dataset \in Rows /\ generator'[x].dataset.by = "request"
  BY <1>2, <1>4, <1>6 DEF DatasetsInv
<1>7. /\ loader' \in [Loaders -> PresetRequests(Len(datasets'))]
      /\ \A y \in Loaders : loader'[y].at = "store" =>
           /\ loader'[y].name \in Loaded
           /\ loader'[y].row # 0 => datasets'[loader'[y].row].name = loader'[y].name
  <2>1. CASE Loaders = {}
    BY <1>2, <2>1 DEF DatasetsInv
  <2>2. ASSUME NEW l \in Loaders
        PROVE  /\ loader' \in [Loaders -> PresetRequests(Len(datasets'))]
               /\ \A y \in Loaders : loader'[y].at = "store" =>
                    /\ loader'[y].name \in Loaded
                    /\ loader'[y].row # 0 => datasets'[loader'[y].row].name = loader'[y].name
    <3>1. /\ loader[l] \in PresetRequests(Len(datasets))
          /\ loader[l].at = "store" =>
               /\ loader[l].name \in Loaded
               /\ loader[l].row # 0 => datasets[loader[l].row].name = loader[l].name
      BY DEF DatasetsInv
    <3> QED BY <1>2, <1>3, <3>1, WaitingStays
  <2> QED BY <2>1, <2>2
<1> QED BY <1>3, <1>5, <1>6, <1>7 DEF DatasetsInv

\* A preset request finds a row of that name, or none.
LEMMA FindPresetKeeps ==
  ASSUME DatasetsInv, NEW l \in Loaders, FindPreset(l)
  PROVE  DatasetsInv' /\ Grows
<1>1. datasets' = datasets /\ generator' = generator
  BY DEF FindPreset
<1>2. PICK name \in Loaded :
        \E row \in IF {i \in 1..Len(datasets) : datasets[i].name = name} = {} THEN {0}
                   ELSE {i \in 1..Len(datasets) : datasets[i].name = name} :
          loader' = [loader EXCEPT ![l] = Preset("store", name, row)]
  BY DEF FindPreset
<1>3. PICK row \in IF {i \in 1..Len(datasets) : datasets[i].name = name} = {} THEN {0}
                   ELSE {i \in 1..Len(datasets) : datasets[i].name = name} :
        loader' = [loader EXCEPT ![l] = Preset("store", name, row)]
  BY <1>2
<1>4. Len(datasets) \in Nat
  BY DEF DatasetsInv
<1>5. row \in 0..Len(datasets) /\ (row # 0 => datasets[row].name = name)
  BY <1>4
<1> DEFINE x == Preset("store", name, row)
<1>6. /\ x \in PresetRequests(Len(datasets))
      /\ x.name \in Loaded /\ (x.row # 0 => datasets[x.row].name = x.name)
  BY <1>5 DEF Preset, PresetRequests
<1>7. Grows
  BY <1>1, SameTableGrows DEF DatasetsInv
<1>8. loader' = [loader EXCEPT ![l] = x]
  BY <1>3
<1>9. datasets' \in Seq(Rows)
  BY <1>1 DEF DatasetsInv
<1> HIDE DEF x
<1>10. /\ loader' \in [Loaders -> PresetRequests(Len(datasets'))]
       /\ \A y \in Loaders : loader'[y].at = "store" =>
            /\ loader'[y].name \in Loaded
            /\ loader'[y].row # 0 => datasets'[loader'[y].row].name = loader'[y].name
  BY <1>6, <1>7, <1>8, <1>9, WaitingStays
<1> QED BY <1>1, <1>7, <1>9, <1>10 DEF DatasetsInv, OneDatasetPerVersion

\* The preset is loaded over the row that was found: the row is what it was but for
\* its cases and its metadata.
LEMMA LoadedOver ==
  ASSUME DatasetsInv, NEW row \in 1..Len(datasets), NEW name \in Loaded,
         datasets[row].name = name,
         datasets' = [datasets EXCEPT ![row].cases = PresetCases(name), ![row].metadata = "preset"]
  PROVE  /\ Grows
         /\ datasets' \in Seq(Rows) /\ OneDatasetPerVersion'
         /\ \A i \in 1..Len(datasets') : datasets'[i].by = "preset" =>
              datasets'[i].name \in Loaded /\ datasets'[i].cases = PresetCases(datasets'[i].name)
<1> DEFINE new == [datasets[row] EXCEPT !.cases = PresetCases(name), !.metadata = "preset"]
<1>1. datasets \in Seq(Rows) /\ Len(datasets) \in Nat
  BY DEF DatasetsInv
<1>2. datasets[row] \in Rows
  BY <1>1, ElementOf
<1>3. /\ new \in Rows /\ new.name = name /\ new.version = datasets[row].version
      /\ new.by = datasets[row].by /\ new.cases = PresetCases(name) /\ new.metadata = "preset"
  BY <1>2, PresetsHaveCases DEF Rows
<1>4. datasets' = [datasets EXCEPT ![row] = new]
  BY <1>1
<1> HIDE DEF new
<1>5. /\ datasets' \in Seq(Rows) /\ Len(datasets') = Len(datasets)
      /\ \A i \in 1..Len(datasets) : datasets'[i] = IF i = row THEN new ELSE datasets[i]
  BY <1>1, <1>3, <1>4
<1>6. datasets[row].by = "preset" => datasets[row].cases = PresetCases(name)
  BY DEF DatasetsInv
<1>7. datasets[row].by = "request" \/ datasets[row].by = "preset"
  BY <1>2 DEF Rows
<1>8. ASSUME NEW i \in 1..Len(datasets) PROVE Stays(datasets[i], datasets'[i])
  <2>1. CASE i = row
    BY <1>3, <1>5, <1>6, <1>7, <2>1 DEF Stays
  <2>2. CASE i # row
    BY <1>5, <2>2 DEF Stays
  <2> QED BY <2>1, <2>2
<1>9. Grows
  BY <1>1, <1>5, <1>8 DEF Grows
<1>10. \A i \in 1..Len(datasets) : /\ datasets'[i].name = datasets[i].name
                                   /\ datasets'[i].version = datasets[i].version
                                   /\ datasets'[i].by = datasets[i].by
  BY <1>8 DEF Stays
<1>11. OneDatasetPerVersion'
  BY <1>5, <1>10 DEF DatasetsInv, OneDatasetPerVersion
<1>12. ASSUME NEW i \in 1..Len(datasets'), datasets'[i].by = "preset"
       PROVE  datasets'[i].name \in Loaded /\ datasets'[i].cases = PresetCases(datasets'[i].name)
  <2>1. CASE i = row
    BY <1>3, <1>5, <2>1
  <2>2. CASE i # row
    BY <1>5, <1>12, <2>2 DEF DatasetsInv
  <2> QED BY <2>1, <2>2
<1> QED BY <1>5, <1>9, <1>11, <1>12

\* A preset request stores its cases.
LEMMA StorePresetKeeps ==
  ASSUME DatasetsInv, NEW l \in Loaders, StorePreset(l)
  PROVE  DatasetsInv' /\ Grows
<1> DEFINE p == loader[l]
           d == Dataset(p.name, "demo", "preset", PresetCases(p.name))
           x == Preset("over", p.name, p.row)
<1>1. p.at = "store" /\ p \in PresetRequests(Len(datasets))
  BY DEF StorePreset, DatasetsInv
<1>2. p.name \in Loaded /\ (p.row # 0 => datasets[p.row].name = p.name)
  BY <1>1 DEF DatasetsInv
<1>3. /\ datasets' =
           IF p.row # 0
           THEN [datasets EXCEPT ![p.row].cases = PresetCases(p.name), ![p.row].metadata = "preset"]
           ELSE IF StoredAs(p.name, "demo") THEN datasets ELSE Append(datasets, d)
      /\ loader' = [loader EXCEPT ![l] = x] /\ generator' = generator
  BY DEF StorePreset
<1>4. p.row \in 0..Len(datasets) /\ Len(datasets) \in Nat
  BY <1>1 DEF PresetRequests, DatasetsInv
<1>5. x \in PresetRequests(Len(datasets)) /\ x.at # "store"
  BY <1>2, <1>4 DEF Preset, PresetRequests
<1>6. /\ d \in Rows /\ d.name = p.name /\ d.version = "demo"
      /\ d.cases = PresetCases(d.name)
  BY <1>2, PresetsHaveCases DEF Dataset, Rows
<1> HIDE DEF p, d, x
<1>7. /\ Grows /\ datasets' \in Seq(Rows) /\ OneDatasetPerVersion'
      /\ \A i \in 1..Len(datasets') : datasets'[i].by = "preset" =>
           datasets'[i].name \in Loaded /\ datasets'[i].cases = PresetCases(datasets'[i].name)
  <2>1. CASE p.row # 0
    <3>1. p.row \in 1..Len(datasets)
      BY <1>4, <2>1
    <3> QED BY <1>2, <1>3, <2>1, <3>1, LoadedOver
  <2>2. CASE p.row = 0 /\ StoredAs(p.name, "demo")
    BY <1>3, <2>2, SameTableGrows DEF DatasetsInv, OneDatasetPerVersion
  <2>3. CASE p.row = 0 /\ ~StoredAs(p.name, "demo")
    BY <1>2, <1>3, <1>6, <2>3, OneMoreRow
  <2> QED BY <2>1, <2>2, <2>3
<1>8. /\ loader' \in [Loaders -> PresetRequests(Len(datasets'))]
      /\ \A y \in Loaders : loader'[y].at = "store" =>
           /\ loader'[y].name \in Loaded
           /\ loader'[y].row # 0 => datasets'[loader'[y].row].name = loader'[y].name
  BY <1>3, <1>5, <1>7, WaitingStays
<1> QED BY <1>3, <1>7, <1>8 DEF DatasetsInv

\* The runs and the investigations leave the datasets alone.
LEMMA OthersKeepDatasets ==
  ASSUME DatasetsInv, UNCHANGED <<datasets, generator, loader>>
  PROVE  DatasetsInv' /\ Grows
<1>1. Grows
  BY SameTableGrows DEF DatasetsInv
<1> QED BY <1>1 DEF DatasetsInv, OneDatasetPerVersion

\* Every step keeps the datasets.
LEMMA DatasetsNext == DatasetsInv /\ [Next]_vars => DatasetsInv' /\ Grows
<1> SUFFICES ASSUME DatasetsInv, [Next]_vars PROVE DatasetsInv' /\ Grows
  OBVIOUS
<1>1. ASSUME NEW g \in Generators, Generate(g) \/ StoreDataset(g) PROVE DatasetsInv' /\ Grows
  BY <1>1, GenerateKeeps, StoreDatasetKeeps
<1>2. ASSUME NEW l \in Loaders, FindPreset(l) \/ StorePreset(l) PROVE DatasetsInv' /\ Grows
  BY <1>2, FindPresetKeeps, StorePresetKeeps
<1>3. ASSUME NEW r \in Runs, OpenRun(r) \/ Measure(r) \/ CommitRun(r) \/ RunFails(r)
      PROVE  UNCHANGED <<datasets, generator, loader>>
  BY <1>3 DEF OpenRun, Measure, Computed, CommitRun, RunFails
<1>4. ASSUME NEW v \in Completions, Investigated(v) PROVE UNCHANGED <<datasets, generator, loader>>
  BY <1>4 DEF Investigated
<1>5. UNCHANGED vars => UNCHANGED <<datasets, generator, loader>>
  BY DEF vars
<1> QED BY <1>1, <1>2, <1>3, <1>4, <1>5, OthersKeepDatasets DEF Next

\* In every reachable state the table and what waits for it are right.
LEMMA DatasetsHold == Spec => []DatasetsInv
BY DatasetsInit, DatasetsNext, PTL DEF Spec

\* However dataset and preset requests interleave between their check and their insert
\* (generate_dataset, load_preset), a name and a version are one dataset.
THEOREM OneDatasetPerVersionHolds == Spec => []OneDatasetPerVersion
<1>1. DatasetsInv => OneDatasetPerVersion
  BY DEF DatasetsInv
<1> QED BY <1>1, DatasetsHold, PTL

\* Whatever is predicted and decided for the cases of a dataset, of any size, its
\* rates are shares (metrics.py), also where there is nothing to divide by.
THEOREM RatesAreSharesHolds == Spec => []RatesAreShares
<1>1. DatasetsInv => RatesAreShares
  BY RatesFollow DEF DatasetsInv
<1> QED BY <1>1, DatasetsHold, PTL

\* Whatever is decided for the cases of a dataset, of any size, the money adds up
\* (compute_financial_metrics).
THEOREM MoneyAddsUpHolds == Spec => []MoneyAddsUp
<1>1. DatasetsInv => MoneyAddsUp
  BY MoneyFollows DEF DatasetsInv
<1> QED BY <1>1, DatasetsHold, PTL

----------------------------------------------------------------------------
(* The runs.                                                               *)

\* The row of a run over a table of n datasets.
RunRows(n) == [status : {"RUNNING", "COMPLETED"}, dataset : 1..n, results : Scores \cup {NoValue}]
Phases     == {"asked", "measure", "commit", "over"}

\* The scores are those of the dataset, unless a preset was loaded over it.
Explained(s, d) == s.fixed = ScoresOf(d.cases) \/ (d.by = "request" /\ d.metadata = "preset")

\* A run with this row, in this phase, that has computed s.
RunOK(row, p, s, table) ==
  /\ p = "asked" => row = NoValue
  /\ p # "asked" => row \in RunRows(Len(table))
  /\ p \in {"measure", "commit"} => row.status = "RUNNING"
  /\ p # "asked" /\ row.status = "RUNNING" => row.results = NoValue
  /\ p = "commit" => s \in Scores /\ Explained(s, table[row.dataset])
  /\ p # "asked" /\ row.status = "COMPLETED" =>
       row.results \in Scores /\ Explained(row.results, table[row.dataset])

\* Every run has the scores of its dataset from when it has computed them, and is
\* stamped then, once.
RunsInv ==
  /\ runs \in [Runs -> {NoValue} \cup RunRows(Len(datasets))]
  /\ phase \in [Runs -> Phases]
  /\ scores \in [Runs -> Scores \cup {NoValue}]
  /\ investigations \subseteq Completions /\ IsFiniteSet(investigations)
  /\ \A r \in Runs : RunOK(runs[r], phase[r], scores[r], datasets)

StampsInv ==
  /\ stamps \in Seq(Runs)
  /\ \A i, j \in 1..Len(stamps) : stamps[i] = stamps[j] => i = j
  /\ \A r \in Runs : phase[r] \in {"asked", "measure"} => \A i \in 1..Len(stamps) : stamps[i] # r
  /\ \A r \in Runs : phase[r] = "commit" \/ r \in Completed => \E i \in 1..Len(stamps) : stamps[i] = r

\* Nothing is asked at first.
LEMMA RunsInit == Init => RunsInv /\ StampsInv
<1> SUFFICES ASSUME Init PROVE RunsInv /\ StampsInv
  OBVIOUS
<1>1. RunsInv
  <2>1. IsFiniteSet({})
    BY FS_EmptySet
  <2> QED BY <2>1 DEF Init, RunsInv, RunOK, Phases
<1>2. StampsInv
  BY DEF Init, StampsInv, Completed
<1> QED BY <1>1, <1>2

\* What a run has is still right once the table of datasets has grown.
LEMMA RunStays ==
  ASSUME DatasetsInv, Grows, DatasetsInv', NEW row, NEW p, NEW s, RunOK(row, p, s, datasets)
  PROVE  /\ RunOK(row, p, s, datasets')
         /\ RunRows(Len(datasets)) \subseteq RunRows(Len(datasets'))
<1>1. Len(datasets) \in Nat /\ Len(datasets') \in Nat /\ Len(datasets) <= Len(datasets')
  BY DEF DatasetsInv, Grows
<1>2. 1..Len(datasets) \subseteq 1..Len(datasets')
  BY <1>1
<1>3. RunRows(Len(datasets)) \subseteq RunRows(Len(datasets'))
  BY <1>2 DEF RunRows
<1>4. ASSUME NEW i \in 1..Len(datasets), NEW t, Explained(t, datasets[i])
      PROVE  Explained(t, datasets'[i])
  BY <1>4 DEF Explained, Grows, Stays
<1>5. p # "asked" => row.dataset \in 1..Len(datasets)
  BY DEF RunOK, RunRows
<1>6. p = "commit" => s \in Scores /\ Explained(s, datasets'[row.dataset])
  BY <1>4, <1>5 DEF RunOK
<1>7. p # "asked" /\ row.status = "COMPLETED" =>
        row.results \in Scores /\ Explained(row.results, datasets'[row.dataset])
  BY <1>4, <1>5 DEF RunOK
<1> QED BY <1>3, <1>6, <1>7 DEF RunOK

\* One run goes on, and is right where it gets.
LEMMA OneRun ==
  ASSUME DatasetsInv, DatasetsInv', RunsInv, UNCHANGED <<datasets, investigations>>,
         NEW r \in Runs, NEW row, NEW p \in Phases, NEW s \in Scores \cup {NoValue},
         RunOK(row, p, s, datasets), p # "asked",
         runs' = [runs EXCEPT ![r] = row], phase' = [phase EXCEPT ![r] = p],
         scores' = [scores EXCEPT ![r] = s]
  PROVE  RunsInv'
<1>1. row \in RunRows(Len(datasets))
  BY DEF RunOK
<1>2. \A x \in Runs : RunOK(runs'[x], phase'[x], scores'[x], datasets)
  BY DEF RunsInv
<1>3. /\ runs' \in [Runs -> {NoValue} \cup RunRows(Len(datasets))] /\ phase' \in [Runs -> Phases]
      /\ scores' \in [Runs -> Scores \cup {NoValue}]
  BY <1>1 DEF RunsInv
<1> QED BY <1>2, <1>3 DEF RunsInv

\* A dataset of that name that is there is found.
LEMMA NewestIsThere ==
  ASSUME datasets \in Seq(Rows), NEW name, \E i \in 1..Len(datasets) : datasets[i].name = name
  PROVE  Newest(name) \in 1..Len(datasets) /\ datasets[Newest(name)].name = name
<1> DEFINE T == {i \in 1..Len(datasets) : datasets[i].name = name}
<1>1. T # {} /\ T \subseteq 0..Len(datasets) /\ Len(datasets) \in Nat
  OBVIOUS
<1>2. Max(T) \in T
  <2> HIDE DEF T
  <2> QED BY <1>1, MaxIsGreatest
<1> QED BY <1>2 DEF Newest

\* Every step of a run keeps it right.
LEMMA RunStepKeeps ==
  ASSUME DatasetsInv, DatasetsInv', RunsInv, NEW r \in Runs,
         OpenRun(r) \/ Measure(r) \/ CommitRun(r) \/ RunFails(r)
  PROVE  RunsInv'
<1>0. /\ DOMAIN runs = Runs /\ DOMAIN phase = Runs /\ DOMAIN scores = Runs
      /\ scores[r] \in Scores \cup {NoValue} /\ RunOK(runs[r], phase[r], scores[r], datasets)
      /\ datasets \in Seq(Rows)
  BY DEF RunsInv, DatasetsInv
<1>a. /\ runs = [runs EXCEPT ![r] = runs[r]] /\ scores = [scores EXCEPT ![r] = scores[r]]
  BY DEF RunsInv
<1>1. CASE OpenRun(r)
  <2>1. PICK name : /\ \E i \in 1..Len(datasets) : datasets[i].name = name
                    /\ runs' = [runs EXCEPT ![r] = [status |-> "RUNNING", dataset |-> Newest(name),
                                                    results |-> NoValue]]
    BY <1>1 DEF OpenRun
  <2>2. Newest(name) \in 1..Len(datasets)
    BY <1>0, <2>1, NewestIsThere
  <2> DEFINE row == [status |-> "RUNNING", dataset |-> Newest(name), results |-> NoValue]
  <2>3. RunOK(row, "measure", scores[r], datasets)
    BY <2>2 DEF RunOK, RunRows
  <2>4. /\ phase' = [phase EXCEPT ![r] = "measure"] /\ scores' = scores
        /\ UNCHANGED <<datasets, investigations>>
    BY <1>1 DEF OpenRun
  <2> HIDE DEF row
  <2> QED BY <1>0, <1>a, <2>1, <2>3, <2>4, OneRun DEF Phases, row
<1>2. CASE Measure(r)
  <2>0. PICK sample \in Samples :
          scores' = [scores EXCEPT ![r] =
                       [fixed |-> ScoresOf(datasets[runs[r].dataset].cases), ai |-> Ai(sample)]]
    BY <1>2 DEF Measure, Computed
  <2> DEFINE d == datasets[runs[r].dataset]
             s == [fixed |-> ScoresOf(d.cases), ai |-> Ai(sample)]
  <2>1. runs[r] \in RunRows(Len(datasets)) /\ runs[r].status = "RUNNING" /\ runs[r].results = NoValue
    BY <1>0, <1>2 DEF Measure, RunOK
  <2>2. d \in Rows
    <3>1. runs[r].dataset \in 1..Len(datasets)
      BY <2>1 DEF RunRows
    <3> QED BY <1>0, <3>1, ElementOf
  <2>3. s \in Scores
    <3>1. d.cases \in Cases
      BY <2>2 DEF Rows
    <3>2. ScoresOf(d.cases) \in FixedScores
      BY <3>1, ScoresAreScores
    <3>3. Ai(sample) \in [citations : Rates, uncertainty : Rates, humanReview : Rates]
      BY AiRates, SamplesAreFinite DEF RunsInv
    <3> QED BY <3>2, <3>3 DEF Scores
  <2>4. /\ scores' = [scores EXCEPT ![r] = s] /\ phase' = [phase EXCEPT ![r] = "commit"]
        /\ runs' = runs /\ UNCHANGED <<datasets, investigations>>
    BY <1>2, <2>0 DEF Measure, Computed
  <2>5. Explained(s, d)
    BY DEF Explained
  <2>6. RunOK(runs[r], "commit", s, datasets)
    <3> HIDE DEF s
    <3> QED BY <2>1, <2>3, <2>5 DEF RunOK
  <2> HIDE DEF s, d
  <2> QED BY <1>a, <2>3, <2>4, <2>6, OneRun DEF Phases
<1>3. CASE CommitRun(r)
  <2> DEFINE row == [runs[r] EXCEPT !.status = "COMPLETED", !.results = scores[r]]
  <2>1. /\ runs[r] \in RunRows(Len(datasets)) /\ scores[r] \in Scores
        /\ Explained(scores[r], datasets[runs[r].dataset])
    BY <1>0, <1>3 DEF CommitRun, RunOK
  <2>2. /\ row \in RunRows(Len(datasets)) /\ row.status = "COMPLETED"
        /\ row.results = scores[r] /\ row.dataset = runs[r].dataset
    BY <2>1 DEF RunRows
  <2>3. runs' = [runs EXCEPT ![r] = row]
    BY <1>0, <1>3 DEF CommitRun
  <2> HIDE DEF row
  <2>4. RunOK(row, "over", scores[r], datasets)
    BY <2>1, <2>2 DEF RunOK
  <2>5. phase' = [phase EXCEPT ![r] = "over"] /\ scores' = scores
        /\ UNCHANGED <<datasets, investigations>>
    BY <1>3 DEF CommitRun
  <2> QED BY <1>0, <1>a, <2>3, <2>4, <2>5, OneRun DEF Phases
<1>4. CASE RunFails(r)
  <2>1. phase[r] \in {"measure", "commit"} /\ phase' = [phase EXCEPT ![r] = "over"]
        /\ UNCHANGED <<runs, scores, datasets, investigations>>
    BY <1>4 DEF RunFails
  <2>2. RunOK(runs[r], "over", scores[r], datasets)
    BY <1>0, <2>1 DEF RunOK
  <2> QED BY <1>0, <1>a, <2>1, <2>2, OneRun DEF Phases
<1> QED BY <1>1, <1>2, <1>3, <1>4

\* The other steps, that change neither a run nor its scores, keep every run right.
LEMMA OthersKeepRuns ==
  ASSUME DatasetsInv, DatasetsInv', Grows, RunsInv, UNCHANGED <<runs, phase, scores>>,
         investigations' = investigations \/ \E v \in Completions : investigations' = investigations \cup {v}
  PROVE  RunsInv'
<1>1. \A r \in Runs : RunOK(runs[r], phase[r], scores[r], datasets')
  BY RunStays DEF RunsInv
<1>2. runs' \in [Runs -> {NoValue} \cup RunRows(Len(datasets'))]
  <2>1. runs \in [Runs -> {NoValue} \cup RunRows(Len(datasets))]
    BY DEF RunsInv
  <2>2. ASSUME NEW r \in Runs PROVE runs[r] \in {NoValue} \cup RunRows(Len(datasets'))
    BY <2>1, RunStays DEF RunsInv
  <2> QED BY <2>1, <2>2
<1>3. investigations' \subseteq Completions /\ IsFiniteSet(investigations')
  <2>1. CASE investigations' = investigations
    BY <2>1 DEF RunsInv
  <2>2. ASSUME NEW v \in Completions, investigations' = investigations \cup {v}
        PROVE  investigations' \subseteq Completions /\ IsFiniteSet(investigations')
    BY <2>2, FS_AddElement DEF RunsInv
  <2> QED BY <2>1, <2>2
<1> QED BY <1>1, <1>2, <1>3 DEF RunsInv

\* Every step keeps every run right.
LEMMA RunsNext == DatasetsInv /\ DatasetsInv' /\ RunsInv /\ [Next]_vars => RunsInv'
<1> SUFFICES ASSUME DatasetsInv, DatasetsInv', RunsInv, [Next]_vars PROVE RunsInv'
  OBVIOUS
<1>1. Grows
  BY DatasetsNext
<1>2. ASSUME NEW r \in Runs, OpenRun(r) \/ Measure(r) \/ CommitRun(r) \/ RunFails(r)
      PROVE  RunsInv'
  BY <1>2, RunStepKeeps
<1>3. ASSUME \/ \E g \in Generators : Generate(g) \/ StoreDataset(g)
             \/ \E l \in Loaders : FindPreset(l) \/ StorePreset(l)
             \/ \E v \in Completions : Investigated(v)
             \/ UNCHANGED vars
      PROVE  RunsInv'
  <2>1. /\ UNCHANGED <<runs, phase, scores>>
        /\ \/ investigations' = investigations
           \/ \E v \in Completions : investigations' = investigations \cup {v}
    BY <1>3 DEF Generate, StoreDataset, FindPreset, StorePreset, Investigated, measuring, vars
  <2> QED BY <1>1, <2>1, OthersKeepRuns
<1> QED BY <1>2, <1>3 DEF Next

\* So is every run.
LEMMA RunsHold == Spec => []RunsInv
BY RunsInit, RunsNext, DatasetsHold, PTL DEF Spec

\* A completed run has the scores of the dataset it was opened for, whatever is
\* stored, loaded and opened meanwhile (run_evaluation).
THEOREM ScoresBelongToDatasetHolds == Spec => []ScoresBelongToDataset
<1>1. ASSUME RunsInv PROVE ScoresBelongToDataset
  <2>1. ASSUME NEW r \in Runs, runs[r] # NoValue, r \in Completed
        PROVE  /\ runs[r].results # NoValue
               /\ \/ runs[r].results.fixed = ScoresOf(datasets[runs[r].dataset].cases)
                  \/ /\ datasets[runs[r].dataset].by = "request"
                     /\ datasets[runs[r].dataset].metadata = "preset"
    <3>1. RunOK(runs[r], phase[r], scores[r], datasets) /\ phase[r] # "asked"
          /\ runs[r].status = "COMPLETED"
      BY <1>1, <2>1 DEF RunsInv, RunOK, Completed
    <3>2. runs[r].results \in Scores /\ Explained(runs[r].results, datasets[runs[r].dataset])
      BY <3>1 DEF RunOK
    <3> QED BY <3>2, EvaluationAssumption DEF Explained
  <2>2. ASSUME NEW r \in Runs, runs[r] # NoValue, r \notin Completed
        PROVE  runs[r].results = NoValue
    <3>1. RunOK(runs[r], phase[r], scores[r], datasets) /\ phase[r] # "asked"
      BY <1>1, <2>2 DEF RunsInv, RunOK
    <3>2. runs[r].status = "RUNNING"
      BY <2>2, <3>1 DEF RunOK, RunRows, Completed
    <3> QED BY <3>1, <3>2 DEF RunOK
  <2> QED BY <2>1, <2>2 DEF ScoresBelongToDataset
<1> QED BY <1>1, RunsHold, PTL

----------------------------------------------------------------------------
(* The order of the runs.                                                  *)

\* Where a run is stamped is where it stands in the order.
LEMMA StampIsPlace ==
  ASSUME StampsInv, NEW i \in 1..Len(stamps)
  PROVE  StampOf(stamps[i]) = i
<1>1. (CHOOSE j \in 1..Len(stamps) : stamps[j] = stamps[i]) \in 1..Len(stamps)
      /\ stamps[CHOOSE j \in 1..Len(stamps) : stamps[j] = stamps[i]] = stamps[i]
  OBVIOUS
<1> QED BY <1>1 DEF StampOf, StampsInv

\* If any run is completed, one has the latest stamp, and it is summarised.
LEMMA SummarisedIsLatest ==
  ASSUME StampsInv, Completed # {}
  PROVE  /\ Summarised \in Completed
         /\ \A q \in Completed : StampOf(q) <= StampOf(Summarised)
<1> DEFINE T == {StampOf(r) : r \in Completed}
<1>1. ASSUME NEW q \in Completed
      PROVE  StampOf(q) \in 1..Len(stamps)
  <2>1. PICK i \in 1..Len(stamps) : stamps[i] = q
    BY DEF StampsInv, Completed
  <2> QED BY <2>1, StampIsPlace
<1>2. Len(stamps) \in Nat
  BY DEF StampsInv
<1>3. T \subseteq 0..Len(stamps) /\ T # {}
  BY <1>1, <1>2
<1>4. PICK s \in T : \A t \in T : t <= s
  BY <1>2, <1>3, GreatestNatural
<1>5. PICK r \in Completed : \A q \in Completed : StampOf(q) <= StampOf(r)
  BY <1>4
<1>6. Summarised = CHOOSE x \in Completed : \A q \in Completed : StampOf(q) <= StampOf(x)
  BY DEF Summarised
<1> QED BY <1>5, <1>6

\* Another stamp goes to the end, and only to a run that has none.
LEMMA OneMoreStamp ==
  ASSUME StampsInv, NEW r \in Runs, \A i \in 1..Len(stamps) : stamps[i] # r,
         stamps' = Append(stamps, r)
  PROVE  /\ stamps' \in Seq(Runs)
         /\ \A i, j \in 1..Len(stamps') : stamps'[i] = stamps'[j] => i = j
         /\ \A i \in 1..Len(stamps) : i \in 1..Len(stamps') /\ stamps'[i] = stamps[i]
         /\ \A i \in 1..Len(stamps') : stamps'[i] = r \/ i \in 1..Len(stamps)
         /\ \E i \in 1..Len(stamps') : stamps'[i] = r
<1>1. stamps \in Seq(Runs) /\ Len(stamps) \in Nat
  BY DEF StampsInv
<1>2. /\ stamps' \in Seq(Runs) /\ Len(stamps') = Len(stamps) + 1
      /\ \A i \in 1..Len(stamps) : stamps'[i] = stamps[i]
      /\ stamps'[Len(stamps) + 1] = r
  BY <1>1
<1>3. \A i \in 1..Len(stamps') : i \in 1..Len(stamps) \/ i = Len(stamps) + 1
  BY <1>1, <1>2
<1>4. /\ \A i \in 1..Len(stamps) : i \in 1..Len(stamps')
      /\ Len(stamps) + 1 \in 1..Len(stamps')
  BY <1>1, <1>2
<1>5. \A i, j \in 1..Len(stamps') : stamps'[i] = stamps'[j] => i = j
  BY <1>2, <1>3 DEF StampsInv
<1> QED BY <1>2, <1>3, <1>4, <1>5

\* Every step keeps the stamps: a run is stamped when it has measured, and completed
\* only afterwards.
LEMMA StampsNext == StampsInv /\ RunsInv /\ [Next]_vars => StampsInv'
<1> SUFFICES ASSUME StampsInv, RunsInv, [Next]_vars PROVE StampsInv'
  OBVIOUS
<1>0. /\ DOMAIN runs = Runs /\ DOMAIN phase = Runs
      /\ \A r \in Runs : phase[r] = "asked" => runs[r] = NoValue
  BY DEF RunsInv, RunOK
<1>1. ASSUME NEW r \in Runs, OpenRun(r) PROVE StampsInv'
  <2>1. PICK i : runs' = [runs EXCEPT ![r] = [status |-> "RUNNING", dataset |-> i, results |-> NoValue]]
    BY <1>1 DEF OpenRun
  <2>2. /\ phase[r] = "asked" /\ phase' = [phase EXCEPT ![r] = "measure"] /\ stamps' = stamps
    BY <1>1 DEF OpenRun
  <2>3. \A x \in Runs : x \in Completed' => x \in Completed
    BY <1>0, <2>1 DEF Completed
  <2> QED BY <1>0, <2>2, <2>3 DEF StampsInv
<1>2. ASSUME NEW r \in Runs, Measure(r) PROVE StampsInv'
  <2>1. /\ phase[r] = "measure" /\ phase' = [phase EXCEPT ![r] = "commit"]
        /\ stamps' = Append(stamps, r) /\ runs' = runs
    BY <1>2 DEF Measure, Computed
  <2>2. \A i \in 1..Len(stamps) : stamps[i] # r
    BY <2>1 DEF StampsInv
  <2>3. /\ stamps' \in Seq(Runs)
        /\ \A i, j \in 1..Len(stamps') : stamps'[i] = stamps'[j] => i = j
        /\ \A i \in 1..Len(stamps) : i \in 1..Len(stamps') /\ stamps'[i] = stamps[i]
        /\ \A i \in 1..Len(stamps') : stamps'[i] = r \/ i \in 1..Len(stamps)
        /\ \E i \in 1..Len(stamps') : stamps'[i] = r
    BY <2>1, <2>2, OneMoreStamp
  <2>4. ASSUME NEW x \in Runs, phase'[x] \in {"asked", "measure"}
        PROVE  \A i \in 1..Len(stamps') : stamps'[i] # x
    <3>1. x # r /\ phase[x] \in {"asked", "measure"}
      BY <1>0, <2>1, <2>4
    <3> QED BY <2>3, <3>1 DEF StampsInv
  <2>5. ASSUME NEW x \in Runs, phase'[x] = "commit" \/ x \in Completed'
        PROVE  \E i \in 1..Len(stamps') : stamps'[i] = x
    <3>1. CASE x = r
      BY <2>3, <3>1
    <3>2. CASE x # r
      <4>1. phase[x] = "commit" \/ x \in Completed
        BY <1>0, <2>1, <2>5, <3>2 DEF Completed
      <4> QED BY <2>3, <4>1 DEF StampsInv
    <3> QED BY <3>1, <3>2
  <2> QED BY <2>3, <2>4, <2>5 DEF StampsInv
<1>3. ASSUME NEW r \in Runs, CommitRun(r) \/ RunFails(r) PROVE StampsInv'
  <2>1. /\ phase' = [phase EXCEPT ![r] = "over"] /\ stamps' = stamps
        /\ \A x \in Runs \ {r} : runs'[x] = runs[x]
        /\ phase[r] = "commit" \/ runs' = runs
    BY <1>0, <1>3 DEF CommitRun, RunFails
  <2>2. ASSUME NEW x \in Runs, x \in Completed' PROVE x \in Completed \/ phase[x] = "commit"
    BY <2>1, <2>2 DEF Completed
  <2> QED BY <1>0, <2>1, <2>2 DEF StampsInv
<1>4. ASSUME UNCHANGED <<runs, stamps, phase>> PROVE StampsInv'
  BY <1>4 DEF StampsInv, Completed
<1>5. ASSUME \/ \E g \in Generators : Generate(g) \/ StoreDataset(g)
             \/ \E l \in Loaders : FindPreset(l) \/ StorePreset(l)
             \/ \E v \in Completions : Investigated(v)
             \/ UNCHANGED vars
      PROVE  UNCHANGED <<runs, stamps, phase>>
  BY <1>5 DEF Generate, StoreDataset, FindPreset, StorePreset, Investigated, measuring, vars
<1> QED BY <1>1, <1>2, <1>3, <1>4, <1>5 DEF Next

\* So are the stamps.
LEMMA StampsHold == Spec => []StampsInv
BY RunsInit, StampsNext, RunsHold, PTL DEF Spec

\* A completed run stays completed, and stays where it is stamped.
LEMMA CompletedStays ==
  ASSUME StampsInv, StampsInv', RunsInv, [Next]_vars, NEW r \in Completed
  PROVE  r \in Completed' /\ StampOf(r)' = StampOf(r)
<1>0. r \in Runs /\ runs[r] # NoValue /\ runs[r].status = "COMPLETED"
  BY DEF Completed
<1>1. phase[r] = "over" /\ DOMAIN runs = Runs
  <2>1. phase[r] \in Phases /\ RunOK(runs[r], phase[r], scores[r], datasets) /\ DOMAIN runs = Runs
    BY <1>0 DEF RunsInv
  <2> QED BY <1>0, <2>1 DEF RunOK, Phases
<1>2. runs'[r] = runs[r] /\ (stamps' = stamps \/ \E x \in Runs : stamps' = Append(stamps, x))
  <2>1. ASSUME NEW x \in Runs, OpenRun(x) \/ Measure(x) \/ CommitRun(x) \/ RunFails(x)
        PROVE  runs'[r] = runs[r] /\ (stamps' = stamps \/ stamps' = Append(stamps, x))
    <3>1. x # r
      BY <1>1, <2>1 DEF OpenRun, Measure, CommitRun, RunFails
    <3> QED BY <1>0, <1>1, <2>1, <3>1 DEF OpenRun, Measure, Computed, CommitRun, RunFails
  <2>2. ASSUME \/ \E g \in Generators : Generate(g) \/ StoreDataset(g)
               \/ \E l \in Loaders : FindPreset(l) \/ StorePreset(l)
               \/ \E v \in Completions : Investigated(v)
               \/ UNCHANGED vars
        PROVE  UNCHANGED <<runs, stamps>>
    BY <2>2 DEF Generate, StoreDataset, FindPreset, StorePreset, Investigated, measuring, vars
  <2> QED BY <2>1, <2>2 DEF Next
<1>3. r \in Completed'
  BY <1>0, <1>2 DEF Completed
<1>4. PICK i \in 1..Len(stamps) : stamps[i] = r
  BY DEF StampsInv, Completed
<1>5. i \in 1..Len(stamps') /\ stamps'[i] = r
  BY <1>2, <1>4 DEF StampsInv
<1>6. StampOf(r) = i
  BY <1>4, StampIsPlace
<1>7. StampOf(r)' = i
  <2>1. \A j \in 1..Len(stamps') : stamps'[j] = r => j = i
    BY <1>5 DEF StampsInv
  <2> QED BY <1>5, <2>1 DEF StampOf
<1> QED BY <1>3, <1>6, <1>7

\* What the dashboard shows has the latest stamp.
ShownIsLatest ==
  Completed # {} =>
    /\ Summarised \in Completed
    /\ \A q \in Completed : StampOf(q) <= StampOf(Summarised)

\* The stamps make it so.
LEMMA StampsOrderTheRuns == StampsInv => ShownIsLatest
BY SummarisedIsLatest DEF ShownIsLatest

\* So it has in the next state.
LEMMA StampsOrderTheNextRuns == StampsInv' => ShownIsLatest'
BY StampsOrderTheRuns, PTL

\* In whatever order overlapping runs commit, the dashboard never goes back to older
\* scores than it has shown (get_summary).
THEOREM SummaryNeverGoesBackHolds == Spec => SummaryNeverGoesBack
<1>1. ASSUME StampsInv, StampsInv', RunsInv, [Next]_vars, Summarised # NoValue
      PROVE  StampOf(Summarised) <= StampOf(Summarised)'
  <2>1. Completed # {}
    BY <1>1 DEF Summarised
  <2>2. Summarised \in Completed
    BY <1>1, <2>1, SummarisedIsLatest
  <2> PICK old \in Completed : old = Summarised
    BY <2>2
  <2>3. old \in Completed' /\ StampOf(old)' = StampOf(old)
    BY <1>1, <2>2, CompletedStays
  <2> QED BY <1>1, <2>3, StampsOrderTheNextRuns DEF ShownIsLatest
<1>2. StampsInv /\ StampsInv' /\ RunsInv /\ [Next]_vars =>
        [Summarised # NoValue => StampOf(Summarised) <= StampOf(Summarised)']_vars
  BY <1>1
<1> QED BY <1>2, StampsHold, RunsHold, PTL DEF Spec, SummaryNeverGoesBack

----------------------------------------------------------------------------
(* Types.                                                                  *)

\* Every reachable state has the right types, and every rate a run stores a
\* denominator (models/evaluation.py).
THEOREM TypeOKHolds == Spec => []TypeOK
<1>1. DatasetsInv /\ RunsInv /\ StampsInv => TypeOK
  BY DEF DatasetsInv, RunsInv, StampsInv, TypeOK, DatasetRequests, PresetRequests, RunRows, Phases
<1> QED BY <1>1, DatasetsHold, RunsHold, StampsHold, PTL

================================================================================
