---------------------------- MODULE MCInvestigation ----------------------------
(* One run with every cause and every fault, one plain run beside it. *)
EXTENDS Investigation

CONSTANTS main, first, second

AllRuns == {main, first, second}

\* The run with every answer alone, the other two together.
AloneOrTogether == {{main}, {first, second}}

\* The rules, the rules and the first case, all of both.
SomeSeedings == {<<6, 0>>, <<6, 1>>, <<6, 6>>}

\* The last document of each list is the nearest.
LastIsNearest ==
  LET documents == FinanceRules \o HistoricalCases
  IN  {[n \in DocumentNames |->
          Len(documents) - (CHOOSE i \in 1..Len(documents) : documents[i].name = n)]}

TwoClassifications ==
  {[type |-> t, confidence |-> 100] : t \in {"MISSING_SETTLEMENT", "AMOUNT_MISMATCH"}}

OneAnomaly == {[type |-> "ANOMALY", confidence |-> 90]}

SomePlans == [r \in AllRuns |-> IF r = main THEN {{}, NoReply, Malformed} ELSE {NoReply}]

SomeFindings == [r \in AllRuns |-> IF r = main THEN {0, 1, Malformed} ELSE {0}]

\* A model that answers 95 instead of 0.95 is taken at 1.
Whole(causes, ids, uncertainties) ==
  [cause : causes, raw : {9500}, ids : ids, uncertainties : uncertainties]

SomeCauses ==
  [r \in AllRuns |->
     IF r = main
     THEN Whole(Score!RootCauses, {5}, {0, 2}) \cup Whole({"MISSING_SETTLEMENT"}, {0}, {0})
          \cup Whole({"no such cause", "UNKNOWN"}, {1}, {Malformed})
          \cup Whole({"FEE_VARIANCE"}, {Malformed}, {0})
          \cup {NoReply, [cause |-> "MISSING_SETTLEMENT", raw |-> Malformed, ids |-> 5,
                          uncertainties |-> 0]}
     ELSE Whole({IF r = first THEN "MISSING_SETTLEMENT" ELSE "FEE_VARIANCE"}, {5}, {0})]
===============================================================================
