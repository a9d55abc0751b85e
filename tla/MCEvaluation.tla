----------------------------- MODULE MCEvaluation -----------------------------
(* Two datasets, two runs, a preset and investigations at the same time.   *)
EXTENDS Evaluation, TLC

\* None, one with an unknown scenario, which the draws may miss, and one that does
\* not add up.
SomeDistributions ==
  {<<>>, <<<<"clean_match", 900>>, <<"other", 100>>>>, <<<<"duplicate", 700>>>>}

\* A clean match and an ambiguous case; a preset has two others.
SomeDraws == {0, 990}

\* A fee variance, which may be resolved, and a refund mismatch, which may not.
TwoCases == <<500, 900>>

\* Requests of a kind are interchangeable.
Symmetric == Permutations(Generators) \cup Permutations(Runs)

\* One that cites evidence and one that does not know the cause.
TwoInvestigations ==
  {[id |-> 1, cited |-> TRUE,  unknown |-> FALSE, human |-> FALSE],
   [id |-> 2, cited |-> FALSE, unknown |-> TRUE,  human |-> TRUE]}
===============================================================================
