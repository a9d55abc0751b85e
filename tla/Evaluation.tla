------------------------------ MODULE Evaluation ------------------------------
(***************************************************************************)
(* Benchmark datasets and evaluation runs (backend/app/evaluation/,        *)
(* api/routes/evaluation.py), asked for by the API and the command line at *)
(* the same time, while presets are loaded for demonstrations              *)
(* (api/routes/demo.py) and investigations go on completing.               *)
(***************************************************************************)
EXTENDS EvaluationMetrics

CONSTANTS
  Generators,       \* the requests for a dataset
  Runs,             \* the requests for an evaluation
  Loaders,          \* the requests for a demo preset
  Loaded,           \* the names of the presets they may ask for
  PresetDraws,      \* what the generator draws for a preset: its seed is fixed
  Names, Versions,  \* what a requested dataset may be called
  Distributions,    \* the distributions a request may give
  Draws,            \* what the random generator may draw, in thousandths
  Sizes,            \* how many records may be asked for
  Ends,             \* which end of its range an amount may be
  Completions,      \* the investigations that may complete
  SampleSize,       \* how many of them a run looks at (500)
  NoValue           \* nothing yet

ASSUME EvaluationAssumption ==
  /\ Draws \subseteq 0..999
  /\ Sizes \subseteq Nat
  /\ Ends \subseteq {1, 2}
  /\ Loaded \subseteq DOMAIN Presets
  /\ PresetDraws \in Seq(0..999)
  /\ Distributions \subseteq Seq(STRING \X Int)
  /\ SampleSize \in Nat
  /\ NoValue \notin Scores

VARIABLES
  datasets,         \* the stored datasets, the newest last
  generator,        \* per dataset request: how far it is, and the dataset it will store
  loader,           \* per preset request: how far it is, and the row it has found
  runs,             \* per evaluation request: its row, as committed
  stamps,           \* the runs that have a completed_at, the latest last
  phase,            \* per evaluation request: what it does next
  scores,           \* per evaluation request: the metrics it has computed
  investigations    \* the completed investigations

vars == <<datasets, generator, loader, runs, stamps, phase, scores, investigations>>

Asked        == [at |-> "asked", dataset |-> NoValue]
Finished     == [at |-> "over", dataset |-> NoValue]
ToStore(d)   == [at |-> "store", dataset |-> d]

\* A preset request, the name it loads and the row it has found, 0 if there is none.
Preset(at, name, row) == [at |-> at, name |-> name, row |-> row]

Init ==
  /\ datasets = <<>>
  /\ generator = [g \in Generators |-> Asked]
  /\ loader = [l \in Loaders |-> Preset("asked", NoValue, 0)]
  /\ runs = [r \in Runs |-> NoValue]
  /\ stamps = <<>>
  /\ phase = [r \in Runs |-> "asked"]
  /\ scores = [r \in Runs |-> NoValue]
  /\ investigations = {}

----------------------------------------------------------------------------
(* Datasets (generate_dataset, cmd_generate_dataset).                      *)

measuring == <<runs, stamps, phase, scores, investigations>>

\* by: whose seed and distribution the row states; cases, and in its metadata whose
\* they are.
Dataset(name, version, who, cases) ==
  [name |-> name, version |-> version, by |-> who, metadata |-> who, cases |-> cases]

StoredAs(name, version) ==
  \E i \in 1..Len(datasets) : datasets[i].name = name /\ datasets[i].version = version

\* What a request comes to: a version that is stored, shares that do not add up and
\* a drawn scenario without ground truth end it.
Generated(name, version, distribution, drawn, end) ==
  LET picked == [i \in DOMAIN drawn |-> PickScenario(distribution, drawn[i])]
  IN  IF \/ StoredAs(name, version) \/ ~Usable(distribution)
         \/ \E i \in DOMAIN drawn : picked[i] \notin Scenarios
      THEN Finished
      ELSE ToStore(Dataset(name, version, "request",
                           [i \in DOMAIN drawn |-> CaseFor(picked[i], end)]))

\* The version is checked and the cases are drawn.
Generate(g) ==
  /\ generator[g].at = "asked"
  /\ \E name \in Names, version \in Versions, given \in Distributions, size \in Sizes :
       \E drawn \in [1..size -> Draws], end \in Ends :
         generator' = [generator EXCEPT ![g] =
                         Generated(name, version, DistributionFor(given), drawn, end)]
  /\ UNCHANGED <<datasets, loader, measuring>>

StoreDataset_NoConstraint(g) ==
  /\ generator[g].at = "store"
  /\ datasets' = Append(datasets, generator[g].dataset)
  /\ generator' = [generator EXCEPT ![g] = Finished]
  /\ UNCHANGED <<loader, measuring>>

\* A request that has stored the same version since makes the insert fail.
StoreDataset(g) ==
  /\ generator[g].at = "store"
  /\ LET d == generator[g].dataset
     IN  datasets' = IF StoredAs(d.name, d.version) THEN datasets ELSE Append(datasets, d)
  /\ generator' = [generator EXCEPT ![g] = Finished]
  /\ UNCHANGED <<loader, measuring>>

----------------------------------------------------------------------------
(* Presets (load_preset).                                                  *)

PresetCases(name) ==
  [i \in 1..Len(PresetDraws) |-> CaseFor(PickScenario(Presets[name], PresetDraws[i]), 1)]

\* Any dataset of that name is taken for the preset's, whatever its version.
FindPreset(l) ==
  /\ loader[l].at = "asked"
  /\ \E name \in Loaded :
       LET found == {i \in 1..Len(datasets) : datasets[i].name = name}
       IN  \E row \in IF found = {} THEN {0} ELSE found :
             loader' = [loader EXCEPT ![l] = Preset("store", name, row)]
  /\ UNCHANGED <<datasets, generator, measuring>>

\* The one it has found gets the preset's cases and keeps its version, seed and
\* distribution; if there was none, one is inserted, unless another has been since:
\* the failed insert is swallowed.
StorePreset(l) ==
  /\ loader[l].at = "store"
  /\ LET p == loader[l]
     IN  /\ datasets' =
               IF p.row # 0
               THEN [datasets EXCEPT ![p.row].cases = PresetCases(p.name),
                                     ![p.row].metadata = "preset"]
               ELSE IF StoredAs(p.name, "demo") THEN datasets
               ELSE Append(datasets, Dataset(p.name, "demo", "preset", PresetCases(p.name)))
         /\ loader' = [loader EXCEPT ![l] = Preset("over", p.name, p.row)]
  /\ UNCHANGED <<generator, measuring>>

----------------------------------------------------------------------------
(* Runs (run_evaluation).                                                  *)

Newest(name) == Max({i \in 1..Len(datasets) : datasets[i].name = name})

\* The newest dataset of that name, whichever version; the row is committed RUNNING.
OpenRun(r) ==
  /\ phase[r] = "asked"
  /\ \E name \in Names \cup Loaded :
       /\ \E i \in 1..Len(datasets) : datasets[i].name = name
       /\ runs' = [runs EXCEPT ![r] = [status |-> "RUNNING", dataset |-> Newest(name),
                                       results |-> NoValue]]
  /\ phase' = [phase EXCEPT ![r] = "measure"]
  /\ UNCHANGED <<datasets, generator, loader, stamps, scores, investigations>>

\* Transactions have no match_status, so every prediction is the default.
Predictions(cases) == [i \in 1..Len(cases) |-> "UNMATCHED"]

\* Nothing is looked up: an expected exception stands for a recommendation.
Collected(cases) ==
  [i \in 1..Len(cases) |-> IF IsException(cases, i) THEN "RECOMMEND" ELSE "NO_ACTION"]

ScoresOf(cases) ==
  [reconciliation |-> Reconciliation(cases, Predictions(cases)),
   ml             |-> MlScores,
   controller     |-> Controller(cases, Collected(cases)),
   financial      |-> Financial(cases, Collected(cases))]

\* What the AI metrics look at: the query has a limit and no order, and after an
\* error that leaves the session usable the metrics are those of no investigation.
Samples ==
  {{}} \cup kSubset(Min({Cardinality(investigations), SampleSize}), investigations)

Computed(r, cases) ==
  /\ \E sample \in Samples :
       scores' = [scores EXCEPT ![r] = [fixed |-> ScoresOf(cases), ai |-> Ai(sample)]]
  /\ stamps' = Append(stamps, r)
  /\ phase' = [phase EXCEPT ![r] = "commit"]
  /\ UNCHANGED <<datasets, generator, loader, runs, investigations>>

Measure_NewestDataset(r) ==
  /\ phase[r] = "measure"
  /\ Computed(r, datasets[Newest(datasets[runs[r].dataset].name)].cases)

\* completed_at is taken when everything is computed.
Measure(r) ==
  /\ phase[r] = "measure"
  /\ Computed(r, datasets[runs[r].dataset].cases)

\* All metrics and the status in one commit.
CommitRun(r) ==
  /\ phase[r] = "commit"
  /\ runs' = [runs EXCEPT ![r].status = "COMPLETED", ![r].results = scores[r]]
  /\ phase' = [phase EXCEPT ![r] = "over"]
  /\ UNCHANGED <<datasets, generator, loader, stamps, scores, investigations>>

\* A database error, also one that a collector swallows, leaves a session that can
\* commit neither the scores nor FAILED; a crash does not try.
RunFails(r) ==
  /\ phase[r] \in {"measure", "commit"}
  /\ phase' = [phase EXCEPT ![r] = "over"]
  /\ UNCHANGED <<datasets, generator, loader, runs, stamps, scores, investigations>>

\* An investigation completes elsewhere.
Investigated(v) ==
  /\ v \notin investigations
  /\ investigations' = investigations \cup {v}
  /\ UNCHANGED <<datasets, generator, loader, runs, stamps, phase, scores>>

----------------------------------------------------------------------------
Next ==
  \/ \E g \in Generators : Generate(g) \/ StoreDataset(g)
  \/ \E l \in Loaders : FindPreset(l) \/ StorePreset(l)
  \/ \E r \in Runs : OpenRun(r) \/ Measure(r) \/ CommitRun(r) \/ RunFails(r)
  \/ \E v \in Completions : Investigated(v)

Spec == Init /\ [][Next]_vars

----------------------------------------------------------------------------
(* The dashboard (get_summary).                                            *)

Completed == {r \in Runs : runs[r] # NoValue /\ runs[r].status = "COMPLETED"}

StampOf(r) == CHOOSE i \in 1..Len(stamps) : stamps[i] = r

Summarised_Oldest ==
  IF Completed = {} THEN NoValue
  ELSE CHOOSE r \in Completed : \A q \in Completed : StampOf(r) <= StampOf(q)

\* The completed run with the latest completed_at.
Summarised ==
  IF Completed = {} THEN NoValue
  ELSE CHOOSE r \in Completed : \A q \in Completed : StampOf(q) <= StampOf(r)

----------------------------------------------------------------------------
(* Properties.                                                             *)

Within(rate, low, high) == rate[2] > 0 /\ low * rate[2] <= rate[1] /\ rate[1] <= high * rate[2]
IsShare(rate) == Within(rate, 0, 1)

Cases == Seq([scenario : Scenarios, amount : Nat])

Rows == [name : Names \cup Loaded, version : Versions \cup {"demo"},
         by : {"request", "preset"}, metadata : {"request", "preset"}, cases : Cases]

TypeOK ==
  /\ datasets \in Seq(Rows)
  /\ generator \in [Generators -> [at : {"asked", "store", "over"}, dataset : Rows \cup {NoValue}]]
  /\ loader \in [Loaders -> [at : {"asked", "store", "over"}, name : Loaded \cup {NoValue},
                            row : 0..Len(datasets)]]
  /\ runs \in [Runs -> {NoValue} \cup [status : {"RUNNING", "COMPLETED"}, dataset : 1..Len(datasets),
                                      results : Scores \cup {NoValue}]]
  /\ stamps \in Seq(Runs)
  /\ phase \in [Runs -> {"asked", "measure", "commit", "over"}]
  /\ scores \in [Runs -> Scores \cup {NoValue}]
  /\ investigations \subseteq Completions

Anything(cases, values) == [1..Len(cases) -> values]

\* A name and a version are one dataset, also when two requests have both found the
\* version free.
OneDatasetPerVersion ==
  \A i, j \in 1..Len(datasets) :
    datasets[i].name = datasets[j].name /\ datasets[i].version = datasets[j].version => i = j

\* A completed run has the scores of the dataset it was opened for, also when a
\* newer version of it is stored meanwhile; so two runs of a dataset agree on all
\* but the AI metrics.  Only where a preset has been loaded over a dataset that was
\* requested under the preset's name do its cases, whatever seed and distribution
\* the row states, not explain the scores.  A run that is not completed has no score.
ScoresBelongToDataset ==
  \A r \in Runs : runs[r] # NoValue =>
    IF r \in Completed
    THEN LET d == datasets[runs[r].dataset]
         IN  /\ runs[r].results # NoValue
             /\ \/ runs[r].results.fixed = ScoresOf(d.cases)
                \/ d.by = "request" /\ d.metadata = "preset"
    ELSE runs[r].results = NoValue

\* Runs that overlap may commit in either order: the dashboard never goes back to
\* one whose scores are older than those it has shown.
SummaryNeverGoesBack ==
  [][Summarised # NoValue => StampOf(Summarised) <= StampOf(Summarised)']_vars

\* Whatever is predicted and decided for the cases of a dataset (each is the newest
\* once), also for none at all, every rate is a share of something, except recall and the miss rate: these
\* mix predicted and expected matches, and leave the range 0..1.
RatesAreShares ==
  datasets # <<>> =>
    LET cases == datasets[Len(datasets)].cases
    IN  /\ \A p \in Anything(cases, MatchStatuses) :
             LET m == Reconciliation(cases, p)
             IN  \A n \in DOMAIN m \ {"recall", "falseNegativeRate"} : IsShare(m[n])
        /\ \A d \in Anything(cases, Decisions) :
             LET m == Controller(cases, d)
             IN  /\ \A n \in DOMAIN m : IsShare(m[n])
                 /\ IsShare(Financial(cases, d).errorRate)
                 /\ IsShare(Financial(cases, d).financialErrorRate)

\* The money adds up, whatever is decided: what is processed was resolved, is under
\* review, was blocked, or needed nothing; what was resolved wrongly is a part of
\* what was resolved, and what was reviewed needlessly of what is under review.
MoneyAddsUp ==
  datasets # <<>> =>
    LET cases == datasets[Len(datasets)].cases
    IN  \A d \in Anything(cases, Decisions) :
          LET f == Financial(cases, d)
          IN  /\ f.processed = f.auto + f.review + f.escalated
                                 + AmountOf(cases, LAMBDA j : d[j] = "NO_ACTION")
              /\ f.wrongAuto <= f.auto
              /\ f.falseNegativeCost <= f.review
              /\ f.errorRate[1] = 0 => f.falsePositiveCost = 0
===============================================================================
