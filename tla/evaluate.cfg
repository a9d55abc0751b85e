\* Datasets, runs, a preset and two investigations at the same time, over every decision.
SPECIFICATION Spec
CONSTANTS
  Generators = {g1, g2}
  Runs = {r1, r2}
  Loaders = {l1}
  Loaded = {"demo_preset_b"}
  PresetDraws <- TwoCases
  Names = {"demo_preset_b"}
  Versions = {"v1", "demo"}
  Distributions <- SomeDistributions
  Draws <- SomeDraws
  Sizes = {0, 1}
  Ends = {2}
  Completions <- TwoInvestigations
  SampleSize = 1
  NoValue = NoValue
INVARIANTS TypeOK OneDatasetPerVersion ScoresBelongToDataset RatesAreShares MoneyAddsUp
PROPERTIES SummaryNeverGoesBack
SYMMETRY Symmetric
CHECK_DEADLOCK FALSE
