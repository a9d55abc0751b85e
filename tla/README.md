# Formal models of LedgerPilot

LedgerPilot is a FastAPI/SQLAlchemy service that reconciles payments, lets an AI
agent investigate each exception it finds, and lets an *autonomous controller*
resolve exceptions under policies, approvals, a kill switch and rate limits. This
directory holds TLA+ models of its backend (`src/backend/app`, written `app/` below),
the TLC configurations that check them, and proofs checked by TLAPS.

    tlc -workers 2 -config batch.cfg MCController     # a model-checking run
    tlapm ControllerProofs.tla                        # a proof module

`PROJECT.json` lists the runs, the mutants that show each property can fail, the
source lines behind every definition, the hazards and the theorems.

## 1. The system

### Components, their state and their operations

| Component | Code | State it keeps | Operations that change it |
| --- | --- | --- | --- |
| Controller run | `controller/controller_service.py`, `tasks/controller_tasks.py`, `api/routes/controller.py` | `controller_runs` (status, counters), `controller_decisions` | `start_controller_run`: list, decide, route, count, finalize |
| Action executor | `controller/action_executor.py`, `action_registry.py` | `action_results` (unique idempotency key), `exceptions.status` | `execute_action` |
| Approvals | `controller/approval_service.py` | `approval_requests` (status, `expires_at`) | create, approve, expire (inside approve), reject |
| Escalation | `controller/escalation_service.py` | decision status, `exceptions.status` | `escalate_decision`, `block_decision` |
| Rollback | `controller/rollback.py`, `api/routes/actions.py` | `action_results.status`, `exceptions.status` | `rollback_action` |
| Decision engine | `controller/decision_engine.py`, `risk_engine.py`, `stopping_rules.py`, `policy_engine.py` | none: a function of signals, active policies and the kill switch | `make_decision` |
| Configuration | `api/routes/controller_config.py` | `controller_config` rows | PATCH of a key |
| Policy store | `api/routes/policies.py` | `controller_policies` (id, version, status) | create, update |
| Exceptions | `api/routes/exceptions.py`, `services/exception_service.py` | `exceptions` | PATCH of a status |
| Investigator | `agents/` | `ai_investigation_runs`, steps | `run_investigation`: a straight graph of twelve nodes |
| Evidence | `rag/`, `repositories/evidence_document_repository.py` | `evidence_documents` | ingestion during seeding, search |
| Machine learning | `ml/`, `api/routes/intelligence.py` | model files, cached models, `ml_predictions` | train, predict |
| Evaluation | `evaluation/` | datasets, runs, metrics | generate, run, report |
| Simulation | `simulation/`, `api/routes/simulation.py` | none of its own | run a scenario |
| Demo | `api/routes/demo.py` | the rows of others | reset the configuration, load a preset as a dataset |
| Auth, dashboard, copilot, seed, audit log | `core/`, `services/`, `seed/` | users, audit rows | login, read, append |

### How they interact

* **Calls.** A run calls the decision engine and then, by its verdict, the executor,
  the approval service or the escalation service. A staff request calls the approval
  service, which calls the executor, or calls the rollback.
* **Shared rows.** Everything meets in the database. There is no message between
  sessions and no lock but the executor's and the rollback's `SELECT ... FOR UPDATE` on
  the exception; all other checks (idempotency key, kill switch, hourly count,
  approval status, result status) read committed rows and act on them later.
* **Rows read later.** The controller reads the newest completed investigation and the newest
  ML prediction of an exception; investigations read the newest classification; the
  evaluation reads completed investigations; the engine reads every ACTIVE policy. None of
  these readers tells the writer, and no writer waits.
* **Sessions.** `core/database.py` opens READ COMMITTED sessions with `autoflush=False`
  and closes them without a commit on error. `AuditLogRepository.create` commits,
  so the first audit entry a function writes is also the moment its other changes
  become visible.
* **Tasks.** Celery acknowledges late and retries: a redelivered batch task starts a
  new run, a redelivered approval task makes one more approval request.

### What is hard here, and what makes each component right

| Component | Hard behaviour | It is right when |
| --- | --- | --- |
| Run | two runs at once over the same exceptions; an exception that fails; a session that dies; dry runs | its row agrees with its decisions, a finished run has left nothing unrouted, a started run ends |
| Executor | checks without locks; a record loaded before the lock and not refreshed by it; the kill switch turned on half-way; the hourly limit checked together | one decision acts at most once; a result tells what happened; the limits are overrun by work in flight at most |
| Approvals | two answers at once; expiry racing approval; a crash between APPROVED and the action | nothing runs without a mandate; a request that was turned down is not executed; an approved one gets a result |
| Rollback | the result checked before the lock; a fixed target status | only a done action is undone; a resolution is backed by a result that still stands |
| Decision engine | five signals, three layers of rules, thresholds, limits of 0, unordered policies | more doubt never makes a verdict freer; large amounts are reviewed; the uninvestigated is blocked |
| Policy store | the next version is computed from a read that another admin may overtake; a create leaves the old version active | a history has no gap, no version twice, no version withdrawn without a successor; it is known how many versions are in force |
| Configuration, demo reset | read-then-write of one row by two admins; two commits in one request; a reset that is not audited | nobody turns the kill switch off without having read it on; what is not a reset is audited |
| Investigator | a model that is silent or malformed, searches and commits that fail, a session that is broken, a process that dies, two runs at once | a row tells what happened to its request, is final once settled, and fits what the controller's rules assume |
| Evidence and ML | an ingestion that stops half-way; predictions of two models under one exception | what is executed without a person rests on documents that were found |
| Evaluation | the version is checked, then inserted; a dataset stored, or overwritten by a preset, while a run measures it; empty datasets | a run's scores are those of its dataset; rates are shares and the money adds up |

`PROJECT.json` lists the hazards one by one with their lines.

## 2. The modules

| Module | Models | Shape |
| --- | --- | --- |
| `ControllerTables` | the tables and sessions, action registry, `Init`, `TypeOK` | one function per column, one record per run |
| `ActionExecutor` | `execute_action` for a session `p` | one action per check, one for the commit |
| `ControllerRun` | `start_controller_run`, escalation, block, creation of approvals | extends the executor |
| `ApprovalPortal` | approve, expire, reject, roll back | extends the executor |
| `AutonomousController` | the composition with its environment: kill switch, PATCH, time, crashes; fairness; the properties | extends both |
| `ActionLedger` | the abstract specification: what the controller promises about actions | instantiated by `AutonomousController` |
| `DecisionEngine` | risk, stopping rules, action choice, policies | separate: a pure function, one step |
| `EvidenceLibrary` | what the seed ingests and what a search finds | operators over sets of documents |
| `ConfidencePolicy` | the score of an investigation, contradictions, the flag for a person | operators on integers |
| `Investigation` | `run_investigation`, the twelve nodes, the ML request, and what the controller reads of the rows | extends the library, instantiates `ConfidencePolicy` and `DecisionEngine` |
| `PolicyStore` | create and update of policy versions | one read and one commit per request |
| `AdminConsole` | policies, configuration, the demo reset and simulations together | extends the store, and is shown to implement it |
| `EvaluationMetrics` | ground truth, the choice of cases, the metrics | operators; rates are fractions |
| `Evaluation` | dataset requests, demo presets, evaluation runs, the dashboard's choice | extends the metrics |
| `MCController`, `MCDecisionEngine`, `MCInvestigation`, `MCAdminConsole`, `MCEvaluation` | constants for TLC | |
| `ControllerProofs`, `CountingProofs`, `LedgerProofs` | theorems about the controller | section 5; the last two extend the first |
| `DecisionEngineProofs`, `PolicyStoreProofs`, `EvaluationProofs` | theorems about these components | section 5 |
| `InvestigationProofs`, `AutomationProofs` | theorems about an investigation, and about what the controller makes of it | section 5; the second extends the first |

### Sessions and steps

A process is a database session: a run `r` (one call of `start_controller_run`) or a
staff session `q` (one request at a time). `pc[p]` is the next step of its code,
`job[p]` the decision it works on. A step is the code between two commits, cut again
wherever the session reads a row another session may change before it commits. So:

* `StartRun` is lines 43-87 of `controller_service.py`; `Decide` computes and commits the
  decision row (nobody else looks at a decision before its approval exists, so the
  engine's reads are not cut out); `Route...` picks the branch; `Account` commits the
  branch counter and `processed`; `FinalizeRun` the final status.
* In the executor `MissKey`, `CheckKillSwitch` and `CheckRateLimits` are separate reads;
  `CommitAction` is lock, change, verification and the commit that makes status and result
  visible; `LoseToKey` is the commit that fails on the unique key and undoes all of it.
  `MarkExecuted` is the caller's assignment after the call returns.
* `seen[p]` is the status on the ORM record as first loaded. The lock query has no
  `populate_existing`, so a run, which reads `exception.amount` before the executor is called,
  goes on with the status it loaded then, while a staff request, which had not loaded
  the record, sees the current one. `View`, `Writes` and `StatusAfter` say what that does: an
  attribute set to the value it already shows sends no UPDATE.
* A decision is named by `<<run, exception>>`, since a run decides each listed exception once.
  The approval request and the idempotency key belong to the decision and share its name.
* `Crash` is a session that dies with its uncommitted work undone: a run's row stays RUNNING
  (`"dead"`), a staff session is free for the next request. A database error that leaves
  the function (`Abandon`) does the same. `DecideFails` is an error the loop catches.

Left out: amounts and their totals, audit entries, roles (a refused role changes
nothing), the wording of reasons. The clock hour of results is tracked only where a limit
is configured.

### The ledger

`ActionLedger` has no sessions, checks or approvals. A decision's entry is open, done,
refused or undone. It is settled once; the exception changes on the decision's behalf
only in the step that settles it as done, to the status its action names; only done
entries are undone; anything else that changes the exception leaves the ledger alone, and
may not set RESOLVED unless staff may. `AutonomousController!Ledger` maps `result` to `entry`
and the requested action to `goal`.

### The decision engine

Scores are integers in ten-thousandths, the precision to which the code rounds, so
thresholds are exact. Confidences are whole percents and amounts whole units. The
investigator's outputs are inputs, capped as `agents/policies.py` caps them
(contradiction: at most 69%, unknown cause: at most 65%); that the investigator keeps to
this is `Investigation!FindingFitsEngine`, which is proved. An exception without a completed
investigation has the defaults of `_process_exception`. The average trust is the constant 0.7
the caller passes. Which of several matching policies answers is left open, because the
query has no ORDER BY. Arms that the stopping rules make unreachable (a policy escalating on
confidence below 50% or on a HIGH band) are kept as the code has them.

### Investigations

A request `r` walks `create`, `audit`, `build`, the twelve nodes, `stamp`, `commit` and `reply`.
`NextNode` is the graph of `agents/graph.py`, which has no branch, as a record of its edges; a
node's action takes the state `graph[r]`, returns what it changes and follows the edge. The
first row is committed RUNNING before the graph exists; `Fail` is `_fail`; `Stamp` takes
`completed_at`, `CommitResult` makes the result visible, and `ReturnResult` is the audit and the
answer. Texts are left out. A document is what the score looks for in it: its trust and the
keywords that occur. Confidences are ten-thousandths of the total score.

* **Answers.** The language model may raise, answer nothing, or answer fields of the wrong
  type (`NoReply`, `Malformed`): the plan has a fallback, the root cause is asked for twice, a
  plan that is no list and uncertainties or evidence ids of another type raise later, in the node
  that uses them.
* **Faults.** `QueryFails` is a database error in a node that does not catch it, `SearchFails`
  one in a search, which answers with no document and leaves a session that cannot commit,
  `CommitFails` one outside the graph, `Crash` a process that dies. On a broken session
  `_fail` raises too, and the row stays RUNNING.
* **What the controller reads.** `NewestRun`, `Reading` and `Automatic` are
  `_process_exception` at any moment: the completed run with the latest `completed_at`, the newest
  prediction of either model, and the engine with the built-in policies. The instance of
  `DecisionEngine` is the one its own theorems are about, so `FindingFitsEngine` discharges the
  assumption that module makes about its inputs.

### Policies, configuration, simulations

A request on the policy store is a read that fixes the version it will write, and one commit
under the unique constraint on (policy_id, version); a commit that finds its version taken keeps
nothing. In `AdminConsole` an edit reads a row and later writes it. SQLAlchemy sends only
changed columns, so a value equal to the one read writes nothing (`Upserted`), whatever the row
holds by then; the insert of a row that exists by then fails. `dry_run_default` stands for the keys beside the kill
switch. The demo reset reads two rows, writes those it found, and is not audited. The audit entry commits the kill switch before
the other keys of the same request. A simulation runs in one step: it either fails on an import or
runs nothing that stays.

### Evaluation

A dataset request draws its cases when it is checked and stores them in a later step; an empty
distribution stands for the default, and one that names a scenario without ground truth fails
when that scenario is drawn (`Generated`). A run
commits its row, measures, takes `completed_at` and commits all scores at once. A preset looks for any
dataset of its name and rewrites the cases in place (`metadata` then says so, the seed and the
distribution of the row do not), or inserts one; what its fixed seed draws is a constant. `RunFails` leaves
the row RUNNING: after a database error the session can record neither the scores nor
FAILED. The AI metrics are those of any `SampleSize` completed investigations, since the query has a
limit and no order, or of none, after an error the collector swallows (`Samples`). `Predictions` and `Collected` are what the collectors do with the tables as they are:
`Transaction` has no `match_status`, and decisions follow from the expected exception. The
properties of the metrics quantify over every prediction and decision instead, so they are about
`metrics.py` and not about these collectors.

## 3. The runs

| Run | Instance | Checks | Distinct states |
| --- | --- | --- | --- |
| `batch` | 2 runs, 2 exceptions, hourly limit 1, a crash, the switch turned on once | types, mandate, kill switch, hourly limit, counters, finished runs | 2.3 million |
| `portal` | 2 runs, 1 exception, 2 staff sessions | one effect per decision, backed resolutions, refinement of the ledger | 1.7 million |
| `desk` | 1 run, 1 exception, 2 staff sessions, PATCH, expiry, a crash, the switch turned on once | a request turned down is executed only if its answers overlapped | 254 thousand |
| `live` | 1 run, 1 exception, 2 staff sessions, weak fairness | runs end; approved requests get a result | 43 thousand |
| `decide` | amounts, confidences and counts on both sides of the thresholds; no policy or all four | the five properties of the engine | 507 thousand |
| `investigate` | a run that meets every answer and fault alone, or two plain ones together, beside an ML request; 6 rules with 0, 1 or 6 cases ingested | row and answer, finality, what the engine may assume, what becomes automatic, which run decides | 419 thousand |
| `policies` | 2 admins, 2 policies, 3 versions, resets, 2 scenarios | histories, versions in force, what moves the kill switch | 2.0 million |
| `evaluate` | 2 dataset requests, 2 runs, a preset, sizes 0 and 1 and a preset of 2 cases, 3 distributions, 2 draws, 2 investigations of which a run samples 1 | types of scores, one dataset per version, whose scores, rates, money, the dashboard | 246 thousand |
| `v_executed`, `v_retry`, `v_answer`, `v_unknown` | one exception | a documented claim the code contradicts, section 4 | |

**Why the bounds suffice.** The races are between two sessions over one decision, one
exception or one count: two runs and two staff sessions give every pair. A second
exception is needed for a run's counters and for a run that goes on after a failure;
a limit of 1 is reached by the first success and overrun by the second. One turn of the
kill switch gives off-on-off. The first crash is what matters; the recovery of the code is
nil, so a second adds nothing. Proposals are chosen per run: all four verdicts (`batch`), two
ways to act (`portal`), and an action no rollback may touch (`desk`, `live`). Runs, staff and
exceptions are symmetric in the code; symmetry is used in `batch` and `portal`, and not
for the temporal properties of `desk` and `live`; admins and policies in `policies`, requests of a kind in `evaluate`. In `decide` the values lie next to each threshold: amounts 5000/5001
(`duplicate_high_value`), 10001 (fee variance), 50001 (large discrepancy); confidences 49, 69/70 and 95;
evidence 0, 1, 5; uncertainties up to the two that require a person.

In `investigate` the run `main` meets every cause the code knows, one it does not, citations of 0,
1 and 5 documents, 0 and 2 uncertainties, each malformed field and each fault; what two runs do to
each other goes through committed rows only, so the other two are plain, end with different
causes, and may still fail or crash. The seedings are the rules without cases, with one, and with
all. Distances only decide which documents are cut off by the limit of a search, and the
last document is the nearest. Two classifications (one that agrees with a cause, one related to
another) and an anomaly are enough to change what the controller reads twice. In `policies`
`MaxVersion = 3` allows two creates and an update to overlap in every order; two policies show
that histories do not mix. In `desk` one request is enough, since the property is about each request by itself; that
answers to others do not matter is left to the theorem. In `evaluate` an empty dataset, those of one
case and a preset of one case that may be resolved and one that may not meet every denominator, each of their
cases with every prediction and decision; the draws of a request fall on a clean match and on the last scenario;
of the other two distributions one is always refused and one only if the scenario nobody knows is drawn. One
of two investigations is the smallest sample that may leave one out. All datasets have the preset's name, so that each may be overwritten, and one of the two versions is
the one a preset inserts.

**CHECK_DEADLOCK FALSE** in every run but `policies`: nothing has to happen once all runs are
finished and nobody asks for anything, and the decision engine answers once. In `policies`
an admin or a simulation can always go on, and deadlock is checked.

**Fairness.** `FairSpec` assumes weak fairness of each started session: a session is one
synchronous call in one thread, which nothing in the code can postpone for ever, and its next
step does not wait for another session (the row lock is held within one step). No
fairness is assumed for starting runs or requests, for the kill switch, for time or for
PATCH. `live` has `MaxCrashes = 0`: after a crash neither property holds, since
nothing in the code finds a RUNNING row without a session or an APPROVED request without
a result.

**What holds.** A decision acts at most once; no result without mandate; the ledger is
implemented, rollbacks, stale records and lost races included; resolutions are
backed; the hourly count exceeds its limit by fewer than the number of sessions; counters agree
with decisions even when a run dies; nobody's verdict becomes freer with doubt.
An investigation's row is settled once, no caller is told COMPLETED of a row that is not, and a row
is left RUNNING only by a dead process or a broken session. With the seed's documents and the built-in
policies no exception is ever marked resolved automatically, and what is automatic rests on documents
that were retrieved, not on citations alone. A crash or a failed run never changes what the
controller would decide, and of two overlapping runs the later result stays. A policy has as
many versions in force as it was created, an overtaken one can never be withdrawn. The kill
switch is turned off only by someone who has read it on, and never turned on unaudited. A completed
evaluation belongs to the dataset it was opened for, unless a preset has overwritten that.
A request that was turned down is executed only if two answers to it overlapped; `v_answer` is what
happens then.

**Mutants.** Beside a mapped definition stands its wrong form (`DryRunStatus_Unlisted`,
`KeyIsFree_Unchecked`, ...): a plausible bug there that the property named in `PROJECT.json`
catches.

## 4. Where code and documentation disagree

* `v_executed`: a decision becomes EXECUTED, and is counted auto-executed, although the kill
  switch or the rate limit refused its action (`controller_service.py:240`; `simulation/scenarios.py:101`
  and `README.md:132` say otherwise).
* `v_retry`: the idempotency key contains the decision, and a retried task makes new
  decisions: both act on the exception (`action_executor.py:51`; `README.md:134`).
* `v_answer`: of two answers to one request the later commit overwrites the earlier
  (`approval_service.py:95`; its docstrings speak of a pending request).
* `v_unknown`: an exception of type UNKNOWN with a determined cause is decided by the policy for
  the cause, and may be automatic (`policy_engine.py:123`; the description at line 67
  says never).

The models rest on more places where text and code part, which no run states as a claim:

* Policies. `create_policy` on an existing policy leaves two versions ACTIVE, and the older can
  never be deactivated: `ActiveOncePerCreate` and `OvertakenStaysActive` say exactly that.
  Nothing inserts the built-in policies; an exception without one is escalated (`policy_engine.py:163`), where
  `simulation/scenarios.py:154`, `:158` and `README.md:136` say blocked. The audit entry of a policy is a commit of its own.
* Configuration. A request that agrees with the row it read is audited as a toggle, but leaves
  what another has written since. The demo reset turns the kill switch off and logs no toggle
  (`OnlyResetsGoUnaudited`); while its docstring speaks of the synthetic environment, it is the switch the
  controller reads.
* Autonomy. `README.md:91` asks for 90% confidence; the policy for large discrepancies is content
  with 70%, and AUTO_EXECUTE is reached at 73%. `README.md:10` and `:242` speak of fee variances resolved
  automatically; `NothingIsResolvedAutomatically` shows that this cannot happen with the built-in
  policies and the ingested documents: a plan that names a record type, as every fallback plan does, retrieves nothing, since no
  records are ingested, and the evidence component of the score stays 0. The engine does not look at `requires_human` (`FlaggedIsAutomaticOnlyIfUncertain` bounds what
  follows from that).
* Investigation. `list_for_exception` orders by `started_at`, the controller by `completed_at`. An
  exception of another merchant is investigated without its data and still COMPLETED.
  `evidence_service.py:97` compares `str(exception.exception_type)` with a bare type, so its agreement is
  always False. After a complete ML request the newest prediction is the anomaly's, which agrees with no
  cause. `citation_validator`, `is_safe_action`, `validate_action` and `invalidate_cache` have no
  caller. `:vec::vector` in the search and the ingestion binds as a parameter of another name in the
  pinned SQLAlchemy; the failures this leads to are among those modelled.
* Simulation. The `kill_switch` and `policy_failure` scenarios import functions that do not exist and always
  fail; the others run nothing and always pass.
* Evaluation. `evaluator.py:6` says that ground truth is never exposed to inference, while the
  decisions are taken from the expected exception, so that a run can report no wrong automatic
  resolution. The miss rate divides by the matched cases and may exceed 1, recall may be negative:
  `RatesAreShares` leaves out these two. AI metrics are over investigations that have nothing to do with the
  dataset, so two runs of one dataset agree on all but them (`ScoresBelongToDataset`; `report.py:195` says
  reproducible). A preset loaded over a requested dataset of its name leaves a row whose seed and
  distribution do not produce its cases, and answers "loaded" also when its commit failed.

## 5. What is proved

Every invariant and action property of the passing runs is a theorem, and so is the refinement of the
ledger and of the policy store. All theorems are about the specification with any sets of exceptions
(finite), runs, staff and proposals, admins (finite) and policies, documents, answers, datasets and
requests, any limits and bounds. The assumptions are `ConstantsAssumption`, `EngineAssumption`,
`StoreAssumption`, `ConsoleAssumption`, `InvestigationAssumption` and `EvaluationAssumption`, which TLC
evaluates in the runs; `CountingProofs` and `PolicyStoreProofs` say in their statements where a set is
finite. Policies and ingested documents are the code's own wherever a property speaks of them.

* **Types** (`ControllerProofs!TypeCorrect`). `TypeOK` is not inductive: the executor
  writes to the exception of `job[p]`. `SessionsOK` adds that a session at work has a decision,
  a run only its own, and that runs and staff keep to their own labels. `MayHold` and `SessionMoves`
  reduce each step to the label and decision the moving session ends up with.
* **Safety** (`ControllerProofs`): `AtMostOneEffect`, `NoActionWithoutMandate`,
  `OnlyInFlightWorkPastSwitch`. The invariant `SafeInv` adds three parts. `RowsFollow`: a result
  follows from a mandate, an approval from a recommendation, a verdict from a run that has
  started and taken the exception off its list, so that a decision is made once. `ChecksStand`:
  whoever is in the executor is mandated, whoever answers a request found one, whoever rolls back
  found a success that can only have been rolled back since. `EffectsHaveResults`: an effect and
  its result are one commit.
* **Refinement** (`LedgerProofs!LedgerImplemented`): the initial states map, and under
  `SafeInv` every step maps to a ledger step or a stutter. The two lemmas that carry it say that a
  change that is written is verified and reaches the action's goal, the stale record
  notwithstanding. `ResolutionIsBackedHolds` adds that a settled decision never asks for another action.
* **Answers** (`LedgerProofs!TurnedDownIsNotExecutedHolds`), for any number of staff sessions and runs, and for each
  request by itself: `AnswersStand` says of a decision that a session about to answer it still finds it
  PENDING, and that what is in the executor is APPROVED or never needed approval. A step keeps this as long as
  no second session is answering the same request; answers to others are steps like any other. The hypothesis
  `[]AnsweredAlone(d)` is part of the property, not of the theorem: the code lets answers overlap, and then the
  claim is false, as `v_answer` shows. What is proved is that nothing else can make it so.
* **Rate limit** (`CountingProofs!HourlyOvershootBoundedHolds`), for a finite non-empty set of
  sessions: inductive is the count plus the sessions past the check, which stays below limit plus
  sessions; passing the check finds the count below the limit, a commit moves one from the latter to the former.
* **Counters** (`CountingProofs`): `RunCountsAgree` and `FinishedRunIsSettled`. `CountsInv` compares
  a run's row with its decisions at every label: a counter is the number of decisions with its
  verdict, less the one in hand, which is decided and not yet counted between `Decide` and `Account`;
  only the decision in hand is pending, unless the run died; a run that has finished has nothing left to
  list. The counts are over verdicts, because staff may settle a decision after its run has counted it. A
  step changes the verdict of one decision at most, and the cardinalities follow from
  `FiniteSetTheorems`. It builds on `SafeInv`.
* **Decision engine** (`DecisionEngineProofs`): each risk term is monotone in its signal, so
  are the score, the band, the stopping rules and each policy, which gives `MoreDoubtIsNoFreer`
  for all policies and signals; an amount above 5000 or 50000 is not below the band or limit
  that any matching built-in policy accepts, which gives `HighValueDuplicateIsReviewed` (for subsets of the
  built-in policies; TLC checks the set of all and the empty set) and `LargeDiscrepancyIsReviewed`.
  `UninvestigatedIsBlocked` and `VerdictFitsController` are proved from the same invariant `EngineInv`.
* **Policy store** (`PolicyStoreProofs`): `HistoryInv` adds to types and history that the version
  an open request is about to write follows one that is stored (1 if it is the first). Then a
  commit either changes nothing or adds the version after an existing one. A commit that creates adds one to both
  sides of `ActiveOncePerCreate`; one that updates adds a version in force and withdraws exactly one,
  because an inactive version has a successor, so the update of it finds its version taken.
  `OvertakenStaysActive` follows from the constraint alone. `ConsoleKeepsStore` is the refinement: a
  step of `AdminConsole` is a step of `PolicyStore` or leaves it alone, so all this holds there. `ConsoleInv`
  types the rows and what each open request has read of them; with it, only a toggle and the commit of a reset
  move the switch, which gives `OnlyResetsGoUnaudited`, and what turns it off differs from what was read,
  which gives `SeenBeforeTurnedOff`.
* **Investigations** (`InvestigationProofs`): `RunsInv` says what a row and an answer can be at each
  point of a request, which gives `AnswerMatchesRow` and `SettledRowIsFinal` for any number of
  requests, documents and faults. `FitsInv` types the state the graph carries from the node that
  sets a field on: from `validate_decision` a contradiction has its uncertainty, from
  `calculate_confidence` the score is an integer within the caps and the flag is computed from it. The lemmas about the score
  show that every component is a number of known sign and that rounding and capping keep the
  bounds. `FindingFitsEngine` follows, and is what `DecisionEngine` assumes of its findings: the two
  modules compose.
* **What decides, and when it changes** (`AutomationProofs!StampsHold`): the order of `completed_at` is an
  invariant of its own. `StampsInv` says that a request takes its stamp once, before its result is
  committed, that one not yet there has none, and that a prediction is stored where there was none. A
  completed row then keeps its place, the last completed one is determined, and whatever
  commits next is either not completed or the new last: `DecisionNeverGoesBack`. A step that completes no run
  and stores no prediction changes nothing the controller reads: `OnlyResultsChangeTheDecision`, for any
  number of requests and every crash, failure and overlap.
* **What is automatic** (`AutomationProofs!FoundedHold`): `FoundedInv` follows a request from node to node.
  `Seeded` says what the library may hold (rules and cases, each in the order the seed ingests
  them); what a node has retrieved comes from there, its score from what was retrieved, and a
  completed row from its score. A score of 70 needs documents (`AutomaticRestsOnDocuments`), and the arithmetic of the components against the
  keywords of the seed's documents keeps the three causes that could be resolved automatically below what
  their policies ask (`NothingIsResolvedAutomatically`, by way of `HighScore`). Only two uncertainties survive as a reason for a flag
  beside an automatic action: `FlaggedIsAutomaticOnlyIfUncertain`. `TypeOK` follows from the same two invariants.
* **Evaluation** (`EvaluationProofs`), for datasets of any size, every assignment of statuses and decisions
  and any number of requests. `DatasetsInv` holds the types of the rows, one row per version (the commit checks the
  constraint, a preset rewrites in place) and that a row a preset inserted has that preset's cases: it gives
  `OneDatasetPerVersion`. The sums of the financial metrics are `Total`, recursive over the case number, and a lemma
  about it is proved from the least number it would fail at (`NoLeastCounterexample`): a sum of natural
  amounts is natural, grows with the set of cases, and over a partition is the sum of the sums of the parts. Hence
  `MoneyAddsUp` and, with cardinalities of parts of finite sets, `RatesAreShares`. `RunsInv` says what a
  run's row can be at each step, that its scores are those of the cases the dataset had when it measured,
  and that a dataset only changes to a preset's: `ScoresBelongToDataset`. `StampsInv` is the order of
  `completed_at` again, with `SummaryNeverGoesBack`. `TypeOK` says that every stored
  rate is a fraction with a positive denominator, counts are natural and no money is negative.

Only model-checked: the two liveness properties of `live`, since fairness and ENABLED are out of the prover's
reach. The library's induction theorems take an operator as a parameter, which no installed backend can
instantiate; where a recursive function has to be understood (`Total`), well-foundedness of `<` on the
naturals and a least counterexample do the same work. The lemmas about least and greatest naturals and
about stamps stand in `AutomationProofs` and in `EvaluationProofs`, about the variables of two specifications that have
no module in common.

## 6. Not modelled, and the plan

Not modelled, and why:

* **Evidence**: the ingestors for records and the retriever's bundles, which neither the seed nor an investigation
  calls; embeddings and chunk sizes (numeric, text). A document's distance is an input.
* **Machine learning**: features, training, calibration and the model files. `inference.py:48` keeps a
  loaded model for the life of the process and nothing invalidates it, so a process serves an
  older model after a training; what it answers is an input of `Investigation` either way.
* **Evaluation**: the classification metrics, which are called with no data and always 0, the report's wording and
  the citation validator, which nothing calls.
* **Simulation**: the injector, which no scenario reaches.
* **Authentication, dashboard, copilot, seed data, frontend**: reads and one-off writes, with no state that
  several actors change. A refused role changes nothing. Audit entries are left out, except
  that writing one commits.
* `max_auto_amount`, `max_auto_per_run`, `max_concurrent` and `dry_run_default` are stored and read by no
  decision.

What could come next, in this order:

1. An abstract evaluation log (datasets are versions, a run is one measurement of one version), with `Evaluation`
   shown to implement it up to the rewriting by presets, as `ActionLedger` does for the controller.
2. The composition of `Investigation` and `AutonomousController` in one state: a run that decides while
   investigations complete. Today they meet in `Reading` and in `FindingFitsEngine` only.
3. Model files and the cached models of two processes, with a training between them.
