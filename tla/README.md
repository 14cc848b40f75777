# Verification of FootballModel

TLA+ models of the stateful parts of FootballModel, the TLC runs that check them
on small instances, and TLAPS proofs of their main invariants for every instance.
Paths are relative to the repository.

* [System](#system): components, state, interaction, what is hard about them
* [Modules](#modules): which module models which code, and how
* [Runs](#runs): what is checked, the bounds, the fairness
* [Proofs](#proofs): what is proved and along which argument
* [Disagreements](#disagreements): where the runs contradict the documents
* [Not modelled](#not-modelled) and [Plan](#plan)

## System

FootballModel collects football fixtures from a data provider, predicts matches
with statistical models, has an LLM phrase a report, renders posters, and later
compares its predictions with the results. A FastAPI server, Celery workers and
Celery beat share one PostgreSQL database; Redis carries the task messages.

Three facts of the platform shape every model.

* **Sessions.** Each request and each task works through one SQLAlchemy session
  on a READ COMMITTED database (`app/core/database.py`, `autoflush=False`, no row
  locks, no version columns). An UPDATE writes only the columns whose value
  differs from what the session last loaded, and a commit expires what was
  loaded. Two sessions that assign the same row can therefore leave a mixture of
  both. Models keep the loaded copy (`seen`, `loaded`) apart from the row and
  write through an operator `Flush` or `Written`.
* **Messages.** Celery acknowledges a message before the task runs. A killed
  worker loses the task; a message that waits longer than the visibility timeout
  may be delivered twice.
* **No queue of one.** Nothing keeps two messages of one match, two deliveries of
  one job or two API requests from being executed at the same time.

### Components

| Component | Code (under `src/app/`) | State | Operations |
|---|---|---|---|
| Automation of a match | `services/scheduler/automation.py`, `scanner.py`, `heartbeat.py`, `tasks/scheduler.py`, `services/archive.py` | one `automation_runs` row per match, jobs, archives, heartbeats | daily scan and enqueue, the pipeline with its error handler, Celery retry |
| Reports, posters, review | `services/reporting/`, `services/posters/`, `api/v1/reports.py`, `posters.py` | `report_outputs`, `poster_outputs` | generate, review with cascade, render, review a poster |
| Analysis job chain | `api/v1/analysis_jobs.py`, `services/analysis_jobs.py`, `tasks/analysis.py` | `analysis_jobs`, `analysis_results` | POST, dispatch, four chained tasks |
| Provider quota and cache | `services/ingestion/service.py` 75-230 and 583-635, `api_football.py` | `raw_data_snapshots`, `provider_quota_usage`, `data_sources` | cached call, budget gate, HTTP attempts, snapshot and usage |
| Coverage and sync loops | `services/ingestion/service.py`, `services/scheduler/ingestion_tasks.py`, `api/v1/ingestion.py` | `competition_coverages`, league ids, facts of matches | mapping, coverage, loops with one shared session, routes |
| Results and evaluation | `services/results.py`, `services/evaluation/`, `services/archive.py` | `actual_results`, evaluations, performance, archives | result sync, evaluate, aggregate, calibrate |
| Manual import | `services/manual_import.py` | matches, standings, statistics, injuries, results | import of one batch |
| Source selection | `services/source_selection.py` | none | the candidate a fact is taken from |
| Backtest, features | `services/backtest/pipeline.py`, `services/prediction/features/builder.py` | none | history up to a kickoff, replay |
| Prediction models | `services/prediction/` | `prediction_results`, `model_runs` | availability, confidence; floating-point models |
| Rate limiter, admin guard | `core/security.py` | timestamps per client | allow, refuse |
| Operations, export, cleanup | `services/operations.py`, `batch_export.py`, `scheduler/cleanup.py` | derived rows, files | summarise, export |
| Queries, setup, tools | dashboard, health, provider health, CLIs, migrations | none of their own | read |

The automation calls prediction, report, poster and archive services in process,
each of which commits on its own. The API reaches the same services from requests,
so reports and posters have two writers. Evaluation reads what the ingestion wrote
to `actual_results`, and prediction features read the history it wrote. Everything
else is coupled only through rows.

### What is hard, and what makes each component correct

* **Automation**: attempts of one task, other tasks of the same match and the scan
  write the same row; a step may fail after earlier ones committed; workers die.
  Correct means: *completed* is true (everything exists, is archived, and is of
  one attempt), *failed* says how far the attempt came, no run runs for ever.
* **Review**: requests act on statuses they loaded before another commit.
  Correct means: unchecked text is never released, a rejection lasts, a review
  reaches the posters.
* **Analysis jobs**: the dispatcher raises after publishing, chains run twice.
  Correct means: completed jobs have all results, refused input gets none, every
  job settles.
* **Quota and cache**: the gate is asked before a call, the count written after it,
  by several calls and across midnight. Correct means: nothing is counted that was
  not sent, the limit holds up to the calls in flight, optional data is refused
  first, and the limit is one of a day.
* **Coverage and loops**: an expired row is replaced by an insert that breaks its
  unique constraint, and loops swallow exceptions on a shared session, whose pending
  changes then go with another item's commit. Correct means: nothing optional is
  stored that the coverage did not permit, and one failing item costs no other.
* **Manual import**: records are compared with rows that change before the commit.
  Correct means: one bad record undoes its batch, a stored score is not contradicted,
  and only an import that names its source makes anything official.
* **Results and evaluation**: scores of matches in play, cached scores, corrections,
  sessions that refresh the same aggregate, archives rewritten after the commit of the
  result. Correct means: the aggregates count stored evaluations only and, where no
  session overlaps another, all of them, archives follow the recorded result, and every
  prediction with a result is evaluated.
* **Prediction and backtest**: which results count as known depends on who stored
  them. Correct means: predictions rest on the past only, and say so when that is not
  enough.

`PROJECT.json` lists these hazards one by one with their lines.

## Modules

One action is one database transaction, or one read whose result a later
transaction uses, or one call of an outside service. What a message, text or
payload says is reduced to the outcome the code distinguishes. In every module the
comments name the functions, and `PROJECT.json` maps each definition to its lines.

### AutomationPipeline

`run[m]` holds the audit columns of the match's row, `product[m]` its four artifact
columns. An artifact is named by the attempt, `<<task, retry>>`, that made it, so
that properties can say whose artifact a row names. `pc[t]` follows task `t` through
`automate_match` and `AutomationPipeline.run`: heartbeat, load or create the row,
then per step the commit of `current_step` and the commit of the artifact, at the
end the commit that completes run and job. An exception leads through `rescue`
(rollback and reload) to `fail` (commit of the failure) and, for a `RuntimeError`
with retries left, back to the queue. `Scan`, `Enqueue` are `daily_generation`:
its SELECT, then one `delay` per match. `Crash` kills a worker inside a task.
`failed_step`, `failure_reason` and `error_message`, which the handler always writes
together, are one column.

### ReportReview

Committed rows of one status pair per report (generation status, review status) and
one review status per poster. A request's session is `report`, `poster`, `verdict`,
`loaded`, `cascade`. The row of a poster is inserted and flushed before the browser
renders and committed after, so it is invisible in between: `BeginPoster` decides on
the report as it is then, `CommitPoster` or `RenderFails` comes later. A review loads
the report, loads the posters, and commits both. `slots` is the number of requests a
deployment serves at a time, chosen by `Init` and then fixed, so that promises which
need serial requests are stated in the same run as those that do not.

### AnalysisChain

A *delivery* walks the chain of four tasks. Each task is `Start` (load), `Mark`
(commit *running* and the step), its work (`Advance`, `Raise`, or `LoadResults` and
`Save`), and on an exception `Rescue` and `Fail`. `Post` inserts the job,
`Dispatch` publishes the chain, `DispatchRaises` is a `delay` that raises before or
after the message went out, and `RecordDispatchFailure` the handler in the route.
`Duplicate` and `DispatchRaises` after publishing exist only in a `faulty` deployment.

### ProviderQuota

`Calls` are sessions that synchronise at the same time. `Lookup` serves a fresh
snapshot or asks the gate; `Succeed`, `Retry`, `GiveUp` are the attempts of
`ApiFootballProvider._get`; `Load` and `Save` are `_snapshot` and the commit, with
`request_count` computed from the loaded row and `daily_remaining` written only
where it differs; `Conflict` is the unique constraint two first calls of a day run
into. `Tick` advances the clock by a period of a day; days follow `retrieved_at`.
`spent` counts what the provider has received. A transaction that makes two provider
calls is modelled as two calls. `HealthCheck` is the only path to
`provider_status`: `ProviderHealthService` looks for the name `API-Football`, while
stored sources are named `API-Football-v3`.

### RunLifecycle and AutomationRefinement

`RunLifecycle` is the abstract specification of one `automation_runs` row as a reader
of the row sees it: an attempt takes up a match, enters the steps in order, each after
the artifact of the one before, and completes, fails at a step, or is abandoned.
It has no messages, retries, sessions or columns. `AutomationRefinement` maps
`AutomationPipeline` to it. `PhaseOf` reads status and step together and calls every
pair no transaction should leave "torn", which is no phase; `Active` is the match of
the task between the first and the last statement of `run`, `Entered` and `Made` are
what the columns say of *its* attempt. A killed worker, and a task that leaves the
pipeline without writing, are `Abandon`. The mapping is for one slot: with two, tasks
tear each other's rows, which `automation_concurrent` is about.

### FactStore, CompetitionSync, ManualImport, DataIntake

`FactStore` is what both writers of facts share: the rows, one per kind and match or
competition, and what a session does to them. `Change` is a load and an assignment,
`Conflict` the unique constraint a flush runs into, `Stored` the rows after the
commit. Of a row are kept its writer, its certainty and, for a result, the score.

`CompetitionSync` follows session `t` through the loops of `ingestion_tasks.py` and
the routes of `api/v1/ingestion.py`: `Take` the next item, `Check` what the handler
needs, `SyncCompetitions` (the leagues response, cached for `Window`), `StoreCoverage`
(always an insert), `Answer` (the response assigned to rows), `Commit`. A provider
call is an answer or `CallRaises`, since `ProviderQuota` models what is inside it.
`pending[t]` is what the shared session has assigned and not committed: `Answer` may
raise after it assigned, and the next item's commit stores it too. After a failed
flush the session is `broken`: later items raise at once, and a loop over matches
ends, because its handler reads the match's id through that session.

`ManualImport` is `import_records`: `Import` validates, compares and assigns every
record, `StoreBatch` commits, either may `Refuse`. `DataIntake` composes the two over
one store.

### MatchPrediction, ResultsEvaluation

`MatchPrediction` is the pure part: which stored results are the `History` of a match,
how many count for a team, what is missing, which goal models are available, the
confidence level, and the row `PredictionPipeline.run` appends. Probabilities, Elo
and averages are left out; no modelled decision depends on them, except that an
average of zero goals is falsy in `_has_required_data` (`AverageIsPositive`).

`ResultsEvaluation` adds the writers of `actual_results` (`SyncResults` from responses
that may be cached and of matches in play, `Record`, `ImportResult`), `Evaluate`,
`Insert` (flush, and the query of what is to be counted), `LoadPerformance` (the row it
will update), `Commit`, then the same three steps `Measure`, `LoadBins` and `Save` for
the calibration, the three steps of an archive, and `Backtest` with `Replay`. A
session sees committed rows, except those in `loaded`, which keep their values until
it commits.

A performance or calibration row has a set of (prediction, score) pairs for each of its
columns: those the column was computed from, so that stale and missing samples are told
apart. As everywhere in this code an UPDATE writes only the columns whose value differs
from the one its session loaded (`Updated`): `Value` is the number of the pairs, or the
constant `Average[column]`, which may be any function of them. A column that is not
written and still has its loaded value counts as computed from the new pairs, since
writing it would change nothing; one that another session has written since stays as it
is, and the row is torn. `calculated_at` is left out. A refresh of all competitions, and
one of several bins, loads its rows in one step instead of one after the other. The
matches a day's response lists are those kicking off that day, and a day of pending
matches is an item of the scheduled loop. `alone` is a history variable: the sessions
no other has overlapped, for promises that hold only then. The constants `Earlier` and
`Predicted` are results stored, and matches predicted and archived under them, before the
behaviour begins: the tables need not be empty.

### MC and proof modules

`MCAutomation`, `MCReview`, `MCAnalysis`, `MCQuota`, `MCIntake`, `MCEvaluation` bind
constants and symmetry sets. `AutomationProofs` (which extends `AutomationRefinement`),
`ReviewProofs`, `AnalysisProofs`, `QuotaProofs`, `EvaluationProofs` (predictions),
`EvaluationRecordProofs` (evaluations, aggregates, archives) and `IntakeProofs` hold the
theorems; `FactStoreProofs` holds the lemmas about loads, assignments and commits of
facts that `IntakeProofs` applies to synchronisations and imports alike.
The operators commented *Seeded defect* are not part of a specification: each is the
form a definition would have with a plausible bug, and is kept to show that the
property it is aimed at would notice.

## Runs

| Run | Instance | Distinct states | Shows |
|---|---|---|---|
| `automation_serial` | 1 slot, 3 messages of 1 match, 1 retry, 1 killed worker | 41,099 | a completed run is of one attempt and clean, a failed one tells its progress; rows go through `RunLifecycle` |
| `automation_concurrent` | 2 slots, 2 messages of 1 match, 1 retry | 457,073 | completed runs are whole, one archive per task, runs settle |
| `review` | 1 report, 2 posters, 2 requests, 1 or 2 at a time | 7,223 | only checked text is released; serial promises of the review |
| `analysis` | 1 job, 2 matches, 2 deliveries, with and without faults, 1 killed process | 6,619 | completed jobs are whole, invalid ones stop, jobs settle |
| `quota` | 2 calls, 2 days, soft limit 2, 1 retry | 1,102,176 | counts are true and bounded, order of refusal |
| `intake` | 2 sessions, 1 import of up to 2 records, 2 competitions, 1 match, coverage valid for 1 of 2 times | 803,225 | facts are permitted, batches atomic, nothing promoted, no competition left out |
| `evaluation` | the scheduled session and one of requests, 2 matches, a prediction and a result stored before, 3 predictions in all, 1 request or fault | 379,382 | predictions rest on the past; aggregates count stored evaluations, and the one committed, although updates mix; serial refreshes and archives are exact; all results are evaluated |
| `automation_reenqueue`, `automation_unrecorded`, `review_race`, `quota_daily`, `evaluation_history` | see [Disagreements](#disagreements) | | a documented promise is broken |

### Why the bounds are enough

* Rows of different matches, reports or jobs share no column; one of each is enough,
  except for the heartbeat row (`automation_unrecorded` has two matches).
* Interference between sessions needs one to load, another to commit, and the first
  to commit: two executions give every such order. `automation_serial` uses three
  messages because a third can find what a crash and a failure left behind.
* One retry makes both a retry after a failure and the exhausted retry happen.
* Two posters: one present when a review cascades, one committed behind its back.
* Two matches in a job: a result may be missing while another is there.
* Soft limit 2 with two attempts per call lets two calls overlap at the limit; two
  days contain a call across midnight and a row of another day. `OvershootIsBounded`
  is stated for one or two calls because it is false for three: an instance with
  three calls, a limit of three and one day has a behaviour where one call holds a
  stale low count, another a high one, the low one is written, the gate opens again,
  and the day's row reaches more than three calls can add. A soft limit of zero is
  excepted as well: a day without a row has no count for the gate to compare. No
  document promises a bound, so this is recorded here and in the property's comment.
* `intake` has a competition whose league is listed and permits some kinds, and one
  that is not listed: mapping, coverage without flags and coverage that permits all
  occur. Coverage retrieved at time 0 is expired at time 1. One match is enough for
  two sessions and an import to meet at each of its rows; two records are the least
  for a batch that fails half way. Larger instances were explored with all properties:
  one session and two imports of results, lineups, injuries and matches (266,807
  states), and the instance of the run with imports of injuries as well (981,576 states).
* `evaluation` has a match and its only predecessor, with `MinHistory` 1: the second
  match becomes available only through the first one's result. Scores with and without
  goals, responses as old as now or one time older. `MaxEvents` counts requests,
  imports and lost sessions together; the scheduled task repeats without bound. The
  database is not empty at first: it holds the predecessor's result and an archived
  prediction of the second match. So one request suffices to rewrite an archive, and
  three predictions, the least for two sessions to update a performance row that exists
  (one evaluated before, one for each of them). Scores differ, so that the accuracy of a
  refresh may or may not be the one loaded; torn rows are among the states. Also explored,
  on instances that are not among the runs: an empty database, two predictions and two
  events, with all properties (471,462 states); an empty database, four predictions and
  two events with requests that synchronise, evaluate or calibrate (3,106,606 states),
  where a session that nothing overlaps refreshes a torn row.
* `MaxCrashes`, the id sets `Tasks`, `Reports`, `Posters`, `Jobs`, `Copies`,
  `Batches`, and `MaxTime`, `MaxSent`, `MaxPredictions`, `MaxRecords` only bound how much happens. At these bounds the system really
  stops, hence `CHECK_DEADLOCK FALSE` where it is set.

With three copies of a chain (398 thousand states) the analysis run holds as well.

### Fairness

`AutomationPipeline`, `AnalysisChain` and `ResultsEvaluation` have liveness
properties. In the first two, assumed is weak
fairness of the steps of each task and of each accepted request: a worker process
continues with the code it executes, and a free worker takes a waiting message. Beat,
the scan and new requests have no fairness. The environment's faults have none
either; a step that may succeed or raise is one action per outcome, and fairness is
on their disjunction, so no outcome is forced. `RunSettles` is checked without killed
workers and `JobSettles` excludes behaviours with a killed process: the code looks
for neither a *running* run nor a *running* job, so both stay *running* for ever
after a kill.

`ResultsEvaluation` assumes that beat repeats `sync_post_match_results` and a worker
goes on with it (weak fairness of *begin or proceed* of the scheduled session), and
that a request which has flushed a new evaluation, and so holds its row lock, loads the
performance and commits.
Nothing is assumed of other requests, provider answers or the clock: a call may fail every time. Lost
sessions are bounded by `MaxEvents`, which is the assumption that the workers do not
die for ever. `EveryResultIsEvaluated` needs the repetition: a conflict on one
prediction ends the whole loop, and the next execution finds the rest.

## Proofs

All proofs hold for every number of the constants' elements: of matches, tasks and
messages, reports and requests, jobs and copies, calls and days, competitions and
records, predictions and sessions. Every invariant and every action property a passing
run checks is proved, and so is the refinement of `RunLifecycle`. The assumptions are
the named ASSUMEs of the modules, which TLC evaluates on every run:

* bounds are naturals, `Nil` and `Unloaded` are no values;
* `Average` gives each averaged column a value for every set of samples;
* results stored at the beginning are rows, and predictions stored then are what
  `PredictionOf` makes of them, at most `MaxPredictions`;
* `Tasks`, `Requests`, `Calls` and the matches are finite, because the models count
  those that are active, at work, or earlier;
* for the quota, only the status request is of kind *status* (`service.py` 586), and
  `MinLineup <= MinOptional`, which the default settings satisfy;
* `MinHistory <= Recent`, which are 3 and 5 in the code.

Five theorems about `AutomationPipeline` have `Slots = 1` as a hypothesis. It is the
deployment with one worker process; with two the statements are false, which is what
`automation_concurrent` leaves out and [Disagreements](#disagreements) describes. The
serial promises of review and evaluation need no hypothesis: they carry it themselves,
as `slots = 1`, and as `alone`.

The shape is the same in each module: `Init => IInv`, one lemma per action or group of
actions for `IInv /\ [Next]_vars => IInv'`, and PTL. None of the invariants is inductive
as it stands; the third column says what had to be added.

| Theorem | Statement | Strengthening |
|---|---|---|
| `AutomationProofs!TypeCorrect` | `[]TypeOK` | the row a handler updates exists |
| `AutomationProofs!CompletedRunsAreWhole` | `[]CompletedHasArtifacts` | artifact columns are never emptied, so what a label has established about them stays true under other tasks (`Progress`); a row is completed only from the last label (`Closed`) |
| `AutomationProofs!ArchivesOncePerTask` | `[]OneArchivePerTask` | an archived attempt is its task's last (`Archived`) |
| `AutomationProofs!SerialInvariant`, `CompletedRunsAreOneAttempts`, `CompletedRunsAreClean`, `FailuresTellProgress` | with `Slots = 1`: the three serial invariants | one task is at work; its label says which of the row's artifacts are its own and what the row's status, step and failure are, and a row nobody works on is as its last attempt left it, pending, completed, failed after some step, or torn by a kill |
| `AutomationProofs!TasksImplementRunLifecycle` | with `Slots = 1`: `ImplementsRunLifecycle` | from the serial invariant, each action is mapped to one action of `RunLifecycle` or to a stutter (`WorkMaps`, `TakeMaps`, `EnterMaps`, `MakeMaps`, `CompleteMaps`, `FailMaps`, `LeaveMaps`) |
| `ReviewProofs!TypeCorrect`, `ReleasedTextIsChecked` | `[]TypeOK`, `[]OnlyCheckedTextIsReleased` | the generation status never changes, so what a request established about it on loading holds when it commits, though the review status may be stale (`Pending`) |
| `ReviewProofs!RejectedStaysRejected`, `ReviewsReachPosters`, `NewPostersAreReleasable` | the three action properties for `slots = 1` | what the one request at work has loaded is what is stored, and the posters it is about to change are all of the report's |
| `AnalysisProofs!TypeCorrect`, `CompletedJobsHaveResults`, `InvalidJobsNeverComplete` | the three invariants of the run | results are never removed, so those a save task loaded are still there (`Known`, `Whole`); a delivery of a refused job never passes the second task (`Stops`, `Refused`) |
| `AnalysisProofs!SingleInvariant`, `FinalJobsStay` | `FinalIsFinal` | without faults a job has one delivery, only after its request is answered, and a final status means that this delivery has ended |
| `QuotaProofs!TypeCorrect`, `CoreIsRefusedLast` | `[]TypeOK`, `[]CoreOutlivesOptional` | usage rows are never removed, so a loaded row and the row of a stored snapshot's day exist when they are written (`Ready`, `Counted`) |
| `QuotaProofs!SoftLimitHolds` | `[]OvershootIsBounded` | a call is *open* on a day once only its response keeps it from adding to the day's row; while two are open the count and all that was loaded of it are below the limit, and one alone finds it above by what another added (`OneOpen`, `TwoOpen`); rows and responses are never of the future (`PastOnly`) |
| `QuotaProofs!CountedWasSent` | `[]RecordedWasSent` | the counts themselves go down when an update is lost and up again with the next; what *backs* them does not (`Backs`): a number per day that is at least the count and everything loaded of it, and whose sum, with the attempts still to be recorded, stays within what was sent |
| `EvaluationProofs!PredictionsRestOnPast`, `ConfidenceIsAvailability` | `[]AvailableRestsOnPast`, `[]ConfidenceTellsAvailability` | prediction rows are a sequence that is only appended to, and the promise of a row (`Good`) speaks of the row and the schedule only; every row `PredictionOf` makes is good, for whatever results a session knows |
| `EvaluationRecordProofs!TypeCorrect`, `PerformanceCountsEvaluations`, `CommitsCountTheEvaluation` | `[]TypeOK`, `[]SamplesAreEvaluations`, `EvaluationIsCounted` | results, predictions and evaluations are never removed, so samples a session has drafted are still of stored evaluations, or of the one it commits with them, when it writes them (`Counted`, `Drafted`); a row it loaded is still there (`Found`), and a column of what it stores has the drafted samples or is as another session left it (`StoredRowFacts`) |
| `EvaluationRecordProofs!SerialRefreshCountsAll`, `RecordedResultIsArchived` | `SerialRefreshIsExact`, `[]SerialArchiveIsCurrent` | what a session no other overlaps has loaded is what the tables hold, and what it has drafted is what they say, so that every column it writes or leaves is too (`Undisturbed`, `StoredRowOf`); a record has left no archive stale but those still to do (`Archiving`) |
| `IntakeProofs!TypeCorrect`, `OptionalFactsWerePermitted` | `[]TypeOK`, `[]StoredIsPermitted` | every change waiting in a session says the provider, nothing official, and a kind its coverage row permits (`FromProvider`); it stays so while it waits, because coverage rows are never replaced |
| `IntakeProofs!ImportsAreAtomic`, `OfficialFactsWereImported` | `[]BatchIsAtomic`, `[]OfficialWasImported` | every change an import has assigned is of its own records and official only where the batch claims it (`FromBatch`); each record of a loaded batch has its row or a change that inserts it (`ImportOK`) |
| `IntakeProofs!StoredScoresStay`, `EveryCompetitionIsTried` | `ResultConflictIsRefused`, `CodeLoopTriesAll` | an import assigns a score only with an insert (`FromBatch`), which conflicts when a row was stored meanwhile; a loop leaves its label only when nothing is left (`Control`) |

Sums (`CountedWasSent`) need induction over sets, and the library's induction theorems
take an operator, which the provers cannot instantiate. `QuotaProofs` argues from least
counterexamples instead: `WFMin` gives the least size of a set on which the recursive
function inside `SumFunction` would not exist, or on which raising one summand would
raise the sum by more, and that set without its chosen element contradicts it
(`LeastNumber`, `SumsExist`, `SumsBound`). So finiteness is the only premise.

Only model-checked: the liveness properties `RunSettles`, `JobSettles` and
`EveryResultIsEvaluated`, since fairness and ENABLED are outside what the prover does.
The properties of the five runs that end in a counterexample are false, so there is
nothing to prove of them.

## Disagreements

Five runs end in a counterexample to a sentence of the documentation.

* `automation_reenqueue` (`docs/data-source.md` 32: completed or executing runs are
  not enqueued again). The scan reads once and enqueues afterwards; a retry that
  waits in the queue can begin in between, and neither `delay` nor the pipeline looks
  at the status again.
* `automation_unrecorded` (`docs/architecture.md` 44: a failing task has its step,
  error and retry count recorded). Two first tasks insert the same heartbeat row; the
  loser ends with an `IntegrityError` before its run exists.
* `review_race` (`docs/deployment.md` 63: a rejected report produces no poster). A
  report rejected while its poster is rendered still gets the poster.
* `quota_daily` (`docs/api-football-endpoint-audit.md` 26, `docs/database-design.md`
  49: a budget per day). The gate takes the newest usage row of any day; an exhausted
  one refuses the next day's calls, which therefore never create a newer row.
* `evaluation_history` (`docs/architecture.md` 40: a backtest never uses what came
  after the kickoff). `sync_results` stores a result as complete at its own kickoff; a
  match still in play at the kickoff of a later one counts in the backtest of that one
  with its final score.

Seen while modelling, without a run of their own:

* A killed worker leaves its run, job and artifacts *running*; the scan takes only
  *pending* and *failed* runs. A failed attempt leaves its `AnalysisJob` *running*.
* With concurrent tasks of one match `failed_step` can be that of another attempt,
  and a completed run can keep a `failed_step`.
* An approve and a reject of one report that overlap are both accepted; the later
  commit wins, and report and posters may end up different.
* A duplicated save can leave a job with all its results *failed*.
* A call that raises is never counted, retries are not gated one by one although
  `docs/api-football-endpoint-audit.md` 21 says so, an overlapping first call of a day
  loses its response to the unique constraint, and the branch for lineups inside the
  one for optional data (`services/ingestion/service.py` 101) cannot be reached.
* After a failed flush the loops over competitions go on only nominally: the broken
  session makes each later item raise at once.
* An expired coverage row is never replaced: `_ensure_coverage` inserts a second row
  for the same competition and season, the flush fails, and from then on every request
  for optional facts of that competition does, although `docs/phase11-database.md` 5
  speaks of a seven-day expiry.
* Sessions that refresh the performance of one competition at the same time can tear its
  row: with accuracy 1 stored, loaded and computed again, the update of the one writes
  `sample_count` but leaves the accuracy to the other. A column then need not count the
  evaluation committed with it; `EvaluationIsCounted` says that only a write of another
  session since the load can cause that, and `SerialRefreshIsExact` that the next refresh
  which nothing overlaps makes the row whole again.
* `sync_results` stores every score of the response for a day, whatever the status of its
  match, although `docs/model-design.md` 59 says that the synchronisation after the
  matches stores only final scores: one of a match in play, or of a response up to twelve
  hours old, becomes its result. The query for pending matches does not select that match
  again: only another synchronisation of the same day for another match, a request or an
  import corrects it.
* A corrected result does not change the evaluation, which is computed once;
  performance and calibration are computed from the corrected one.
* Only `Record` rewrites archives; results of a synchronisation or an import reach them
  when somebody archives the prediction again.
* `POST /evaluation/run` evaluates a prediction against the result of any match, and
  performance and calibration count it.
* `manual_import.py` says it never silently overwrites; standings, injuries and
  statistics of other sources are overwritten, only results are compared.
* A retrieval of lineups turns an imported *official* lineup status into *reported*.
* The confidence level *high* cannot occur: some fields are always missing.

## Not modelled

* Probabilities, Elo, feature averages, metrics: floating-point code without state.
* The choice of standings, odds and injury snapshots before a kickoff
  (`features/builder.py`), whose values no modelled decision uses; the four model
  versions and the probability bins, which are refreshed alike and stand as one row;
  the read-only summaries of evaluation and calibration.
* `SourceSelector`, which only a test calls, and the rate limiter, whose handler runs
  without a suspension between reading and writing its window.
* Operations report and batch export: derived counts and files.
* Texts, prompts, fact-checking rules, images: reduced to their outcome.
* Normalisation of payloads, dashboards, health, setup, CLIs, migrations: they read,
  or map data without control that outlives the call.
* Minute limits and `quota_state`: written and shown, never read by the gate.
* Plan modes other than auto and free, and a data mode that forbids external calls.
* The two maintenance tasks and the read-only daily match scan of the automation.

## Plan

1. *Done*: automation, review, analysis jobs, quota, intake (coverage, loops, manual
   import), prediction and evaluation; `RunLifecycle` and its implementation; every
   invariant and action property of the passing runs proved, and the step simulation of
   `RunLifecycle`.
2. *Further proofs*: what of the serial automation survives a second slot (a row is torn
   only between two tasks of its match).
3. `CountedUsage`, an atomic counter per day, implemented by `ProviderQuota` with one
   call.
