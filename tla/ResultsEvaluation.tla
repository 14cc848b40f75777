-------------------------- MODULE ResultsEvaluation --------------------------
(***************************************************************************)
(* What happens to predictions once their matches are played: results from *)
(* the provider, the API and imports; evaluations with the performance and *)
(* calibration rows computed from them; archives; backtests.               *)
(*                                                                         *)
(* A session reads what is committed at each of its statements, except     *)
(* that rows it has loaded keep their loaded values until it commits.  One *)
(* action is what a session does up to its next commit or read.            *)
(*                                                                         *)
(* The rows of the four model versions, and of the probability bins, are   *)
(* refreshed alike; one of each per competition stands for them.  A column *)
(* stands as the set of scored predictions its value was computed from.    *)
(***************************************************************************)
EXTENDS MatchPrediction

CONSTANTS
  Beat,        \* the session of the scheduled result synchronisation
  Requests,    \* sessions of API requests and of further executions
  Jobs,        \* what the requests may do
  Earlier,     \* [Matches -> result already stored, or Nil]
  Predicted,   \* matches already predicted, in that order
  End,         \* [Matches -> time the match ends]
  Final,       \* [Matches -> its final score]
  DayLength,   \* times of one date
  CacheTime,   \* cache_window of the fixtures response (12 h)
  Averages,    \* columns averaged over samples: accuracy, log_loss, calibration_error, ...
  Average,     \* [Averages -> [sets of samples -> value of the column]]
  MaxTime,     \* bound on the clock
  MaxEvents    \* bound on requests, imports and lost sessions

VARIABLES
  now,         \* the clock
  events,      \* requests, imports and lost sessions so far
  finished,    \* matches whose stored status is a finished one
  evaluation,  \* [Ids -> row of prediction_evaluations, or Nil]
  performance, \* [Competitions -> row of model_performance, or Nil]
  calibration, \* [Competitions -> row of confidence_calibration, or Nil]
  archive,     \* [Ids -> the result in the prediction_archive row, or Nil]
  job,         \* [Tasks -> what the session does, or Nil]
  pc,          \* [Tasks -> where it stands]
  todo,        \* [Tasks -> days, matches or predictions to go]
  pred,        \* [Tasks -> the prediction it evaluates or archives, or Nil]
  against,     \* [Tasks -> the match whose result it is given, or Nil]
  loaded,      \* [Tasks -> results the session has loaded since its last commit]
  draft,       \* [Tasks -> rows it will commit]
  alone        \* history: tasks that no other has overlapped so far

storeVars   == <<finished, evaluation, performance, calibration, archive>>
sessionVars == <<job, pc, todo, pred, against, loaded, draft>>
vars        == <<predictionVars, storeVars, sessionVars, now, events, alone>>

Tasks == {Beat} \cup Requests
Times == 0..MaxTime

Day(m) == <<CompetitionOf[m], Kickoff[m] \div DayLength>>
Days   == {Day(m) : m \in {m \in Matches : Kickoff[m] # Nil}}
On(d)  == {m \in Matches : Kickoff[m] # Nil /\ Day(m) = d}

SampleSets == SUBSET (Ids \X Scores)
Columns    == {"sample_count"} \cup Averages
Rows       == [Columns -> SampleSets]

ASSUME EvaluationAssumption ==
  /\ Beat \notin Requests
  /\ Jobs \subseteq {"results", "sync", "record", "archive", "evaluate", "calibrate", "backtest"}
  /\ Earlier \in [Matches -> [score: Scores, completed: Times] \cup {Nil}]
  /\ Predicted \in Seq(Matches) /\ Len(Predicted) <= MaxPredictions
  /\ End \in [Matches -> Nat] /\ Final \in [Matches -> Scores]
  /\ DayLength \in Nat \ {0} /\ CacheTime \in Nat \ {0}
  /\ MaxTime \in Nat /\ MaxEvents \in Nat
  /\ Nil \notin [score: Scores, completed: Times] \cup [against: Matches, score: Scores]
  /\ \A column \in Averages : DOMAIN Average[column] = SampleSets
  /\ Nil \notin Rows

-----------------------------------------------------------------------------
\* Sessions.

Goto(t, label) == pc' = [pc EXCEPT ![t] = label]

Nothing == [m \in {} |-> Nil]

\* The results as session t sees them.
Known(t) == [m \in Matches |-> IF m \in DOMAIN loaded[t] THEN loaded[t][m] ELSE result[m]]

\* Something of which the behaviour may have MaxEvents.
Occurs == events < MaxEvents /\ events' = events + 1

\* A request, or the execution of a task, begins.
Open(t, j, label, items, p, m) ==
  /\ pc[t] = "idle"
  /\ IF t = Beat
     THEN j = "results" /\ UNCHANGED events
     ELSE j \in Jobs /\ Occurs
  /\ job' = [job EXCEPT ![t] = j]
  /\ Goto(t, label)
  /\ todo' = [todo EXCEPT ![t] = items]
  /\ pred' = [pred EXCEPT ![t] = p]
  /\ against' = [against EXCEPT ![t] = m]
  /\ UNCHANGED draft

Close(t) ==
  /\ Goto(t, "idle")
  /\ job' = [job EXCEPT ![t] = Nil]
  /\ todo' = [todo EXCEPT ![t] = {}]
  /\ pred' = [pred EXCEPT ![t] = Nil]
  /\ against' = [against EXCEPT ![t] = Nil]
  /\ loaded' = [loaded EXCEPT ![t] = Nothing]
  /\ draft' = [draft EXCEPT ![t] = Nil]

\* A flush breaks a unique constraint.  A request fails with it, and so does the
\* loop over predictions: its log record names one, which the session refuses to
\* load.
Fail(t) == Close(t) /\ UNCHANGED storeVars

\* On to the next prediction of a loop, the next match of a backtest.
Return(t) ==
  IF job[t] \in {"results", "backtest"}
  THEN /\ Goto(t, IF job[t] = "results" THEN "each" ELSE "replay")
       /\ pred' = [pred EXCEPT ![t] = Nil]
       /\ against' = [against EXCEPT ![t] = Nil]
       /\ draft' = [draft EXCEPT ![t] = Nil]
       /\ UNCHANGED <<job, todo, loaded>>
  ELSE Close(t)

-----------------------------------------------------------------------------
\* Results.

\* The status of a match is that of the response it was last stored from.
StatusOf(ms, at) == (finished \ ms) \cup {m \in ms : End[m] <= at}

\* A response may be as old as the cache allows.
Fresh(at) == at <= now /\ now < at + CacheTime

\* Answers to the fixtures call of a day: the final scores of the matches that
\* had ended, and any for those in play.
Responses(d) ==
  UNION {LET begun == {m \in On(d) : Kickoff[m] <= at}
         IN  {[at |-> at, scored |-> scored] : scored \in
                {f \in [begun -> Scores] : \A m \in begun : End[m] <= at => f[m] = Final[m]}} :
         at \in {at \in Times : Fresh(at)}}

\* sync_results: every score of the response becomes the result of its match,
\* completed when it kicked off.
StoreResponse(d, r) ==
  /\ finished' = StatusOf(On(d), r.at)
  /\ result' = [m \in Matches |-> IF m \in DOMAIN r.scored
                                  THEN [score |-> r.scored[m], completed |-> Kickoff[m]]
                                  ELSE result[m]]

\* sync_post_match_results begins: days of finished, predicted matches that have
\* no result.
SyncPostMatchResults(t) ==
  /\ Open(t, "results", "days",
          {Day(m) : m \in {m \in finished : /\ Kickoff[m] # Nil /\ result[m] = Nil
                                            /\ \E p \in Stored : predictions[p].match = m}},
          Nil, Nil)
  /\ UNCHANGED <<predictionVars, storeVars, loaded>>

ApiSyncResults(t) ==
  /\ \E d \in Days : Open(t, "sync", "days", {d}, Nil, Nil)
  /\ UNCHANGED <<predictionVars, storeVars, loaded>>

\* One day, or what it raises and the loop swallows.
SyncResults(t) ==
  /\ pc[t] = "days"
  /\ \E d \in todo[t] :
       /\ \/ \E r \in Responses(d) : StoreResponse(d, r)
          \/ UNCHANGED <<result, finished>>
       /\ IF job[t] = "results"
          THEN /\ todo' = [todo EXCEPT ![t] = @ \ {d}]
               /\ UNCHANGED <<job, pc, pred, against, loaded, draft>>
          ELSE Close(t)
  /\ UNCHANGED <<predictions, evaluation, performance, calibration, archive>>

\* Seeded defect: predictions of matches whose status is not finished wait.
UnevaluatedOfFinished ==
  {p \in Stored : /\ result[predictions[p].match] # Nil /\ evaluation[p] = Nil
                  /\ predictions[p].match \in finished}

\* Predictions with a result and without an evaluation.
Unevaluated ==
  {p \in Stored : result[predictions[p].match] # Nil /\ evaluation[p] = Nil}

\* The query of the second loop loads them with their results.
FindUnevaluated(t) ==
  /\ pc[t] = "days"
  /\ todo[t] = {}
  /\ Goto(t, "each")
  /\ todo' = [todo EXCEPT ![t] = Unevaluated]
  /\ loaded' = [loaded EXCEPT ![t] =
                  [m \in {predictions[p].match : p \in Unevaluated} |-> result[m]]]
  /\ UNCHANGED <<predictionVars, storeVars, job, pred, against, draft>>

\* Seeded defect: a result keeps the completion time it was sent, or none.
CompletedAsSent(at) == at

CompletedAt(at) == IF at = Nil THEN now ELSE at

\* Matches a person has a result of, correct or not.
Ended == {m \in Matches : End[m] <= now}

\* ResultService.record up to its commit; the predictions are listed for their
\* archives.
Record(t) ==
  /\ \E m \in Ended, score \in Scores, at \in Times \cup {Nil} :
       /\ Open(t, "record", "archive",
               {p \in Stored : predictions[p].match = m}, Nil, m)
       /\ result' = [result EXCEPT ![m] = [score |-> score, completed |-> CompletedAt(at)]]
  /\ UNCHANGED <<predictions, storeVars, loaded>>

\* _save_results of a manual import that meets no conflict.
ImportResult ==
  /\ \E m \in Ended, score \in Scores :
       /\ result[m] # Nil => result[m].score = score
       /\ Occurs
       /\ result' = [result EXCEPT ![m] = [score |-> score, completed |-> now]]
  /\ UNCHANGED <<predictions, storeVars, sessionVars>>

\* sync_matches, from responses at most CacheTime old.
SyncMatches ==
  /\ \E c \in Competitions, at \in {at \in Times : Fresh(at)} :
       finished' = StatusOf({m \in Matches : CompetitionOf[m] = c}, at)
  /\ UNCHANGED <<predictionVars, evaluation, performance, calibration, archive, sessionVars>>

-----------------------------------------------------------------------------
\* Evaluation, performance, calibration.

\* POST /evaluation/run: the result need not be that of the prediction's match.
ApiEvaluate(t) ==
  /\ \E p \in Stored, m \in {m \in Matches : result[m] # Nil} :
       Open(t, "evaluate", "evaluate", {}, p, m)
  /\ UNCHANGED <<predictionVars, storeVars, loaded>>

ApiCalibrate(t) ==
  /\ Open(t, "calibrate", "measure", {}, Nil, Nil)
  /\ UNCHANGED <<predictionVars, storeVars, loaded>>

\* The next prediction of the loop, or its end.
Each(t) ==
  /\ pc[t] = "each"
  /\ IF todo[t] = {}
     THEN Close(t)
     ELSE /\ \E p \in todo[t] :
               /\ todo' = [todo EXCEPT ![t] = @ \ {p}]
               /\ pred' = [pred EXCEPT ![t] = p]
               /\ against' = [against EXCEPT ![t] = predictions[p].match]
          /\ Goto(t, "evaluate")
          /\ UNCHANGED <<job, loaded, draft>>
  /\ UNCHANGED <<predictionVars, storeVars>>

\* evaluate returns what exists, refuses an unavailable prediction, or loads the
\* result.
Evaluate(t) ==
  /\ pc[t] = "evaluate"
  /\ IF evaluation[pred[t]] # Nil \/ ~Available(pred[t])
     THEN Return(t)
     ELSE /\ Goto(t, "insert")
          /\ loaded' = [loaded EXCEPT ![t] = [m \in DOMAIN @ \cup {against[t]} |-> Known(t)[m]]]
          /\ UNCHANGED <<job, todo, pred, against, draft>>
  /\ UNCHANGED <<predictionVars, storeVars>>

CompetitionOfPrediction(p) == CompetitionOf[predictions[p].match]

\* Evaluated predictions of c, with the score of the result each was given.
Samples(c, evaluations, known) ==
  {<<p, known[evaluations[p].against].score>> :
     p \in {p \in Stored : evaluations[p] # Nil /\ CompetitionOfPrediction(p) = c}}

\* What a refresh computes for the competitions that have samples.
Refreshed(cs, evaluations, known) ==
  [c \in {c \in cs : Samples(c, evaluations, known) # {}} |->
     [samples |-> Samples(c, evaluations, known)]]

\* The rows it then loads.
Loaded(new, rows) == [c \in DOMAIN new |-> [samples |-> new[c].samples, old |-> rows[c]]]

\* An insertion that finds a row.
Conflict(new, rows) == \E c \in DOMAIN new : new[c].old = Nil /\ rows[c] # Nil

\* A row all of whose columns were computed from samples.
RowOf(samples) == [column \in Columns |-> samples]

Value(column, samples) ==
  IF column = "sample_count" THEN Cardinality(samples) ELSE Average[column][samples]

\* An update does not write a column whose new value is the loaded one: what another
\* session has stored there since stays, and where none has, it is the new value.
Updated(old, samples, current) ==
  [column \in Columns |->
     IF Value(column, samples) = Value(column, old[column]) /\ current[column] # old[column]
     THEN current[column] ELSE samples]

StoredRow(new, current) ==
  IF new.old = Nil THEN RowOf(new.samples) ELSE Updated(new.old, new.samples, current)

StoredRows(new, rows) ==
  [c \in Competitions |-> IF c \in DOMAIN new THEN StoredRow(new[c], rows[c]) ELSE rows[c]]

Evaluated(t) == [against |-> against[t], score |-> Known(t)[against[t]].score]

\* Seeded defect: the new evaluation is not flushed before the query.
SeenUnflushed(t) == evaluation

\* What the session's query sees after the flush of its own evaluation.
Seen(t) == [evaluation EXCEPT ![pred[t]] = Evaluated(t)]

\* The evaluation is flushed, after any other insertion of it has ended, and the
\* evaluations to be counted are queried.
Insert(t) ==
  /\ pc[t] = "insert"
  /\ \A u \in Tasks : pc[u] \in {"rows", "commit"} => pred[u] # pred[t]
  /\ IF evaluation[pred[t]] # Nil
     THEN Fail(t)
     ELSE /\ Goto(t, "rows")
          /\ draft' = [draft EXCEPT ![t] =
                         Refreshed({CompetitionOfPrediction(pred[t])}, Seen(t), Known(t))]
          /\ UNCHANGED <<storeVars, job, todo, pred, against, loaded>>
  /\ UNCHANGED predictionVars

LoadPerformance(t) ==
  /\ pc[t] = "rows"
  /\ Goto(t, "commit")
  /\ draft' = [draft EXCEPT ![t] = Loaded(@, performance)]
  /\ UNCHANGED <<predictionVars, storeVars, job, todo, pred, against, loaded>>

\* Seeded defect: what is computed is committed although the evaluation is not.
CommitApart(t) ==
  /\ pc[t] = "commit"
  /\ performance' = StoredRows(draft[t], performance)
  /\ \/ /\ evaluation' = [evaluation EXCEPT ![pred[t]] = Evaluated(t)]
        /\ Goto(t, "measure")
        /\ loaded' = [loaded EXCEPT ![t] = Nothing]
        /\ UNCHANGED <<job, todo, pred, against, draft>>
     \/ Close(t) /\ UNCHANGED evaluation
  /\ UNCHANGED <<predictionVars, finished, calibration, archive>>

\* One commit stores the evaluation and the performance, or neither.
Commit(t) ==
  /\ pc[t] = "commit"
  /\ IF Conflict(draft[t], performance)
     THEN Fail(t)
     ELSE /\ evaluation' = [evaluation EXCEPT ![pred[t]] = Evaluated(t)]
          /\ performance' = StoredRows(draft[t], performance)
          /\ Goto(t, "measure")
          /\ loaded' = [loaded EXCEPT ![t] = Nothing]
          /\ UNCHANGED <<finished, calibration, archive, job, todo, pred, against, draft>>
  /\ UNCHANGED predictionVars

\* CalibrationService.refresh, for a competition or for all: its query, the bins it
\* loads, its commit.
Measure(t) ==
  /\ pc[t] = "measure"
  /\ Goto(t, "bins")
  /\ \E cs \in IF pred[t] # Nil THEN {{CompetitionOfPrediction(pred[t])}}
               ELSE {{c} : c \in Competitions} \cup {Competitions} :
       draft' = [draft EXCEPT ![t] = Refreshed(cs, evaluation, result)]
  /\ UNCHANGED <<predictionVars, storeVars, job, todo, pred, against, loaded>>

LoadBins(t) ==
  /\ pc[t] = "bins"
  /\ Goto(t, "save")
  /\ draft' = [draft EXCEPT ![t] = Loaded(@, calibration)]
  /\ UNCHANGED <<predictionVars, storeVars, job, todo, pred, against, loaded>>

\* Seeded defect: bins that exist are not updated.
SaveNew(t) ==
  /\ pc[t] = "save"
  /\ calibration' = [c \in Competitions |-> IF c \in DOMAIN draft[t] /\ calibration[c] = Nil
                                            THEN RowOf(draft[t][c].samples) ELSE calibration[c]]
  /\ Return(t)
  /\ UNCHANGED <<predictionVars, finished, evaluation, performance, archive>>

Save(t) ==
  /\ pc[t] = "save"
  /\ IF Conflict(draft[t], calibration)
     THEN Fail(t)
     ELSE /\ calibration' = StoredRows(draft[t], calibration)
          /\ Return(t)
          /\ UNCHANGED <<finished, evaluation, performance, archive>>
  /\ UNCHANGED predictionVars

-----------------------------------------------------------------------------
\* Archives.

ApiArchive(t) ==
  /\ \E p \in Stored : Open(t, "archive", "archive", {p}, Nil, Nil)
  /\ UNCHANGED <<predictionVars, storeVars, loaded>>

\* The score of m, or Nil.
ScoreOf(m) == IF result[m] = Nil THEN Nil ELSE result[m].score

\* PredictionArchiveService.archive: the result is read, then the row, then the
\* row is committed.
ReadActual(t) ==
  /\ pc[t] = "archive"
  /\ IF todo[t] = {}
     THEN Close(t)
     ELSE /\ \E p \in todo[t] :
               /\ todo' = [todo EXCEPT ![t] = @ \ {p}]
               /\ pred' = [pred EXCEPT ![t] = p]
               /\ draft' = [draft EXCEPT ![t] = [actual |-> ScoreOf(predictions[p].match)]]
          /\ Goto(t, "load")
          /\ UNCHANGED <<job, against, loaded>>
  /\ UNCHANGED <<predictionVars, storeVars>>

LoadArchive(t) ==
  /\ pc[t] = "load"
  /\ Goto(t, "write")
  /\ draft' = [draft EXCEPT ![t] = [actual |-> @.actual, old |-> archive[pred[t]]]]
  /\ UNCHANGED <<predictionVars, storeVars, job, todo, pred, against, loaded>>

\* Seeded defect: an archive is kept as it was first written.
ArchivedOnce(old, actual, current) == IF old = Nil THEN [actual |-> actual] ELSE current

\* A column whose value did not change since it was loaded is not written.
Archived(old, actual, current) ==
  IF old = Nil \/ old # [actual |-> actual] THEN [actual |-> actual] ELSE current

WriteArchive(t) ==
  /\ pc[t] = "write"
  /\ IF draft[t].old = Nil /\ archive[pred[t]] # Nil
     THEN Fail(t)
     ELSE /\ archive' = [archive EXCEPT ![pred[t]] = Archived(draft[t].old, draft[t].actual, @)]
          /\ Goto(t, "archive")
          /\ pred' = [pred EXCEPT ![t] = Nil]
          /\ draft' = [draft EXCEPT ![t] = Nil]
          /\ UNCHANGED <<finished, evaluation, performance, calibration,
                         job, todo, against, loaded>>
  /\ UNCHANGED predictionVars

-----------------------------------------------------------------------------
\* Predictions and backtests.

RunPrediction ==
  /\ \E m \in Matches : Predict(m, result)
  /\ UNCHANGED <<result, storeVars, sessionVars>>

\* BacktestPipeline.run: the matches with a result between two dates.
Backtest(t) ==
  /\ \E c \in Competitions, from, to \in Times :
       LET played == {m \in Matches : /\ CompetitionOf[m] = c /\ result[m] # Nil
                                      /\ Kickoff[m] # Nil /\ Kickoff[m] \in from..to}
       IN  /\ Open(t, "backtest", "replay", played, Nil, Nil)
           /\ loaded' = [loaded EXCEPT ![t] = [m \in played |-> result[m]]]
  /\ UNCHANGED <<predictionVars, storeVars>>

\* The next match by kickoff is predicted, and evaluated if the prediction is
\* available.
Replay(t) ==
  /\ pc[t] = "replay"
  /\ IF todo[t] = {}
     THEN Close(t) /\ UNCHANGED predictions
     ELSE \E m \in todo[t] :
            /\ \A n \in todo[t] : Kickoff[m] <= Kickoff[n]
            /\ Predict(m, Known(t))
            /\ todo' = [todo EXCEPT ![t] = @ \ {m}]
            /\ loaded' = [loaded EXCEPT ![t] = Nothing]
            /\ IF PredictionOf(m, Known(t)).status = "available"
               THEN /\ Goto(t, "evaluate")
                    /\ pred' = [pred EXCEPT ![t] = Len(predictions')]
                    /\ against' = [against EXCEPT ![t] = m]
               ELSE UNCHANGED <<pc, pred, against>>
            /\ UNCHANGED <<job, draft>>
  /\ UNCHANGED <<result, storeVars>>

-----------------------------------------------------------------------------

Begin(t) ==
  \/ SyncPostMatchResults(t) \/ ApiSyncResults(t) \/ Record(t) \/ ApiEvaluate(t)
  \/ ApiCalibrate(t) \/ ApiArchive(t) \/ Backtest(t)

Proceed(t) ==
  \/ SyncResults(t) \/ FindUnevaluated(t) \/ Each(t) \/ Evaluate(t) \/ Insert(t)
  \/ LoadPerformance(t) \/ Commit(t) \/ Measure(t) \/ LoadBins(t) \/ Save(t)
  \/ ReadActual(t) \/ LoadArchive(t) \/ WriteArchive(t) \/ Replay(t)

\* The worker is killed, or a flush fails for another reason.
Lose(t) ==
  /\ pc[t] # "idle"
  /\ Occurs
  /\ Fail(t)
  /\ UNCHANGED <<predictionVars, now>>

Tick ==
  /\ now < MaxTime
  /\ now' = now + 1
  /\ UNCHANGED <<predictionVars, storeVars, sessionVars, events, alone>>

\* t takes a step: the others under way have been overlapped, and t is if one of
\* them was under way when it began.
Acts(t) ==
  alone' = {u \in Tasks :
              \/ pc'[u] = "idle"
              \/ u = t /\ IF pc[t] = "idle" THEN \A v \in Tasks : pc[v] = "idle" ELSE t \in alone}

\* The database may hold results, and predictions made and archived under them.
Init ==
  /\ now = 0 /\ events = 0
  /\ result = Earlier
  /\ predictions = [p \in 1..Len(Predicted) |-> PredictionOf(Predicted[p], Earlier)]
  /\ finished = {}
  /\ evaluation = [p \in Ids |-> Nil]
  /\ performance = [c \in Competitions |-> Nil]
  /\ calibration = [c \in Competitions |-> Nil]
  /\ archive = [p \in Ids |->
                  IF p \in Stored THEN [actual |-> ScoreOf(Predicted[p])] ELSE Nil]
  /\ job = [t \in Tasks |-> Nil]
  /\ pc = [t \in Tasks |-> "idle"]
  /\ todo = [t \in Tasks |-> {}]
  /\ pred = [t \in Tasks |-> Nil]
  /\ against = [t \in Tasks |-> Nil]
  /\ loaded = [t \in Tasks |-> Nothing]
  /\ draft = [t \in Tasks |-> Nil]
  /\ alone = Tasks

Opens(t) == Begin(t) /\ Acts(t) /\ UNCHANGED now
GoesOn(t) == Proceed(t) /\ Acts(t) /\ UNCHANGED <<now, events>>

Step(t) == Opens(t) \/ GoesOn(t) \/ (Lose(t) /\ Acts(t))

Outside ==
  /\ \/ ImportResult
     \/ (RunPrediction \/ SyncMatches) /\ UNCHANGED events
  /\ alone' = {u \in Tasks : pc[u] = "idle"}
  /\ UNCHANGED now

Next == Tick \/ Outside \/ \E t \in Tasks : Step(t)

Spec == Init /\ [][Next]_vars

Scheduled == SyncPostMatchResults(Beat) /\ Acts(Beat) /\ UNCHANGED now
Commits(t) == (LoadPerformance(t) \/ Commit(t)) /\ Acts(t) /\ UNCHANGED <<now, events>>

\* The schedule repeats the task, whose execution goes on once begun, and a session
\* that holds the lock of an inserted row commits.
FairSpec ==
  /\ Spec
  /\ WF_vars(Scheduled \/ GoesOn(Beat))
  /\ \A t \in Requests : WF_vars(Commits(t))

-----------------------------------------------------------------------------
(***************************************************************************)
(* Properties                                                              *)
(***************************************************************************)

ResultRows == [score: Scores, completed: Times]

IsRow(row) == DOMAIN row = Columns /\ \A column \in Columns : row[column] \subseteq Ids \X Scores

\* Type invariant.
TypeOK ==
  /\ now \in Times /\ events \in 0..MaxEvents
  /\ result \in [Matches -> ResultRows \cup {Nil}]
  /\ Len(predictions) <= MaxPredictions
  /\ \A p \in Stored :
       /\ predictions[p].match \in Matches
       /\ predictions[p].status \in {"available", "not_available"}
       /\ predictions[p].confidence \in {"low", "medium"}
       /\ DOMAIN predictions[p].history \subseteq Matches
  /\ finished \subseteq Matches
  /\ evaluation \in [Ids -> [against: Matches, score: Scores] \cup {Nil}]
  /\ \A c \in Competitions : /\ performance[c] = Nil \/ IsRow(performance[c])
                             /\ calibration[c] = Nil \/ IsRow(calibration[c])
  /\ archive \in [Ids -> [actual: Scores \cup {Nil}] \cup {Nil}]
  /\ job \in [Tasks -> Jobs \cup {"results", Nil}]
  /\ pc \in [Tasks -> {"idle", "days", "each", "evaluate", "insert", "commit", "measure",
                       "rows", "bins", "save", "archive", "load", "write", "replay"}]
  /\ pred \in [Tasks -> Ids \cup {Nil}]
  /\ against \in [Tasks -> Matches \cup {Nil}]
  /\ \A t \in Tasks : DOMAIN loaded[t] \subseteq Matches
  /\ alone \subseteq Tasks

\* docs/architecture.md 39-40: an available prediction, a backtest's as well, rests
\* on enough results of both teams, all of matches that kicked off before its
\* own, in its competition.
AvailableRestsOnPast ==
  \A p \in {p \in Stored : Available(p)} :
    LET m == predictions[p].match
        past == {h \in DOMAIN predictions[p].history :
                   Kickoff[h] < Kickoff[m] /\ CompetitionOf[h] = CompetitionOf[m]}
    IN  /\ past = DOMAIN predictions[p].history
        /\ \A team \in {HomeOf[m], AwayOf[m]} :
             Cardinality({h \in past : team \in {HomeOf[h], AwayOf[h]}}) >= MinHistory

\* assess_confidence (confidence.py 15-31): the level is low exactly for the
\* predictions that are not available, goalless histories included.
ConfidenceTellsAvailability ==
  \A p \in Stored : predictions[p].confidence = "low" <=> ~Available(p)

\* Every column of model_performance and confidence_calibration counts stored
\* evaluations of available predictions of its competition and no others, whatever
\* sessions failed, were lost or wrote over parts of each other's rows.
SamplesAreEvaluations ==
  \A c \in Competitions :
    \A row \in {performance[c], calibration[c]} \ {Nil}, column \in Columns :
      \A s \in row[column] : /\ evaluation[s[1]] # Nil
                             /\ Available(s[1]) /\ CompetitionOfPrediction(s[1]) = c

\* The commit that stores an evaluation stores a performance that counts it
\* (evaluation/service.py 54-59), but for columns that another session has written
\* since this one loaded the row, which may stay as they are.
EvaluationIsCounted ==
  [][\A t \in Tasks :
       (pc[t] = "commit" /\ pc'[t] = "measure") =>
         LET c == CompetitionOfPrediction(pred[t])
         IN  /\ performance'[c] # Nil
             /\ \A column \in Columns :
                  \/ \E s \in performance'[c][column] : s[1] = pred[t]
                  \/ /\ draft[t][c].old # Nil
                     /\ performance[c][column] # draft[t][c].old[column]
                     /\ performance'[c][column] = performance[c][column]]_vars

\* An evaluation that no other session overlapped leaves performance and
\* calibration that are exactly those of all evaluations, under the results as
\* corrected since.
SerialRefreshIsExact ==
  [][\A t \in alone :
       (pc[t] = "save" /\ pc'[t] # "save" /\ pred[t] # Nil /\ events' = events) =>
         LET c == CompetitionOfPrediction(pred[t])
         IN  /\ performance'[c] = RowOf(Samples(c, evaluation, result))
             /\ calibration'[c] = RowOf(Samples(c, evaluation, result))]_vars

\* A recorded result is in the archive of every prediction of its match once the
\* record has gone through them, if no other session overlapped it
\* (results.py 37-42).
SerialArchiveIsCurrent ==
  \A t \in alone :
    (job[t] = "record" /\ pc[t] = "archive" /\ todo[t] = {}) =>
      \A p \in {p \in Stored : predictions[p].match = against[t]} :
        archive[p] = [actual |-> ScoreOf(against[t])]

\* docs/architecture.md 62: every available prediction whose match has a result is
\* evaluated in the end, although sessions conflict, fail and are killed: again and
\* again none is left.
EveryResultIsEvaluated ==
  []<>(\A p \in Stored :
         (Available(p) /\ result[predictions[p].match] # Nil) => evaluation[p] # Nil)

\* docs/architecture.md 40, backtest/pipeline.py 21: a backtest uses what was known
\* before the kickoff, so no result of a match that had not ended by then.
BacktestUsesThePast ==
  [][\A t \in Tasks :
       (pc[t] = "replay" /\ todo'[t] # todo[t] /\ predictions' # predictions) =>
         LET new == predictions'[Len(predictions')]
         IN  \A h \in DOMAIN new.history : End[h] <= Kickoff[new.match]]_vars

=============================================================================
