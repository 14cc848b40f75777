------------------------ MODULE EvaluationRecordProofs ------------------------
(***************************************************************************)
(* What ResultsEvaluation promises of the rows kept of evaluations, the    *)
(* performance, calibration and archive rows, proved for every number of   *)
(* matches, predictions, sessions, requests and lost sessions.             *)
(*                                                                         *)
(* The argument.  Predictions, results and evaluations are never removed,  *)
(* so what a session has found of them stays true while other sessions     *)
(* commit.  The samples a session has drafted are then still of stored     *)
(* evaluations, or of the one it commits along with them, when it writes   *)
(* them into some of the columns of whatever rows are there.  A session    *)
(* that no other overlaps knows more: nothing it has read has changed, so  *)
(* that what it writes is what the tables say.                             *)
(***************************************************************************)
EXTENDS EvaluationProofs

Labels == {"idle", "days", "each", "evaluate", "insert", "commit", "measure",
           "rows", "bins", "save", "archive", "load", "write", "replay"}

EvaluationRows == [against: Matches, score: Scores]
ArchiveRows    == [actual: Scores \cup {Nil}]

ClockTypes == now \in Times /\ events \in 0..MaxEvents

StoreTypes ==
  /\ result \in [Matches -> ResultRows \cup {Nil}]
  /\ finished \subseteq Matches
  /\ evaluation \in [Ids -> EvaluationRows \cup {Nil}]
  /\ performance \in [Competitions -> {Nil} \cup Rows]
  /\ calibration \in [Competitions -> {Nil} \cup Rows]
  /\ archive \in [Ids -> ArchiveRows \cup {Nil}]

PredictionTypes ==
  /\ Len(predictions) <= MaxPredictions
  /\ \A p \in Stored :
       /\ predictions[p].match \in Matches
       /\ predictions[p].status \in {"available", "not_available"}
       /\ predictions[p].confidence \in {"low", "medium"}
       /\ DOMAIN predictions[p].history \subseteq Matches

PerTask(f) == f = [t \in Tasks |-> f[t]]

SessionTypes ==
  /\ job \in [Tasks -> Jobs \cup {"results", Nil}]
  /\ pc \in [Tasks -> Labels]
  /\ pred \in [Tasks -> Ids \cup {Nil}]
  /\ against \in [Tasks -> Matches \cup {Nil}]
  /\ PerTask(todo) /\ PerTask(loaded) /\ PerTask(draft)

-----------------------------------------------------------------------------
\* The inductive invariant.

HasResult(m) == m \in Matches /\ result[m] # Nil

Evaluable(p) == p \in Stored /\ HasResult(predictions[p].match)

\* Samples of c, each of a stored evaluation or of one of also.
Counted(c, samples, also) ==
  /\ samples \in SampleSets
  /\ \A s \in samples : /\ s[1] \in Stored /\ Available(s[1])
                        /\ CompetitionOfPrediction(s[1]) = c
                        /\ evaluation[s[1]] # Nil \/ s[1] \in also

RowCounts(c, row) == row \in Rows /\ \A column \in Columns : Counted(c, row[column], {})

\* A row that was loaded is still there.
Found(t, rows) == \A c \in DOMAIN draft[t] : draft[t][c].old # Nil => rows[c] # Nil

DraftCounts(t, also) ==
  /\ DOMAIN draft[t] \subseteq Competitions
  /\ \A c \in DOMAIN draft[t] : Counted(c, draft[t][c].samples, also)

\* What session t knows where it stands.
Standing(t) ==
  /\ pc[t] \in {"idle", "days"} => DOMAIN loaded[t] = {}
  /\ pc[t] = "days" => job[t] = "results" \/ todo[t] # {}
  /\ pc[t] = "each" => job[t] = "results"
  /\ pc[t] = "replay" => job[t] = "backtest"
  /\ (job[t] = "results" /\ pc[t] \notin {"idle", "days"}) => \A p \in todo[t] : Evaluable(p)
  /\ (job[t] = "backtest" /\ pc[t] # "idle") => \A m \in todo[t] : HasResult(m)
  /\ pc[t] \in {"archive", "load", "write"} => todo[t] \subseteq Stored
  /\ (pc[t] \in {"archive", "load", "write"} /\ job[t] = "record") => against[t] \in Matches
  /\ pc[t] \in {"evaluate", "insert", "rows", "commit"} =>
       pred[t] \in Stored /\ HasResult(against[t])
  /\ pc[t] \in {"insert", "rows", "commit"} => Available(pred[t])
  /\ (pc[t] \in {"measure", "bins", "save"} /\ pred[t] # Nil) =>
       pred[t] \in Stored /\ Available(pred[t]) /\ evaluation[pred[t]] # Nil
  /\ pc[t] \in {"load", "write"} => pred[t] \in Stored /\ draft[t].actual \in Scores \cup {Nil}

Drafted(t) ==
  /\ pc[t] \in {"rows", "commit"} =>
       LET c == CompetitionOfPrediction(pred[t])
       IN  /\ DraftCounts(t, {pred[t]})
           /\ c \in DOMAIN draft[t] /\ \E s \in draft[t][c].samples : s[1] = pred[t]
  /\ pc[t] \in {"bins", "save"} => DraftCounts(t, {})
  /\ pc[t] = "commit" => Found(t, performance)
  /\ pc[t] = "save" => Found(t, calibration)

LoadedOK(t) == \A m \in DOMAIN loaded[t] : HasResult(m) /\ loaded[t][m] \in ResultRows

Sessions == \A t \in Tasks : Standing(t) /\ Drafted(t) /\ LoadedOK(t)

RowsCount ==
  \A c \in Competitions : /\ performance[c] # Nil => RowCounts(c, performance[c])
                          /\ calibration[c] # Nil => RowCounts(c, calibration[c])

EvaluationsOK ==
  \A p \in Ids : evaluation[p] # Nil =>
    p \in Stored /\ Available(p) /\ HasResult(evaluation[p].against)

Types ==
  ClockTypes /\ StoreTypes /\ PredictionTypes /\ SessionTypes /\ alone \subseteq Tasks

Inv == Types /\ RowsCount /\ EvaluationsOK /\ Sessions

-----------------------------------------------------------------------------
\* What is known of a session that no other has overlapped.

Undisturbed(t) ==
  LET c == CompetitionOfPrediction(pred[t])
  IN  /\ \A u \in Tasks : (pc[t] # "idle" /\ pc[u] # "idle") => u = t
      /\ \A m \in DOMAIN loaded[t] : loaded[t][m] = result[m]
      /\ pc[t] = "rows" => draft[t] = Refreshed({c}, Seen(t), result)
      /\ pc[t] = "commit" => draft[t] = Loaded(Refreshed({c}, Seen(t), result), performance)
      /\ (pc[t] \in {"measure", "bins", "save"} /\ pred[t] # Nil) =>
           performance[c] = RowOf(Samples(c, evaluation, result))
      /\ (pc[t] = "bins" /\ pred[t] # Nil) => draft[t] = Refreshed({c}, evaluation, result)
      /\ (pc[t] = "save" /\ pred[t] # Nil) =>
           draft[t] = Loaded(Refreshed({c}, evaluation, result), calibration)

\* A record that has gone through some predictions has brought their archives
\* up to date.
Archiving(t) ==
  /\ pc[t] \in {"load", "write"} => draft[t].actual = ScoreOf(predictions[pred[t]].match)
  /\ pc[t] = "write" => draft[t].old = archive[pred[t]]
  /\ (job[t] = "record" /\ pc[t] \in {"archive", "load", "write"}) =>
       \A p \in {p \in Stored : predictions[p].match = against[t]} :
         \/ p \in todo[t]
         \/ pc[t] \in {"load", "write"} /\ p = pred[t]
         \/ archive[p] = [actual |-> ScoreOf(against[t])]

Serial == \A t \in alone : Undisturbed(t) /\ Archiving(t)

-----------------------------------------------------------------------------
LEMMA StoredAreIds ==
  ASSUME IInv, PredictionTypes
  PROVE  /\ Stored = 1..Len(predictions) /\ Len(predictions) \in Nat
         /\ Stored \subseteq Ids
<1>1. PICK S : predictions \in Seq(S)
  BY DEF IInv
<1>2. Stored = 1..Len(predictions) /\ Len(predictions) \in Nat
  BY <1>1, LenProperties DEF Stored
<1> QED
  BY <1>2, PredictionAssumption DEF PredictionTypes, Ids

LEMMA TypesImplyTypeOK == Inv => TypeOK
<1> SUFFICES ASSUME Inv PROVE TypeOK
  OBVIOUS
<1>1. \A t \in Tasks : DOMAIN loaded[t] \subseteq Matches
  BY DEF Inv, Sessions, LoadedOK, HasResult
<1> QED
  BY <1>1 DEF Inv, Types, ClockTypes, StoreTypes, PredictionTypes, SessionTypes, TypeOK, Labels,
              EvaluationRows, ArchiveRows, SampleSets, Rows, IsRow

\* What a query for the samples of a competition finds.
LEMMA SamplesFacts ==
  ASSUME NEW c, NEW also, NEW evaluations, NEW known,
         Stored \subseteq Ids,
         \A p \in Stored : evaluations[p] # Nil =>
           /\ Available(p) /\ known[evaluations[p].against].score \in Scores
           /\ evaluation[p] # Nil \/ p \in also
  PROVE  Counted(c, Samples(c, evaluations, known), also)
BY DEF Samples, Counted, SampleSets

LEMMA RefreshedFacts ==
  ASSUME NEW cs, NEW evaluations, NEW known, NEW new, new = Refreshed(cs, evaluations, known)
  PROVE  /\ \A c : c \in DOMAIN new <=> c \in cs /\ Samples(c, evaluations, known) # {}
         /\ \A c \in DOMAIN new : new[c].samples = Samples(c, evaluations, known)
BY DEF Refreshed

LEMMA LoadedFacts ==
  ASSUME NEW new, NEW rows, NEW drafted, drafted = Loaded(new, rows)
  PROVE  /\ DOMAIN drafted = DOMAIN new
         /\ \A c \in DOMAIN new :
              drafted[c].samples = new[c].samples /\ drafted[c].old = rows[c]
BY DEF Loaded

\* What a stored row says: a column either has the new samples, or is one that was
\* not as loaded and stays.
LEMMA StoredRowFacts ==
  ASSUME NEW new, NEW current, new.samples \in SampleSets,
         new.old # Nil => current \in Rows,
         NEW row, row = StoredRow(new, current)
  PROVE  /\ row \in Rows
         /\ \A column \in Columns :
              \/ row[column] = new.samples
              \/ /\ new.old # Nil /\ current[column] # new.old[column]
                 /\ row[column] = current[column]
<1>1. CASE new.old = Nil
  BY <1>1 DEF StoredRow, RowOf, Rows
<1>2. CASE new.old # Nil
  <2>1. row = Updated(new.old, new.samples, current)
    BY <1>2 DEF StoredRow
  <2>2. \A column \in Columns :
          row[column] = IF /\ Value(column, new.samples) = Value(column, new.old[column])
                           /\ current[column] # new.old[column]
                        THEN current[column] ELSE new.samples
    BY <2>1 DEF Updated
  <2>3. current \in [Columns -> SampleSets]
    BY <1>2 DEF Rows
  <2>4. row \in Rows
    BY <2>1, <2>3 DEF Updated, Rows
  <2> QED
    BY <1>2, <2>2, <2>4
<1> QED
  BY <1>1, <1>2

\* A row that is as loaded, or was not there, gets the new samples in all columns.
LEMMA StoredRowOf ==
  ASSUME NEW new, NEW current, new.old = current
  PROVE  StoredRow(new, current) = RowOf(new.samples)
BY DEF StoredRow, Updated, RowOf

-----------------------------------------------------------------------------
\* Nothing a session has found is removed.

Grows ==
  /\ Stored \subseteq Stored'
  /\ \A p \in Stored : predictions'[p] = predictions[p]
  /\ \A p \in Ids : evaluation[p] # Nil => evaluation'[p] # Nil
  /\ \A m \in Matches : result[m] # Nil => result'[m] # Nil
  /\ \A c \in Competitions : /\ performance[c] # Nil => performance'[c] # Nil
                             /\ calibration[c] # Nil => calibration'[c] # Nil

SessionStays(t) ==
  /\ job'[t] = job[t] /\ pc'[t] = pc[t] /\ todo'[t] = todo[t] /\ pred'[t] = pred[t]
  /\ against'[t] = against[t] /\ loaded'[t] = loaded[t] /\ draft'[t] = draft[t]

OthersStay(t) == \A u \in Tasks \ {t} : SessionStays(u)

LEMMA FoundStays ==
  ASSUME Grows
  PROVE  /\ \A m : HasResult(m) => HasResult(m)'
         /\ \A p \in Stored : /\ p \in Stored'
                              /\ Available(p)' <=> Available(p)
                              /\ CompetitionOfPrediction(p)' = CompetitionOfPrediction(p)
         /\ \A p : Evaluable(p) => Evaluable(p)'
BY DEF Grows, HasResult, Available, CompetitionOfPrediction, Evaluable

LEMMA CountedStays ==
  ASSUME Grows, Stored \subseteq Ids, NEW c, NEW samples, NEW also, Counted(c, samples, also)
  PROVE  Counted(c, samples, also)'
BY FoundStays DEF Counted, Grows

LEMMA RowCountsStay ==
  ASSUME Grows, Stored \subseteq Ids, NEW c, NEW row, RowCounts(c, row)
  PROVE  RowCounts(c, row)'
BY CountedStays DEF RowCounts

LEMMA RowsCountStays ==
  ASSUME Grows, Stored \subseteq Ids, RowsCount, UNCHANGED <<performance, calibration>>
  PROVE  RowsCount'
<1>1. ASSUME NEW c \in Competitions
      PROVE  /\ performance[c] # Nil => RowCounts(c, performance[c])'
             /\ calibration[c] # Nil => RowCounts(c, calibration[c])'
  <2>1. PICK row, bin : row = performance[c] /\ bin = calibration[c]
    OBVIOUS
  <2>2. /\ row # Nil => RowCounts(c, row)'
        /\ bin # Nil => RowCounts(c, bin)'
    BY <2>1, RowCountsStay DEF RowsCount
  <2> QED
    BY <2>1, <2>2 DEF RowCounts, Counted
<1> QED
  BY <1>1 DEF RowsCount

LEMMA EvaluationsStay ==
  ASSUME Grows, EvaluationsOK, UNCHANGED evaluation
  PROVE  EvaluationsOK'
BY FoundStays DEF EvaluationsOK, HasResult, Grows, Available

LEMMA SessionKept ==
  ASSUME Grows, Stored \subseteq Ids, NEW t \in Tasks, SessionStays(t),
         Standing(t) /\ Drafted(t) /\ LoadedOK(t)
  PROVE  Standing(t)' /\ Drafted(t)' /\ LoadedOK(t)'
<1>1. Standing(t)'
  BY FoundStays DEF Standing, SessionStays, Grows, HasResult, Evaluable, Available
<1>2. Drafted(t)'
  <2>1. PICK d, p : d = draft[t] /\ p = pred[t]
    OBVIOUS
  <2>2. ASSUME NEW also, DraftCounts(t, also)
        PROVE  DraftCounts(t, also)'
    <3>1. \A c \in DOMAIN d : Counted(c, d[c].samples, also)'
      BY <2>1, <2>2, CountedStays DEF DraftCounts
    <3> QED
      BY <2>1, <2>2, <3>1 DEF DraftCounts, Counted, SessionStays
  <2>3. ASSUME pc[t] \in {"rows", "commit"}
        PROVE  /\ DraftCounts(t, {p})'
               /\ CompetitionOfPrediction(p)' \in DOMAIN d
               /\ \E s \in d[CompetitionOfPrediction(p)'].samples : s[1] = p
    <3>1. p \in Stored
      BY <2>1, <2>3 DEF Standing
    <3>2. CompetitionOfPrediction(p)' = CompetitionOfPrediction(p)
      BY <3>1, FoundStays
    <3> QED
      BY <2>1, <2>2, <2>3, <3>2 DEF Drafted
  <2>4. pc[t] \in {"bins", "save"} => DraftCounts(t, {})'
    BY <2>2 DEF Drafted
  <2>5. pc'[t] = pc[t] /\ draft'[t] = d /\ pred'[t] = p
    BY <2>1 DEF SessionStays
  <2>6. /\ pc[t] = "commit" => Found(t, performance)'
        /\ pc[t] = "save" => Found(t, calibration)'
    <3>1. pc[t] \in {"commit", "save"} => DOMAIN d \subseteq Competitions
      BY <2>1 DEF Drafted, DraftCounts
    <3> QED
      BY <2>1, <2>5, <3>1 DEF Drafted, Found, Grows
  <2>7. CASE pc[t] \in {"rows", "commit"}
    BY <2>3, <2>5, <2>6, <2>7 DEF Drafted, DraftCounts, Counted, CompetitionOfPrediction
  <2>8. CASE pc[t] \notin {"rows", "commit"}
    BY <2>4, <2>5, <2>6, <2>8 DEF Drafted
  <2> QED
    BY <2>7, <2>8
<1>3. LoadedOK(t)'
  BY FoundStays DEF LoadedOK, SessionStays, HasResult
<1> QED
  BY <1>1, <1>2, <1>3

LEMMA SessionsStep ==
  ASSUME Inv, IInv, Grows, NEW t \in Tasks, OthersStay(t),
         Standing(t)' /\ Drafted(t)' /\ LoadedOK(t)'
  PROVE  Sessions'
<1> SUFFICES ASSUME NEW u \in Tasks, u # t
             PROVE  Standing(u)' /\ Drafted(u)' /\ LoadedOK(u)'
  BY DEF Sessions
<1>1. SessionStays(u) /\ Standing(u) /\ Drafted(u) /\ LoadedOK(u)
  BY DEF OthersStay, Inv, Sessions
<1> QED
  BY <1>1, SessionKept, StoredAreIds DEF Inv, Types

-----------------------------------------------------------------------------
\* What one step does to the tables, and to the session that takes it.

StoreStep == Grows /\ StoreTypes' /\ PredictionTypes' /\ RowsCount' /\ EvaluationsOK'

SessionStep(t) ==
  /\ SessionTypes' /\ OthersStay(t)
  /\ Standing(t)' /\ Drafted(t)' /\ LoadedOK(t)'

LEMMA QuietStore ==
  ASSUME Inv, IInv, UNCHANGED <<predictionVars, storeVars>>
  PROVE  StoreStep
<1>1. UNCHANGED <<result, predictions, finished, evaluation, performance, calibration, archive>>
  BY DEF predictionVars, storeVars
<1>2. Grows
  BY <1>1 DEF Grows, Stored
<1>3. StoreTypes' /\ PredictionTypes'
  BY <1>1 DEF Inv, Types, StoreTypes, PredictionTypes, Stored
<1> QED
  BY <1>1, <1>2, <1>3, RowsCountStays, EvaluationsStay, StoredAreIds DEF StoreStep, Inv, Types

\* Results are stored and overwritten.
LEMMA ResultStore ==
  ASSUME Inv, IInv,
         result' \in [Matches -> ResultRows \cup {Nil}], finished' \subseteq Matches,
         \A m \in Matches : result[m] # Nil => result'[m] # Nil,
         UNCHANGED <<predictions, evaluation, performance, calibration, archive>>
  PROVE  StoreStep
<1>1. Grows
  BY DEF Grows, Stored
<1>2. StoreTypes' /\ PredictionTypes'
  BY DEF Inv, Types, StoreTypes, PredictionTypes, Stored
<1> QED
  BY <1>1, <1>2, RowsCountStays, EvaluationsStay, StoredAreIds DEF StoreStep, Inv, Types

\* A prediction is appended.
LEMMA PredictStore ==
  ASSUME Inv, IInv, NEW m \in Matches, NEW known, Predict(m, known),
         UNCHANGED <<result, storeVars>>
  PROVE  /\ StoreStep
         /\ Len(predictions') \in Stored' /\ Len(predictions') \in Ids
         /\ predictions'[Len(predictions')].match = m
         /\ predictions'[Len(predictions')] = PredictionOf(m, known)
<1> DEFINE r == PredictionOf(m, known)
           n == Len(predictions) + 1
<1>1. PICK S : predictions \in Seq(S)
  BY DEF IInv
<1>2. predictions \in Seq(S \cup {r}) /\ predictions' = Append(predictions, r)
      /\ Len(predictions) < MaxPredictions
  BY <1>1 DEF Predict
<1>3. /\ Stored = 1..Len(predictions) /\ Len(predictions) \in Nat
      /\ Stored \subseteq Ids
  BY StoredAreIds DEF Inv, Types
<1>4. /\ predictions' \in Seq(S \cup {r}) /\ Len(predictions') = n
      /\ \A i \in 1..Len(predictions) : predictions'[i] = predictions[i]
      /\ predictions'[n] = r
  BY <1>2, AppendProperties
<1>5. Stored' = 1..n
  BY <1>4, LenProperties DEF Stored
<1>6. UNCHANGED <<result, finished, evaluation, performance, calibration, archive>>
  BY DEF storeVars
<1>7. Grows
  BY <1>3, <1>4, <1>5, <1>6 DEF Grows
<1>8. /\ r.match = m /\ r.status \in {"available", "not_available"}
      /\ r.confidence \in {"low", "medium"} /\ DOMAIN r.history \subseteq Matches
  BY HistoryFacts DEF PredictionOf, Confidence
<1>9. n <= MaxPredictions /\ n \in Ids
  BY <1>2, <1>3, PredictionAssumption DEF Ids
<1>10. PredictionTypes'
  <2> HIDE DEF r
  <2>1. n <= MaxPredictions
    BY <1>9
  <2>2. ASSUME NEW p \in Stored'
        PROVE  /\ predictions'[p].match \in Matches
               /\ predictions'[p].status \in {"available", "not_available"}
               /\ predictions'[p].confidence \in {"low", "medium"}
               /\ DOMAIN predictions'[p].history \subseteq Matches
    <3>1. CASE p \in Stored
      BY <1>3, <1>4, <3>1 DEF Inv, Types, PredictionTypes
    <3>2. CASE p = n
      BY <1>4, <1>8, <3>2
    <3> QED
      BY <1>3, <1>5, <3>1, <3>2
  <2> QED
    BY <1>4, <2>1, <2>2 DEF PredictionTypes
<1>11. StoreTypes'
  BY <1>6 DEF Inv, Types, StoreTypes
<1> QED
  BY <1>3, <1>4, <1>5, <1>6, <1>7, <1>8, <1>9, <1>10, <1>11, RowsCountStays, EvaluationsStay
  DEF StoreStep, Inv

LEMMA CloseSteps ==
  ASSUME Inv, NEW t \in Tasks, Close(t)
  PROVE  SessionStep(t)
<1>1. SessionTypes' /\ OthersStay(t)
  BY DEF Inv, Types, SessionTypes, PerTask, Close, Goto, Labels, OthersStay, SessionStays
<1>2. pc'[t] = "idle" /\ DOMAIN loaded'[t] = {} /\ todo'[t] = {}
  BY DEF Inv, Types, SessionTypes, PerTask, Close, Goto, Nothing
<1> QED
  BY <1>1, <1>2 DEF SessionStep, Standing, Drafted, LoadedOK

LEMMA ReturnSteps ==
  ASSUME Inv, NEW t \in Tasks, pc[t] \in {"evaluate", "save"}, Return(t), Grows
  PROVE  SessionStep(t)
<1>1. CASE Close(t)
  BY <1>1, CloseSteps
<1>2. CASE /\ job[t] \in {"results", "backtest"}
           /\ Goto(t, IF job[t] = "results" THEN "each" ELSE "replay")
           /\ pred' = [pred EXCEPT ![t] = Nil]
           /\ against' = [against EXCEPT ![t] = Nil]
           /\ draft' = [draft EXCEPT ![t] = Nil]
           /\ UNCHANGED <<job, todo, loaded>>
  <2>1. SessionTypes' /\ OthersStay(t)
    BY <1>2 DEF Inv, Types, SessionTypes, PerTask, Goto, Labels, OthersStay, SessionStays
  <2>2. /\ pc'[t] = IF job[t] = "results" THEN "each" ELSE "replay"
        /\ job' = job /\ todo' = todo /\ loaded' = loaded
    BY <1>2 DEF Inv, Types, SessionTypes, Goto
  <2>3. Standing(t) /\ LoadedOK(t)
    BY DEF Inv, Sessions
  <2>4. Standing(t)'
    BY <1>2, <2>2, <2>3, FoundStays DEF Standing, Evaluable, HasResult
  <2>5. LoadedOK(t)'
    BY <2>2, <2>3, FoundStays DEF LoadedOK, HasResult
  <2> QED
    BY <2>1, <2>2, <2>4, <2>5 DEF SessionStep, Drafted
<1> QED
  BY <1>1, <1>2 DEF Return

LEMMA OpenFacts ==
  ASSUME Inv, NEW t \in Tasks, NEW j, NEW label \in Labels, NEW items,
         NEW p \in Ids \cup {Nil}, NEW m \in Matches \cup {Nil},
         Open(t, j, label, items, p, m),
         \/ UNCHANGED loaded
         \/ \E f : loaded' = [loaded EXCEPT ![t] = f]
  PROVE  /\ SessionTypes' /\ OthersStay(t)
         /\ pc[t] = "idle" /\ job'[t] = j /\ pc'[t] = label /\ todo'[t] = items
         /\ pred'[t] = p /\ against'[t] = m
<1>1. j \in Jobs \cup {"results", Nil}
  BY DEF Open
<1>2. /\ pc[t] = "idle" /\ job'[t] = j /\ pc'[t] = label /\ todo'[t] = items
      /\ pred'[t] = p /\ against'[t] = m
  BY DEF Open, Goto, Inv, Types, SessionTypes, PerTask
<1>3. PerTask(loaded)'
  BY DEF Inv, Types, SessionTypes, PerTask
<1>4. SessionTypes'
  BY <1>1, <1>3 DEF Open, Goto, Inv, Types, SessionTypes, PerTask
<1>5. OthersStay(t)
  BY DEF Open, Goto, Inv, Types, SessionTypes, PerTask, OthersStay, SessionStays
<1> QED
  BY <1>2, <1>4, <1>5

-----------------------------------------------------------------------------
\* Requests and executions begin.

\* One that loads nothing yet.
LEMMA OpenSteps ==
  ASSUME Inv, NEW t \in Tasks, NEW j, NEW label \in Labels \ {"idle", "each", "insert", "rows",
                                                             "commit", "bins", "save", "load",
                                                             "write", "replay"},
         NEW items, NEW p \in Ids \cup {Nil}, NEW m \in Matches \cup {Nil},
         Open(t, j, label, items, p, m), UNCHANGED loaded,
         j \notin {"results", "backtest"} \/ (j = "results" /\ label = "days"),
         label = "days" => j = "results" \/ items # {},
         label = "archive" => items \subseteq Stored' /\ (j = "record" => m \in Matches),
         label = "evaluate" => p \in Stored' /\ HasResult(m)',
         label = "measure" => p = Nil
  PROVE  SessionStep(t)
<1>1. /\ SessionTypes' /\ OthersStay(t)
      /\ pc[t] = "idle" /\ job'[t] = j /\ pc'[t] = label /\ todo'[t] = items
      /\ pred'[t] = p /\ against'[t] = m
  BY OpenFacts
<1>2. DOMAIN loaded'[t] = {}
  BY <1>1 DEF Inv, Sessions, Standing
<1>3. Standing(t)'
  BY <1>1, <1>2 DEF Standing, HasResult
<1> QED
  BY <1>1, <1>2, <1>3 DEF SessionStep, Drafted, LoadedOK

LEMMA BeginSteps ==
  ASSUME Inv, IInv, NEW t \in Tasks, Begin(t)
  PROVE  StoreStep /\ SessionStep(t)
<1> USE DEF Labels
<1>1. Stored \subseteq Ids
  BY StoredAreIds DEF Inv, Types
<1>2. CASE SyncPostMatchResults(t)
  <2>1. PICK items : Open(t, "results", "days", items, Nil, Nil)
    BY <1>2 DEF SyncPostMatchResults
  <2>2. UNCHANGED <<predictionVars, storeVars>> /\ UNCHANGED loaded
    BY <1>2 DEF SyncPostMatchResults
  <2> QED
    BY <2>1, <2>2, QuietStore, OpenSteps
<1>3. CASE ApiSyncResults(t)
  <2>1. PICK d \in Days : Open(t, "sync", "days", {d}, Nil, Nil)
    BY <1>3 DEF ApiSyncResults
  <2>2. UNCHANGED <<predictionVars, storeVars>> /\ UNCHANGED loaded
    BY <1>3 DEF ApiSyncResults
  <2> QED
    BY <2>1, <2>2, QuietStore, OpenSteps
<1>4. CASE Record(t)
  <2>1. PICK m \in Ended, score \in Scores, at \in Times \cup {Nil} :
          /\ Open(t, "record", "archive", {p \in Stored : predictions[p].match = m}, Nil, m)
          /\ result' = [result EXCEPT ![m] = [score |-> score, completed |-> CompletedAt(at)]]
    BY <1>4 DEF Record
  <2>2. UNCHANGED <<predictions, storeVars, loaded>> /\ m \in Matches
    BY <1>4 DEF Record, Ended
  <2>3. CompletedAt(at) \in Times
    BY DEF CompletedAt, Inv, Types, ClockTypes
  <2>4. PICK row \in ResultRows : row = [score |-> score, completed |-> CompletedAt(at)]
    BY <2>3 DEF ResultRows
  <2>5. /\ result' \in [Matches -> ResultRows \cup {Nil}]
        /\ \A x \in Matches : result[x] # Nil => result'[x] # Nil
    BY <2>1, <2>4, EvaluationAssumption DEF Inv, Types, StoreTypes, ResultRows
  <2>6. StoreStep
    BY <2>2, <2>5, ResultStore DEF storeVars, Inv, Types, StoreTypes
  <2>7. {p \in Stored : predictions[p].match = m} \subseteq Stored'
    BY <2>2 DEF Stored
  <2> QED
    BY <2>1, <2>2, <2>6, <2>7, OpenSteps
<1>5. CASE ApiEvaluate(t)
  <2>1. PICK p \in Stored, m \in {m \in Matches : result[m] # Nil} :
          Open(t, "evaluate", "evaluate", {}, p, m)
    BY <1>5 DEF ApiEvaluate
  <2>2. UNCHANGED <<predictionVars, storeVars, loaded>>
    BY <1>5 DEF ApiEvaluate
  <2>3. p \in Stored' /\ HasResult(m)'
    BY <2>1, <2>2 DEF predictionVars, Stored, HasResult
  <2> QED
    BY <1>1, <2>1, <2>2, <2>3, QuietStore, OpenSteps
<1>6. CASE ApiCalibrate(t)
  BY <1>6, QuietStore, OpenSteps DEF ApiCalibrate
<1>7. CASE ApiArchive(t)
  <2>1. PICK p \in Stored : Open(t, "archive", "archive", {p}, Nil, Nil)
    BY <1>7 DEF ApiArchive
  <2>2. UNCHANGED <<predictionVars, storeVars, loaded>> /\ {p} \subseteq Stored'
    BY <1>7, <2>1 DEF ApiArchive, predictionVars, Stored
  <2> QED
    BY <2>1, <2>2, QuietStore, OpenSteps
<1>8. CASE Backtest(t)
  <2>1. PICK played \in SUBSET {m \in Matches : result[m] # Nil} :
          /\ Open(t, "backtest", "replay", played, Nil, Nil)
          /\ loaded' = [loaded EXCEPT ![t] = [m \in played |-> result[m]]]
    BY <1>8 DEF Backtest
  <2>2. UNCHANGED <<predictionVars, storeVars>>
    BY <1>8 DEF Backtest
  <2>3. /\ SessionTypes' /\ OthersStay(t)
        /\ job'[t] = "backtest" /\ pc'[t] = "replay" /\ todo'[t] = played
    BY <2>1, OpenFacts
  <2>4. loaded'[t] = [m \in played |-> result[m]] /\ result' = result
    BY <2>1, <2>2 DEF predictionVars, Inv, Types, SessionTypes, PerTask
  <2>5. \A m \in played : m \in Matches /\ result[m] # Nil /\ result[m] \in ResultRows
    BY DEF Inv, Types, StoreTypes
  <2>6. Standing(t)' /\ Drafted(t)' /\ LoadedOK(t)'
    BY <2>3, <2>4, <2>5 DEF Standing, Drafted, LoadedOK, HasResult
  <2> QED
    BY <2>2, <2>3, <2>6, QuietStore DEF SessionStep
<1> QED
  BY <1>2, <1>3, <1>4, <1>5, <1>6, <1>7, <1>8 DEF Begin


-----------------------------------------------------------------------------
\* Results are synchronised, the sessions go on.

LEMMA SyncResultsSteps ==
  ASSUME Inv, IInv, NEW t \in Tasks, SyncResults(t)
  PROVE  StoreStep /\ SessionStep(t)
<1>1. PICK d \in todo[t] :
        /\ \/ \E r \in Responses(d) : StoreResponse(d, r)
           \/ UNCHANGED <<result, finished>>
        /\ IF job[t] = "results"
           THEN /\ todo' = [todo EXCEPT ![t] = @ \ {d}]
                /\ UNCHANGED <<job, pc, pred, against, loaded, draft>>
           ELSE Close(t)
  BY DEF SyncResults
<1>2. /\ UNCHANGED <<predictions, evaluation, performance, calibration, archive>>
      /\ pc[t] = "days"
  BY DEF SyncResults
<1>3. /\ result' \in [Matches -> ResultRows \cup {Nil}] /\ finished' \subseteq Matches
      /\ \A m \in Matches : result[m] # Nil => result'[m] # Nil
  <2>1. CASE UNCHANGED <<result, finished>>
    BY <2>1 DEF Inv, Types, StoreTypes
  <2>2. ASSUME NEW r \in Responses(d), StoreResponse(d, r)
        PROVE  /\ result' \in [Matches -> ResultRows \cup {Nil}] /\ finished' \subseteq Matches
               /\ \A m \in Matches : result[m] # Nil => result'[m] # Nil
    <3> DEFINE Begun(at) == {m \in On(d) : Kickoff[m] <= at}
    <3>1. PICK at \in Times : \E scored \in [Begun(at) -> Scores] :
            r = [at |-> at, scored |-> scored]
      BY <2>2 DEF Responses
    <3>2. DOMAIN r.scored = Begun(at) /\ \A m \in Begun(at) : r.scored[m] \in Scores
      BY <3>1
    <3>3. ASSUME NEW m \in Begun(at)
          PROVE  /\ m \in Matches
                 /\ [score |-> r.scored[m], completed |-> Kickoff[m]] \in ResultRows
      <4>1. m \in Matches /\ Kickoff[m] \in Nat /\ Kickoff[m] <= at /\ at \in 0..MaxTime
        BY PredictionAssumption DEF On, Times
      <4>2. Kickoff[m] \in Times
        BY <4>1, EvaluationAssumption DEF Times
      <4> QED
        BY <3>2, <4>1, <4>2 DEF ResultRows
    <3>4. result' \in [Matches -> ResultRows \cup {Nil}]
          /\ \A m \in Matches : result[m] # Nil => result'[m] # Nil
      <4> HIDE DEF Begun
      <4>1. \A m \in Begun(at) : [score |-> r.scored[m], completed |-> Kickoff[m]] # Nil
        BY <3>3, EvaluationAssumption DEF ResultRows
      <4> QED
        BY <2>2, <3>2, <3>3, <4>1 DEF StoreResponse, Inv, Types, StoreTypes
    <3>5. finished' \subseteq Matches
      BY <2>2 DEF StoreResponse, StatusOf, On, Inv, Types, StoreTypes
    <3> QED
      BY <3>4, <3>5
  <2> QED
    BY <1>1, <2>1, <2>2
<1>4. StoreStep
  BY <1>2, <1>3, ResultStore
<1>5. SessionStep(t)
  <2>1. CASE job[t] = "results"
    <3>1. SessionTypes' /\ OthersStay(t)
      BY <1>1, <2>1 DEF Inv, Types, SessionTypes, PerTask, OthersStay, SessionStays
    <3>2. /\ job'[t] = "results" /\ pc'[t] = "days" /\ loaded' = loaded
      BY <1>1, <1>2, <2>1
    <3>3. DOMAIN loaded[t] = {}
      BY <1>2 DEF Inv, Sessions, Standing
    <3>4. Standing(t)' /\ Drafted(t)' /\ LoadedOK(t)'
      BY <3>2, <3>3 DEF Standing, Drafted, LoadedOK
    <3> QED
      BY <3>1, <3>4 DEF SessionStep
  <2>2. CASE job[t] # "results"
    BY <1>1, <2>2, CloseSteps
  <2> QED
    BY <2>1, <2>2
<1> QED
  BY <1>4, <1>5

LEMMA FindUnevaluatedSteps ==
  ASSUME Inv, IInv, NEW t \in Tasks, FindUnevaluated(t)
  PROVE  StoreStep /\ SessionStep(t)
<1> DEFINE found == [m \in {predictions[p].match : p \in Unevaluated} |-> result[m]]
<1>1. /\ pc[t] = "days" /\ todo[t] = {}
      /\ UNCHANGED <<predictionVars, storeVars>> /\ UNCHANGED <<job, pred, against, draft>>
      /\ pc' = [pc EXCEPT ![t] = "each"] /\ todo' = [todo EXCEPT ![t] = Unevaluated]
      /\ loaded' = [loaded EXCEPT ![t] = found]
  BY DEF FindUnevaluated, Goto
<1>2. UNCHANGED <<result, predictions>>
  BY <1>1 DEF predictionVars
<1>3. SessionTypes' /\ OthersStay(t)
  BY <1>1 DEF Inv, Types, SessionTypes, PerTask, Labels, OthersStay, SessionStays
<1>4. /\ pc'[t] = "each" /\ job'[t] = job[t] /\ todo'[t] = Unevaluated /\ loaded'[t] = found
  BY <1>1 DEF Inv, Types, SessionTypes, PerTask
<1>5. job[t] = "results"
  BY <1>1 DEF Inv, Sessions, Standing
<1>6. \A p \in Unevaluated : p \in Stored /\ predictions[p].match \in Matches
                             /\ result[predictions[p].match] # Nil
                             /\ result[predictions[p].match] \in ResultRows
  BY DEF Unevaluated, Inv, Types, PredictionTypes, StoreTypes
<1>7. Standing(t)'
  BY <1>2, <1>4, <1>5, <1>6 DEF Standing, Evaluable, HasResult, Stored
<1>8. LoadedOK(t)'
  BY <1>2, <1>4, <1>6 DEF LoadedOK, HasResult
<1> QED
  BY <1>1, <1>3, <1>4, <1>7, <1>8, QuietStore DEF SessionStep, Drafted

LEMMA EachSteps ==
  ASSUME Inv, IInv, NEW t \in Tasks, Each(t)
  PROVE  StoreStep /\ SessionStep(t)
<1>1. UNCHANGED <<predictionVars, storeVars>> /\ pc[t] = "each"
  BY DEF Each
<1>2. StoreStep
  BY <1>1, QuietStore
<1>3. CASE todo[t] = {}
  BY <1>2, <1>3, CloseSteps DEF Each
<1>4. CASE todo[t] # {}
  <2>1. PICK p \in todo[t] :
          /\ todo' = [todo EXCEPT ![t] = @ \ {p}]
          /\ pred' = [pred EXCEPT ![t] = p]
          /\ against' = [against EXCEPT ![t] = predictions[p].match]
          /\ pc' = [pc EXCEPT ![t] = "evaluate"] /\ UNCHANGED <<job, loaded, draft>>
    BY <1>4 DEF Each, Goto
  <2>2. Standing(t) /\ LoadedOK(t)
    BY DEF Inv, Sessions
  <2>3. job[t] = "results" /\ \A q \in todo[t] : Evaluable(q)
    BY <1>1, <2>2 DEF Standing
  <2>4. p \in Ids /\ predictions[p].match \in Matches
    BY <2>3, StoredAreIds DEF Evaluable, HasResult, Inv, Types
  <2>5. SessionTypes' /\ OthersStay(t)
    BY <2>1, <2>4 DEF Inv, Types, SessionTypes, PerTask, Labels, OthersStay, SessionStays
  <2>6. /\ pc'[t] = "evaluate" /\ job'[t] = job[t] /\ todo'[t] = todo[t] \ {p}
        /\ pred'[t] = p /\ against'[t] = predictions[p].match /\ loaded'[t] = loaded[t]
    BY <2>1 DEF Inv, Types, SessionTypes, PerTask
  <2>7. \A q \in todo[t] : Evaluable(q)'
    BY <1>2, <2>3, FoundStays DEF StoreStep
  <2>8. UNCHANGED <<result, predictions>>
    BY <1>1 DEF predictionVars
  <2>9. Standing(t)'
    BY <2>3, <2>6, <2>7, <2>8 DEF Standing, Evaluable, Stored, HasResult
  <2>10. LoadedOK(t)'
    BY <2>2, <2>6, <2>8 DEF LoadedOK, HasResult
  <2> QED
    BY <1>2, <2>5, <2>6, <2>9, <2>10 DEF SessionStep, Drafted
<1> QED
  BY <1>3, <1>4

LEMMA EvaluateSteps ==
  ASSUME Inv, IInv, NEW t \in Tasks, Evaluate(t)
  PROVE  StoreStep /\ SessionStep(t)
<1>1. UNCHANGED <<predictionVars, storeVars>> /\ pc[t] = "evaluate"
  BY DEF Evaluate
<1>2. StoreStep
  BY <1>1, QuietStore
<1>3. CASE Return(t)
  BY <1>1, <1>2, <1>3, ReturnSteps DEF StoreStep
<1>4. CASE ~Return(t)
  <2> DEFINE m == against[t]
             l == [x \in DOMAIN loaded[t] \cup {m} |-> Known(t)[x]]
  <2>1. /\ Available(pred[t])
        /\ pc' = [pc EXCEPT ![t] = "insert"] /\ loaded' = [loaded EXCEPT ![t] = l]
        /\ UNCHANGED <<job, todo, pred, against, draft>>
    BY <1>4 DEF Evaluate, Goto
  <2>2. Standing(t) /\ LoadedOK(t)
    BY DEF Inv, Sessions
  <2>3. pred[t] \in Stored /\ HasResult(m)
    BY <1>1, <2>2 DEF Standing
  <2>4. \A x : HasResult(x) => Known(t)[x] \in ResultRows
    BY <2>2 DEF Known, LoadedOK, HasResult, Inv, Types, StoreTypes
  <2>5. \A x \in DOMAIN l : HasResult(x) /\ l[x] \in ResultRows
    BY <2>2, <2>3, <2>4 DEF LoadedOK
  <2> HIDE DEF l
  <2>7. SessionTypes' /\ OthersStay(t)
    BY <2>1 DEF Inv, Types, SessionTypes, PerTask, Labels, OthersStay, SessionStays
  <2>8. pc'[t] = "insert" /\ loaded'[t] = l
    BY <2>1 DEF Inv, Types, SessionTypes, PerTask
  <2>9. UNCHANGED <<result, predictions>>
    BY <1>1 DEF predictionVars
  <2>10. Standing(t)'
    BY <1>1, <2>1, <2>2, <2>3, <2>8, <2>9
    DEF Standing, Evaluable, Stored, HasResult, Available
  <2>11. LoadedOK(t)'
    BY <2>5, <2>8, <2>9 DEF LoadedOK, HasResult
  <2> QED
    BY <1>2, <2>7, <2>8, <2>10, <2>11 DEF SessionStep, Drafted
<1> QED
  BY <1>3, <1>4

-----------------------------------------------------------------------------
\* Rows are computed and committed.

\* The samples a refresh finds, of evaluations that are stored or among also and of
\* results that are.
LEMMA RefreshedAreCounted ==
  ASSUME NEW cs \in SUBSET Competitions, NEW also, NEW evaluations, NEW known,
         Stored \subseteq Ids,
         \A p \in Stored : evaluations[p] # Nil =>
           /\ Available(p) /\ known[evaluations[p].against].score \in Scores
           /\ evaluation[p] # Nil \/ p \in also,
         NEW new, new = Refreshed(cs, evaluations, known)
  PROVE  /\ DOMAIN new \subseteq Competitions
         /\ \A c \in DOMAIN new : Counted(c, new[c].samples, also)
<1>1. /\ DOMAIN new \subseteq Competitions
      /\ \A c \in DOMAIN new : new[c].samples = Samples(c, evaluations, known)
  BY RefreshedFacts
<1>2. \A c : Counted(c, Samples(c, evaluations, known), also)
  BY SamplesFacts
<1> QED
  BY <1>1, <1>2

\* The evaluations a session sees once it has flushed its own.
LEMMA SeenFacts ==
  ASSUME Inv, IInv, NEW t \in Tasks, pc[t] \in {"insert", "rows", "commit"}
  PROVE  /\ \A x : HasResult(x) => Known(t)[x] \in ResultRows
         /\ Evaluated(t) \in EvaluationRows /\ Evaluated(t) # Nil
         /\ pred[t] \in Ids /\ HasResult(against[t])
         /\ CompetitionOfPrediction(pred[t]) \in Competitions
         /\ \A p \in Ids : Seen(t)[p] = IF p = pred[t] THEN Evaluated(t) ELSE evaluation[p]
<1>1. Standing(t) /\ LoadedOK(t)
  BY DEF Inv, Sessions
<1>2. \A x : HasResult(x) => Known(t)[x] \in ResultRows
  BY <1>1 DEF Known, LoadedOK, HasResult, Inv, Types, StoreTypes
<1>3. pred[t] \in Stored /\ HasResult(against[t])
  BY <1>1 DEF Standing
<1>4. Known(t)[against[t]].score \in Scores /\ against[t] \in Matches
  BY <1>2, <1>3 DEF ResultRows, HasResult
<1>5. Evaluated(t) \in EvaluationRows /\ Evaluated(t) # Nil
  BY <1>4, EvaluationAssumption DEF Evaluated, EvaluationRows
<1>6. pred[t] \in Ids /\ CompetitionOfPrediction(pred[t]) \in Competitions
  BY <1>3, StoredAreIds, PredictionAssumption
  DEF Inv, Types, PredictionTypes, CompetitionOfPrediction
<1> QED
  BY <1>2, <1>3, <1>5, <1>6 DEF Seen, Inv, Types, StoreTypes

LEMMA InsertSteps ==
  ASSUME Inv, IInv, NEW t \in Tasks, Insert(t)
  PROVE  StoreStep /\ SessionStep(t)
<1> DEFINE p == pred[t]
           c == CompetitionOfPrediction(p)
<1> PICK new : new = Refreshed({c}, Seen(t), Known(t))
  OBVIOUS
<1>1. pc[t] = "insert" /\ UNCHANGED predictionVars
  BY DEF Insert
<1>2. CASE Fail(t)
  BY <1>1, <1>2, QuietStore, CloseSteps DEF Fail
<1>3. CASE ~Fail(t)
  <2>1. /\ pc' = [pc EXCEPT ![t] = "rows"] /\ draft' = [draft EXCEPT ![t] = new]
        /\ UNCHANGED <<storeVars, job, todo, pred, against, loaded>>
    BY <1>3 DEF Insert, Goto
  <2>2. StoreStep
    BY <1>1, <2>1, QuietStore
  <2>3. SessionTypes' /\ OthersStay(t)
    BY <2>1 DEF Inv, Types, SessionTypes, PerTask, Labels, OthersStay, SessionStays
  <2>4. pc'[t] = "rows" /\ draft'[t] = new
    BY <2>1 DEF Inv, Types, SessionTypes, PerTask
  <2>5. /\ Stored \subseteq Ids /\ p \in Stored /\ Available(p)
        /\ Standing(t) /\ LoadedOK(t)
    BY <1>1, StoredAreIds DEF Inv, Types, Sessions, Standing
  <2>6. \A q \in Stored : Seen(t)[q] # Nil =>
          /\ Available(q) /\ Known(t)[Seen(t)[q].against].score \in Scores
          /\ evaluation[q] # Nil \/ q \in {p}
    <3>1. Evaluated(t).against = against[t]
      BY DEF Evaluated
    <3> QED
      BY <1>1, <2>5, <3>1, SeenFacts DEF Inv, EvaluationsOK, ResultRows
  <2>7. /\ DOMAIN new \subseteq Competitions
        /\ \A d \in DOMAIN new : Counted(d, new[d].samples, {p})
    BY <1>1, <2>5, <2>6, SeenFacts, RefreshedAreCounted
  <2>8. c \in DOMAIN new /\ \E s \in new[c].samples : s[1] = p
    <3>1. <<p, Known(t)[Seen(t)[p].against].score>> \in Samples(c, Seen(t), Known(t))
      BY <1>1, <2>5, SeenFacts DEF Samples
    <3>2. c \in DOMAIN new /\ new[c].samples = Samples(c, Seen(t), Known(t))
      BY <3>1, RefreshedFacts
    <3> QED
      BY <3>1, <3>2
  <2>9. UNCHANGED <<predictions, evaluation, result>>
    BY <1>1, <2>1 DEF predictionVars, storeVars
  <2>10. PICK q : q = p
    OBVIOUS
  <2>11. Drafted(t)'
    <3>1. \A d \in DOMAIN new : Counted(d, new[d].samples, {q})'
      BY <2>2, <2>5, <2>7, <2>10, CountedStays DEF StoreStep
    <3>2. draft'[t] = new /\ pred'[t] = q /\ pc'[t] = "rows"
      BY <2>1, <2>4, <2>10
    <3>3. DraftCounts(t, {q})'
      BY <2>7, <2>10, <3>1, <3>2 DEF DraftCounts, Counted
    <3>4. CompetitionOfPrediction(pred[t])' = c
      BY <2>1, <2>9 DEF CompetitionOfPrediction
    <3> HIDE DEF c
    <3> QED
      BY <2>8, <2>10, <3>2, <3>3, <3>4 DEF Drafted, DraftCounts, Counted, Available
  <2>12. Standing(t)'
    BY <1>1, <2>1, <2>4, <2>5, <2>9 DEF Standing, Evaluable, Stored, HasResult, Available
  <2>13. LoadedOK(t)'
    BY <2>1, <2>5, <2>9 DEF LoadedOK, HasResult
  <2> QED
    BY <2>2, <2>3, <2>11, <2>12, <2>13 DEF SessionStep
<1> QED
  BY <1>2, <1>3

LEMMA LoadPerformanceSteps ==
  ASSUME Inv, IInv, NEW t \in Tasks, LoadPerformance(t)
  PROVE  StoreStep /\ SessionStep(t)
<1> PICK p, c, new, drafted : /\ p = pred[t] /\ c = CompetitionOfPrediction(p)
                              /\ new = draft[t] /\ drafted = Loaded(new, performance)
  OBVIOUS
<1>1. /\ pc[t] = "rows" /\ pc' = [pc EXCEPT ![t] = "commit"]
      /\ draft' = [draft EXCEPT ![t] = drafted]
      /\ UNCHANGED <<predictionVars, storeVars>>
      /\ UNCHANGED <<job, todo, pred, against, loaded>>
  BY DEF LoadPerformance, Goto
<1>2. StoreStep /\ UNCHANGED <<result, predictions, evaluation, performance>>
  BY <1>1, QuietStore DEF predictionVars, storeVars
<1>3. SessionTypes' /\ OthersStay(t)
  BY <1>1 DEF Inv, Types, SessionTypes, PerTask, Labels, OthersStay, SessionStays
<1>4. pc'[t] = "commit" /\ draft'[t] = drafted /\ pred'[t] = p
  BY <1>1 DEF Inv, Types, SessionTypes, PerTask
<1>5. Standing(t) /\ LoadedOK(t) /\ Stored \subseteq Ids
  BY StoredAreIds DEF Inv, Types, Sessions
<1>6. /\ DOMAIN new \subseteq Competitions
      /\ \A d \in DOMAIN new : Counted(d, new[d].samples, {p})
      /\ c \in DOMAIN new /\ \E s \in new[c].samples : s[1] = p
  BY <1>1 DEF Inv, Sessions, Drafted, DraftCounts
<1>7. /\ DOMAIN drafted = DOMAIN new
      /\ \A d \in DOMAIN new :
           drafted[d].samples = new[d].samples /\ drafted[d].old = performance[d]
  BY LoadedFacts
<1>8. Drafted(t)'
  <2>1. \A d \in DOMAIN new : Counted(d, new[d].samples, {p})'
    BY <1>2, <1>5, <1>6, CountedStays DEF StoreStep
  <2>2. DraftCounts(t, {p})'
    BY <1>4, <1>6, <1>7, <2>1 DEF DraftCounts, Counted
  <2>3. Found(t, performance)'
    BY <1>2, <1>4, <1>7 DEF Found
  <2>4. CompetitionOfPrediction(pred[t])' = c
    BY <1>2, <1>4 DEF CompetitionOfPrediction
  <2>5. c \in DOMAIN drafted /\ \E s \in drafted[c].samples : s[1] = p
    BY <1>6, <1>7
  <2> QED
    BY <1>4, <2>2, <2>3, <2>4, <2>5 DEF Drafted, DraftCounts, Counted, Available
<1>9. Standing(t)'
  BY <1>1, <1>2, <1>4, <1>5 DEF Standing, Evaluable, Stored, HasResult, Available
<1>10. LoadedOK(t)'
  BY <1>1, <1>2, <1>5 DEF LoadedOK, HasResult
<1> QED
  BY <1>2, <1>3, <1>8, <1>9, <1>10 DEF SessionStep

\* Rows stay, and a row that is stored is one.
LEMMA StoredRowsStay ==
  ASSUME NEW rows \in [Competitions -> {Nil} \cup Rows], NEW new,
         \A c \in DOMAIN new : /\ new[c].samples \in SampleSets
                               /\ new[c].old # Nil => rows[c] # Nil,
         NEW stored, stored = StoredRows(new, rows)
  PROVE  /\ stored \in [Competitions -> {Nil} \cup Rows]
         /\ \A c \in Competitions : rows[c] # Nil => stored[c] # Nil
<1>1. \A c \in Competitions :
        stored[c] = IF c \in DOMAIN new THEN StoredRow(new[c], rows[c]) ELSE rows[c]
  BY DEF StoredRows
<1>2. ASSUME NEW c \in Competitions, c \in DOMAIN new
      PROVE  stored[c] \in Rows
  <2>1. PICK row, current : row = StoredRow(new[c], current) /\ current = rows[c]
    OBVIOUS
  <2>2. PICK d : d = new[c]
    OBVIOUS
  <2>3. /\ d.samples \in SampleSets /\ row = StoredRow(d, current)
        /\ d.old # Nil => current \in Rows
    BY <1>2, <2>1, <2>2
  <2>4. row \in Rows
    BY <2>3, StoredRowFacts
  <2> QED
    BY <1>1, <1>2, <2>1, <2>4
<1>3. stored = [c \in Competitions |-> stored[c]]
  BY DEF StoredRows
<1> QED
  BY <1>1, <1>2, <1>3, EvaluationAssumption

LEMMA StoredRowsAreCounted ==
  ASSUME Grows, Stored \subseteq Ids, NEW rows, NEW new,
         rows \in [Competitions -> {Nil} \cup Rows],
         \A c \in Competitions : rows[c] # Nil => RowCounts(c, rows[c]),
         \A c \in DOMAIN new : /\ Counted(c, new[c].samples, {})'
                               /\ new[c].old # Nil => rows[c] # Nil,
         NEW stored, stored = StoredRows(new, rows)
  PROVE  \A c \in Competitions : stored[c] # Nil => RowCounts(c, stored[c])'
<1> SUFFICES ASSUME NEW c \in Competitions, stored[c] # Nil
             PROVE  RowCounts(c, stored[c])'
  OBVIOUS
<1>1. PICK row, current : row = stored[c] /\ current = rows[c]
  OBVIOUS
<1>2. current # Nil => RowCounts(c, current)'
  BY <1>1, RowCountsStay
<1>3. CASE c \notin DOMAIN new
  <2>1. row = current
    BY <1>1, <1>3 DEF StoredRows
  <2> QED
    BY <1>1, <1>2, <2>1
<1>4. CASE c \in DOMAIN new
  <2>1. PICK d : d = new[c]
    OBVIOUS
  <2>2. row = StoredRow(d, current)
    BY <1>1, <1>4, <2>1 DEF StoredRows
  <2>3. Counted(c, d.samples, {})' /\ (d.old # Nil => current # Nil)
    BY <1>1, <1>4, <2>1
  <2>4. d.samples \in SampleSets
    BY <2>3 DEF Counted, SampleSets
  <2>5. current \in {Nil} \cup Rows
    BY <1>1
  <2>6. d.old # Nil => current \in Rows
    BY <2>3, <2>5
  <2>7. /\ row \in Rows
        /\ \A column \in Columns :
             \/ row[column] = d.samples
             \/ d.old # Nil /\ row[column] = current[column]
    BY <2>2, <2>4, <2>6, StoredRowFacts
  <2>8. \A column \in Columns : Counted(c, row[column], {})'
    BY <1>2, <2>3, <2>7 DEF RowCounts
  <2>9. RowCounts(c, row)'
    BY <2>7, <2>8 DEF RowCounts, Counted
  <2> QED
    BY <1>1, <2>9
<1> QED
  BY <1>3, <1>4

LEMMA CommitSteps ==
  ASSUME Inv, IInv, NEW t \in Tasks, Commit(t)
  PROVE  StoreStep /\ SessionStep(t)
<1>1. pc[t] = "commit" /\ UNCHANGED predictionVars
  BY DEF Commit
<1>2. CASE Fail(t)
  BY <1>1, <1>2, QuietStore, CloseSteps DEF Fail
<1>3. CASE ~Fail(t)
  <2> PICK p, new, old, stored :
        p = pred[t] /\ new = draft[t] /\ old = performance /\ stored = StoredRows(new, old)
    OBVIOUS
  <2>1. /\ evaluation' = [evaluation EXCEPT ![p] = Evaluated(t)]
        /\ performance' = stored
        /\ pc' = [pc EXCEPT ![t] = "measure"] /\ loaded' = [loaded EXCEPT ![t] = Nothing]
        /\ UNCHANGED <<finished, calibration, archive, job, todo, pred, against, draft>>
    BY <1>3 DEF Commit, Goto
  <2>2. UNCHANGED <<result, predictions>>
    BY <1>1 DEF predictionVars
  <2>3. /\ Stored \subseteq Ids /\ p \in Stored /\ Available(p) /\ HasResult(against[t])
        /\ Standing(t) /\ DraftCounts(t, {p}) /\ Found(t, performance)
    BY <1>1, StoredAreIds DEF Inv, Types, Sessions, Standing, Drafted
  <2>4. /\ evaluation' \in [Ids -> EvaluationRows \cup {Nil}]
        /\ \A q \in Ids : evaluation'[q] = IF q = p THEN Evaluated(t) ELSE evaluation[q]
        /\ evaluation'[p] # Nil
    BY <1>1, <2>1, <2>3, SeenFacts DEF Inv, Types, StoreTypes
  <2>5. old \in [Competitions -> {Nil} \cup Rows]
    BY DEF Inv, Types, StoreTypes
  <2>6. \A c \in DOMAIN new : /\ new[c].samples \in SampleSets
                              /\ new[c].old # Nil => old[c] # Nil
    BY <2>3 DEF DraftCounts, Counted, Found
  <2>7. /\ stored \in [Competitions -> {Nil} \cup Rows]
        /\ \A c \in Competitions : old[c] # Nil => stored[c] # Nil
    BY <2>5, <2>6, StoredRowsStay
  <2>8. Grows
    BY <2>1, <2>2, <2>4, <2>7 DEF Grows, Stored
  <2>9. \A c \in Competitions : stored[c] # Nil => RowCounts(c, stored[c])'
    <3>2. \A c \in Competitions : old[c] # Nil => RowCounts(c, old[c])
      BY DEF Inv, RowsCount
    <3>3. \A c \in DOMAIN new : Counted(c, new[c].samples, {p})'
      BY <2>3, <2>8, CountedStays DEF DraftCounts
    <3>4. \A c \in DOMAIN new : Counted(c, new[c].samples, {})'
      BY <2>4, <3>3 DEF Counted
    <3>5. \A c \in DOMAIN new : /\ Counted(c, new[c].samples, {})'
                                /\ new[c].old # Nil => old[c] # Nil
      BY <2>6, <3>4
    <3> QED
      BY <2>3, <2>8, <2>5, <3>2, <3>5, StoredRowsAreCounted
  <2>10. RowsCount'
    <3>1. PICK bins : bins = calibration
      OBVIOUS
    <3>2. \A c \in Competitions : bins[c] # Nil => RowCounts(c, bins[c])'
      BY <2>3, <2>8, <3>1, RowCountsStay DEF Inv, RowsCount
    <3>3. performance' = stored /\ calibration' = bins
      BY <2>1, <3>1
    <3> QED
      BY <2>9, <3>2, <3>3 DEF RowsCount, RowCounts, Counted
  <2>11. EvaluationsOK'
    <3>1. Evaluated(t).against = against[t]
      BY DEF Evaluated
    <3> QED
      BY <2>2, <2>3, <2>4, <3>1 DEF Inv, EvaluationsOK, Available, HasResult, Stored
  <2>12. StoreTypes' /\ PredictionTypes'
    BY <2>1, <2>2, <2>4, <2>7 DEF Inv, Types, StoreTypes, PredictionTypes, Stored
  <2>13. SessionTypes' /\ OthersStay(t)
    BY <2>1 DEF Inv, Types, SessionTypes, PerTask, Labels, OthersStay, SessionStays
  <2>14. pc'[t] = "measure" /\ loaded'[t] = Nothing
    BY <2>1 DEF Inv, Types, SessionTypes, PerTask
  <2>15. Standing(t)'
    BY <1>1, <2>1, <2>2, <2>3, <2>4, <2>14
    DEF Standing, Evaluable, HasResult, Stored, Available
  <2>16. Drafted(t)' /\ LoadedOK(t)'
    BY <2>14 DEF Drafted, LoadedOK, Nothing
  <2> QED
    BY <2>8, <2>10, <2>11, <2>12, <2>13, <2>15, <2>16 DEF StoreStep, SessionStep
<1> QED
  BY <1>2, <1>3

LEMMA MeasureSteps ==
  ASSUME Inv, IInv, NEW t \in Tasks, Measure(t)
  PROVE  StoreStep /\ SessionStep(t)
<1>1. /\ pc[t] = "measure" /\ pc' = [pc EXCEPT ![t] = "bins"]
      /\ UNCHANGED <<predictionVars, storeVars>>
      /\ UNCHANGED <<job, todo, pred, against, loaded>>
  BY DEF Measure, Goto
<1>2. /\ Stored \subseteq Ids /\ Standing(t) /\ LoadedOK(t)
  BY StoredAreIds DEF Inv, Types, Sessions
<1>3. pred[t] # Nil => CompetitionOfPrediction(pred[t]) \in Competitions
  BY <1>1, <1>2, PredictionAssumption
  DEF Standing, CompetitionOfPrediction, Inv, Types, PredictionTypes
<1>4. PICK cs \in SUBSET Competitions :
        draft' = [draft EXCEPT ![t] = Refreshed(cs, evaluation, result)]
  BY <1>3 DEF Measure
<1>5. PICK new : new = Refreshed(cs, evaluation, result)
  OBVIOUS
<1>6. StoreStep
  BY <1>1, QuietStore
<1>7. UNCHANGED <<predictions, evaluation, result>>
  BY <1>1 DEF predictionVars, storeVars
<1>8. /\ DOMAIN new \subseteq Competitions
      /\ \A d \in DOMAIN new : Counted(d, new[d].samples, {})
  <2>1. \A q \in Stored : evaluation[q] # Nil =>
          /\ Available(q) /\ result[evaluation[q].against].score \in Scores
          /\ evaluation[q] # Nil \/ q \in {}
    BY <1>2 DEF Inv, EvaluationsOK, HasResult, Types, StoreTypes, ResultRows
  <2> QED
    BY <1>2, <1>5, <2>1, RefreshedAreCounted
<1>9. SessionTypes' /\ OthersStay(t)
  BY <1>1, <1>4 DEF Inv, Types, SessionTypes, PerTask, Labels, OthersStay, SessionStays
<1>10. pc'[t] = "bins" /\ draft'[t] = new
  BY <1>1, <1>4, <1>5 DEF Inv, Types, SessionTypes, PerTask
<1>11. \A d \in DOMAIN new : Counted(d, new[d].samples, {})'
  BY <1>2, <1>6, <1>8, CountedStays DEF StoreStep
<1>12. Drafted(t)'
  BY <1>8, <1>10, <1>11 DEF Drafted, DraftCounts, Counted
<1>13. Standing(t)'
  BY <1>1, <1>2, <1>7, <1>10 DEF Standing, Evaluable, Stored, HasResult, Available
<1>14. LoadedOK(t)'
  BY <1>1, <1>2, <1>7 DEF LoadedOK, HasResult
<1> QED
  BY <1>6, <1>9, <1>12, <1>13, <1>14 DEF SessionStep

LEMMA LoadBinsSteps ==
  ASSUME Inv, IInv, NEW t \in Tasks, LoadBins(t)
  PROVE  StoreStep /\ SessionStep(t)
<1> PICK new, drafted : new = draft[t] /\ drafted = Loaded(new, calibration)
  OBVIOUS
<1>1. /\ pc[t] = "bins" /\ pc' = [pc EXCEPT ![t] = "save"]
      /\ draft' = [draft EXCEPT ![t] = drafted]
      /\ UNCHANGED <<predictionVars, storeVars>>
      /\ UNCHANGED <<job, todo, pred, against, loaded>>
  BY DEF LoadBins, Goto
<1>2. StoreStep /\ UNCHANGED <<result, predictions, evaluation, calibration>>
  BY <1>1, QuietStore DEF predictionVars, storeVars
<1>3. SessionTypes' /\ OthersStay(t)
  BY <1>1 DEF Inv, Types, SessionTypes, PerTask, Labels, OthersStay, SessionStays
<1>4. pc'[t] = "save" /\ draft'[t] = drafted
  BY <1>1 DEF Inv, Types, SessionTypes, PerTask
<1>5. Standing(t) /\ LoadedOK(t) /\ Stored \subseteq Ids
  BY StoredAreIds DEF Inv, Types, Sessions
<1>6. /\ DOMAIN new \subseteq Competitions
      /\ \A d \in DOMAIN new : Counted(d, new[d].samples, {})
  BY <1>1 DEF Inv, Sessions, Drafted, DraftCounts
<1>7. /\ DOMAIN drafted = DOMAIN new
      /\ \A d \in DOMAIN new :
           drafted[d].samples = new[d].samples /\ drafted[d].old = calibration[d]
  BY LoadedFacts
<1>8. Drafted(t)'
  <2>1. \A d \in DOMAIN new : Counted(d, new[d].samples, {})'
    BY <1>2, <1>5, <1>6, CountedStays DEF StoreStep
  <2>2. DraftCounts(t, {})'
    BY <1>4, <1>6, <1>7, <2>1 DEF DraftCounts, Counted
  <2>3. Found(t, calibration)'
    BY <1>2, <1>4, <1>7 DEF Found
  <2> QED
    BY <1>4, <2>2, <2>3 DEF Drafted
<1>9. Standing(t)'
  BY <1>1, <1>2, <1>4, <1>5 DEF Standing, Evaluable, Stored, HasResult, Available
<1>10. LoadedOK(t)'
  BY <1>1, <1>2, <1>5 DEF LoadedOK, HasResult
<1> QED
  BY <1>2, <1>3, <1>8, <1>9, <1>10 DEF SessionStep

LEMMA SaveSteps ==
  ASSUME Inv, IInv, NEW t \in Tasks, Save(t)
  PROVE  StoreStep /\ SessionStep(t)
<1>1. pc[t] = "save" /\ UNCHANGED predictionVars
  BY DEF Save
<1>2. CASE Fail(t)
  BY <1>1, <1>2, QuietStore, CloseSteps DEF Fail
<1>3. CASE ~Fail(t)
  <2> PICK new, old, stored :
        new = draft[t] /\ old = calibration /\ stored = StoredRows(new, old)
    OBVIOUS
  <2>1. /\ calibration' = stored /\ Return(t)
        /\ UNCHANGED <<finished, evaluation, performance, archive>>
    BY <1>3 DEF Save
  <2>2. UNCHANGED <<result, predictions>>
    BY <1>1 DEF predictionVars
  <2>3. Stored \subseteq Ids /\ DraftCounts(t, {}) /\ Found(t, calibration)
    BY <1>1, StoredAreIds DEF Inv, Types, Sessions, Drafted
  <2>4. old \in [Competitions -> {Nil} \cup Rows]
    BY DEF Inv, Types, StoreTypes
  <2>5. \A c \in DOMAIN new : /\ new[c].samples \in SampleSets
                              /\ new[c].old # Nil => old[c] # Nil
    BY <2>3 DEF DraftCounts, Counted, Found
  <2>6. /\ stored \in [Competitions -> {Nil} \cup Rows]
        /\ \A c \in Competitions : old[c] # Nil => stored[c] # Nil
    BY <2>4, <2>5, StoredRowsStay
  <2>7. Grows
    BY <2>1, <2>2, <2>6 DEF Grows, Stored
  <2>8. \A c \in Competitions : stored[c] # Nil => RowCounts(c, stored[c])'
    <3>2. \A c \in Competitions : old[c] # Nil => RowCounts(c, old[c])
      BY DEF Inv, RowsCount
    <3>3. \A c \in DOMAIN new : Counted(c, new[c].samples, {})'
      BY <2>3, <2>7, CountedStays DEF DraftCounts
    <3>4. \A c \in DOMAIN new : /\ Counted(c, new[c].samples, {})'
                                /\ new[c].old # Nil => old[c] # Nil
      BY <2>5, <3>3
    <3> QED
      BY <2>3, <2>7, <2>4, <3>2, <3>4, StoredRowsAreCounted
  <2>9. RowsCount'
    <3>1. PICK rows : rows = performance
      OBVIOUS
    <3>2. \A c \in Competitions : rows[c] # Nil => RowCounts(c, rows[c])'
      BY <2>3, <2>7, <3>1, RowCountsStay DEF Inv, RowsCount
    <3>3. performance' = rows /\ calibration' = stored
      BY <2>1, <3>1
    <3> QED
      BY <2>8, <3>2, <3>3 DEF RowsCount, RowCounts, Counted
  <2>10. StoreTypes' /\ PredictionTypes'
    BY <2>1, <2>2, <2>6 DEF Inv, Types, StoreTypes, PredictionTypes, Stored
  <2>11. EvaluationsOK'
    BY <2>1, <2>7, EvaluationsStay DEF Inv
  <2>12. SessionStep(t)
    BY <1>1, <2>1, <2>7, ReturnSteps
  <2> QED
    BY <2>7, <2>9, <2>10, <2>11, <2>12 DEF StoreStep
<1> QED
  BY <1>2, <1>3

-----------------------------------------------------------------------------
\* Archives are written, backtests replayed.

LEMMA ReadActualSteps ==
  ASSUME Inv, IInv, NEW t \in Tasks, ReadActual(t)
  PROVE  StoreStep /\ SessionStep(t)
<1>1. UNCHANGED <<predictionVars, storeVars>> /\ pc[t] = "archive"
  BY DEF ReadActual
<1>2. StoreStep
  BY <1>1, QuietStore
<1>3. CASE todo[t] = {}
  BY <1>2, <1>3, CloseSteps DEF ReadActual
<1>4. CASE todo[t] # {}
  <2>1. PICK p, score :
          /\ p \in todo[t] /\ score = ScoreOf(predictions[p].match)
          /\ todo' = [todo EXCEPT ![t] = @ \ {p}]
          /\ pred' = [pred EXCEPT ![t] = p]
          /\ draft' = [draft EXCEPT ![t] = [actual |-> score]]
          /\ pc' = [pc EXCEPT ![t] = "load"] /\ UNCHANGED <<job, against, loaded>>
    BY <1>4 DEF ReadActual, Goto
  <2>2. Standing(t) /\ LoadedOK(t) /\ Stored \subseteq Ids
    BY StoredAreIds DEF Inv, Types, Sessions
  <2>3. p \in Stored /\ todo[t] \subseteq Stored
    BY <1>1, <2>1, <2>2 DEF Standing
  <2>4. score \in Scores \cup {Nil}
    BY <2>1, <2>3 DEF ScoreOf, Inv, Types, PredictionTypes, StoreTypes, ResultRows
  <2>5. SessionTypes' /\ OthersStay(t)
    BY <2>1, <2>2, <2>3 DEF Inv, Types, SessionTypes, PerTask, Labels, OthersStay, SessionStays
  <2>6. /\ pc'[t] = "load" /\ todo'[t] = todo[t] \ {p} /\ pred'[t] = p
        /\ draft'[t] = [actual |-> score]
    BY <2>1 DEF Inv, Types, SessionTypes, PerTask
  <2>7. UNCHANGED <<result, predictions>>
    BY <1>1 DEF predictionVars
  <2>8. Standing(t)'
    BY <1>1, <2>1, <2>2, <2>3, <2>4, <2>6, <2>7 DEF Standing, Evaluable, Stored, HasResult
  <2>9. LoadedOK(t)'
    BY <2>1, <2>2, <2>7 DEF LoadedOK, HasResult
  <2> QED
    BY <1>2, <2>5, <2>6, <2>8, <2>9 DEF SessionStep, Drafted
<1> QED
  BY <1>3, <1>4

LEMMA LoadArchiveSteps ==
  ASSUME Inv, IInv, NEW t \in Tasks, LoadArchive(t)
  PROVE  StoreStep /\ SessionStep(t)
<1>1. /\ UNCHANGED <<predictionVars, storeVars>> /\ pc[t] = "load"
      /\ pc' = [pc EXCEPT ![t] = "write"]
      /\ UNCHANGED <<job, todo, pred, against, loaded>>
  BY DEF LoadArchive, Goto
<1>2. StoreStep
  BY <1>1, QuietStore
<1>3. PICK new : new = [actual |-> draft[t].actual, old |-> archive[pred[t]]]
  OBVIOUS
<1>4. draft' = [draft EXCEPT ![t] = new]
  BY <1>3 DEF LoadArchive
<1>5. Standing(t) /\ LoadedOK(t)
  BY DEF Inv, Sessions
<1>6. SessionTypes' /\ OthersStay(t)
  BY <1>1, <1>4 DEF Inv, Types, SessionTypes, PerTask, Labels, OthersStay, SessionStays
<1>7. pc'[t] = "write" /\ draft'[t] = new
  BY <1>1, <1>4 DEF Inv, Types, SessionTypes, PerTask
<1>8. UNCHANGED <<result, predictions>>
  BY <1>1 DEF predictionVars
<1>9. Standing(t)'
  BY <1>1, <1>3, <1>5, <1>7, <1>8 DEF Standing, Evaluable, Stored, HasResult
<1>10. LoadedOK(t)'
  BY <1>1, <1>5, <1>8 DEF LoadedOK, HasResult
<1> QED
  BY <1>2, <1>6, <1>7, <1>9, <1>10 DEF SessionStep, Drafted

LEMMA WriteArchiveSteps ==
  ASSUME Inv, IInv, NEW t \in Tasks, WriteArchive(t)
  PROVE  StoreStep /\ SessionStep(t)
<1>1. pc[t] = "write" /\ UNCHANGED predictionVars
  BY DEF WriteArchive
<1>2. CASE Fail(t)
  BY <1>1, <1>2, QuietStore, CloseSteps DEF Fail
<1>3. CASE ~Fail(t)
  <2>1. /\ archive' = [archive EXCEPT ![pred[t]] = Archived(draft[t].old, draft[t].actual, @)]
        /\ pc' = [pc EXCEPT ![t] = "archive"]
        /\ pred' = [pred EXCEPT ![t] = Nil] /\ draft' = [draft EXCEPT ![t] = Nil]
        /\ UNCHANGED <<finished, evaluation, performance, calibration, job, todo, against,
                       loaded>>
    BY <1>3 DEF WriteArchive, Goto
  <2>2. UNCHANGED <<result, predictions>>
    BY <1>1 DEF predictionVars
  <2>3. /\ Standing(t) /\ LoadedOK(t) /\ Stored \subseteq Ids
        /\ pred[t] \in Stored /\ draft[t].actual \in Scores \cup {Nil}
    BY <1>1, StoredAreIds DEF Inv, Types, Sessions, Standing
  <2>4. Archived(draft[t].old, draft[t].actual, archive[pred[t]]) \in ArchiveRows \cup {Nil}
    BY <2>3 DEF Archived, ArchiveRows, Inv, Types, StoreTypes
  <2>5. archive' \in [Ids -> ArchiveRows \cup {Nil}]
    BY <2>1, <2>3, <2>4 DEF Inv, Types, StoreTypes
  <2>6. Grows
    BY <2>1, <2>2 DEF Grows, Stored
  <2>7. StoreTypes' /\ PredictionTypes'
    BY <2>1, <2>2, <2>5 DEF Inv, Types, StoreTypes, PredictionTypes, Stored
  <2>8. RowsCount' /\ EvaluationsOK'
    BY <2>1, <2>3, <2>6, RowsCountStays, EvaluationsStay DEF Inv
  <2>9. SessionTypes' /\ OthersStay(t)
    BY <2>1 DEF Inv, Types, SessionTypes, PerTask, Labels, OthersStay, SessionStays
  <2>10. pc'[t] = "archive"
    BY <2>1 DEF Inv, Types, SessionTypes
  <2>11. Standing(t)'
    BY <1>1, <2>1, <2>2, <2>3, <2>10 DEF Standing, Evaluable, Stored, HasResult
  <2>12. LoadedOK(t)'
    BY <2>1, <2>2, <2>3 DEF LoadedOK, HasResult
  <2> QED
    BY <2>6, <2>7, <2>8, <2>9, <2>10, <2>11, <2>12 DEF StoreStep, SessionStep, Drafted
<1> QED
  BY <1>2, <1>3

LEMMA ReplaySteps ==
  ASSUME Inv, IInv, NEW t \in Tasks, Replay(t)
  PROVE  StoreStep /\ SessionStep(t)
<1>1. UNCHANGED <<result, storeVars>> /\ pc[t] = "replay"
  BY DEF Replay
<1>2. Standing(t) /\ LoadedOK(t)
  BY DEF Inv, Sessions
<1>3. CASE todo[t] = {}
  <2>1. Close(t) /\ UNCHANGED <<predictionVars, storeVars>>
    BY <1>1, <1>3 DEF Replay, predictionVars
  <2> QED
    BY <2>1, QuietStore, CloseSteps
<1>4. CASE todo[t] # {}
  <2>1. PICK m \in todo[t], available \in BOOLEAN :
          /\ Predict(m, Known(t))
          /\ todo' = [todo EXCEPT ![t] = @ \ {m}]
          /\ loaded' = [loaded EXCEPT ![t] = Nothing]
          /\ IF available
             THEN /\ pc' = [pc EXCEPT ![t] = "evaluate"]
                  /\ pred' = [pred EXCEPT ![t] = Len(predictions')]
                  /\ against' = [against EXCEPT ![t] = m]
             ELSE UNCHANGED <<pc, pred, against>>
          /\ UNCHANGED <<job, draft>>
    BY <1>4 DEF Replay, Goto
  <2>2. job[t] = "backtest" /\ \A n \in todo[t] : HasResult(n)
    BY <1>1, <1>2 DEF Standing
  <2>3. /\ StoreStep
        /\ Len(predictions') \in Stored' /\ Len(predictions') \in Ids
    BY <1>1, <2>1, <2>2, PredictStore DEF HasResult
  <2>4. PICK new \in Ids : new = Len(predictions')
    BY <2>3
  <2>5. SessionTypes' /\ OthersStay(t)
    <3>1. CASE available
      BY <2>1, <2>2, <2>4, <3>1
      DEF Inv, Types, SessionTypes, PerTask, Labels, OthersStay, SessionStays, HasResult
    <3>2. CASE ~available
      BY <2>1, <3>2 DEF Inv, Types, SessionTypes, PerTask, OthersStay, SessionStays
    <3> QED
      BY <3>1, <3>2
  <2>6. /\ job'[t] = "backtest" /\ todo'[t] = todo[t] \ {m} /\ loaded'[t] = Nothing
        /\ available => pc'[t] = "evaluate" /\ pred'[t] = new /\ against'[t] = m
        /\ ~available => pc'[t] = "replay"
    BY <1>1, <2>1, <2>2, <2>4 DEF Inv, Types, SessionTypes, PerTask
  <2>7. new \in Stored' /\ \A n \in todo[t] : HasResult(n)'
    BY <1>1, <2>2, <2>3, <2>4 DEF HasResult
  <2>8. Standing(t)'
    BY <2>6, <2>7 DEF Standing, HasResult
  <2>9. Drafted(t)' /\ LoadedOK(t)'
    BY <2>6 DEF Drafted, LoadedOK, Nothing
  <2> QED
    BY <2>3, <2>5, <2>8, <2>9 DEF SessionStep
<1> QED
  BY <1>3, <1>4

LEMMA ProceedSteps ==
  ASSUME Inv, IInv, NEW t \in Tasks, Proceed(t)
  PROVE  StoreStep /\ SessionStep(t)
BY SyncResultsSteps, FindUnevaluatedSteps, EachSteps, EvaluateSteps, InsertSteps,
   LoadPerformanceSteps, CommitSteps, MeasureSteps, LoadBinsSteps, SaveSteps, ReadActualSteps,
   LoadArchiveSteps, WriteArchiveSteps, ReplaySteps
DEF Proceed

LEMMA OutsideSteps ==
  ASSUME Inv, IInv, Outside
  PROVE  StoreStep /\ UNCHANGED sessionVars
<1>1. CASE ImportResult
  <2>1. PICK m, score, row :
          /\ m \in Ended /\ score \in Scores
          /\ row = [score |-> score, completed |-> now]
          /\ result' = [result EXCEPT ![m] = row]
    BY <1>1 DEF ImportResult
  <2>2. UNCHANGED <<predictions, storeVars, sessionVars>> /\ m \in Matches
    BY <1>1, <2>1 DEF ImportResult, Ended
  <2>3. row \in ResultRows /\ row # Nil
    BY <2>1, EvaluationAssumption DEF ResultRows, Inv, Types, ClockTypes
  <2>4. /\ result' \in [Matches -> ResultRows \cup {Nil}]
        /\ \A x \in Matches : result[x] # Nil => result'[x] # Nil
    BY <2>1, <2>3 DEF Inv, Types, StoreTypes
  <2> QED
    BY <2>2, <2>4, ResultStore DEF storeVars, Inv, Types, StoreTypes
<1>2. CASE RunPrediction
  BY <1>2, PredictStore DEF RunPrediction
<1>3. CASE SyncMatches
  <2>1. UNCHANGED <<predictionVars, evaluation, performance, calibration, archive, sessionVars>>
    BY <1>3 DEF SyncMatches
  <2>2. finished' \subseteq Matches
    BY <1>3 DEF SyncMatches, StatusOf, Inv, Types, StoreTypes
  <2> QED
    BY <2>1, <2>2, ResultStore DEF predictionVars, Inv, Types, StoreTypes
<1> QED
  BY <1>1, <1>2, <1>3 DEF Outside

-----------------------------------------------------------------------------
\* Every step.

LEMMA ClockFacts ==
  ASSUME Inv, IInv, Next
  PROVE  ClockTypes' /\ alone' \subseteq Tasks
<1>1. \A t \in Tasks : Begin(t) => events' = events \/ Occurs
  BY DEF Begin, SyncPostMatchResults, ApiSyncResults, Record, ApiEvaluate, ApiCalibrate,
         ApiArchive, Backtest, Open
<1>2. events' = events \/ Occurs
  BY <1>1 DEF Next, Tick, Outside, ImportResult, Step, Opens, GoesOn, Lose
<1>3. now' = now \/ (now < MaxTime /\ now' = now + 1)
  BY DEF Next, Tick, Outside, Step, Opens, GoesOn, Lose
<1>4. ClockTypes'
  BY <1>2, <1>3, EvaluationAssumption DEF Inv, Types, ClockTypes, Occurs, Times
<1>5. alone' \subseteq Tasks
  BY DEF Next, Tick, Outside, Step, Opens, GoesOn, Acts, Inv, Types
<1> QED
  BY <1>4, <1>5

\* What t does in any step of its own.
LEMMA StepSteps ==
  ASSUME Inv, IInv, NEW t \in Tasks, Step(t)
  PROVE  StoreStep /\ SessionStep(t)
<1>1. CASE Begin(t)
  BY <1>1, BeginSteps
<1>2. CASE Proceed(t)
  BY <1>2, ProceedSteps
<1>3. CASE Lose(t)
  BY <1>3, QuietStore, CloseSteps DEF Lose, Fail
<1> QED
  BY <1>1, <1>2, <1>3 DEF Step, Opens, GoesOn

LEMMA QuietSessions ==
  ASSUME Inv, IInv, StoreStep, UNCHANGED sessionVars
  PROVE  SessionTypes' /\ Sessions'
<1>1. SessionTypes'
  BY DEF sessionVars, Inv, Types, SessionTypes, PerTask
<1>2. \A t \in Tasks : SessionStays(t)
  BY DEF sessionVars, SessionStays
<1> QED
  BY <1>1, <1>2, SessionKept, StoredAreIds DEF StoreStep, Sessions, Inv, Types

LEMMA NextKeeps ==
  ASSUME Inv, IInv, [Next]_vars
  PROVE  Inv'
<1>1. CASE Tick \/ UNCHANGED vars
  <2>1. UNCHANGED <<predictionVars, storeVars>> /\ UNCHANGED sessionVars /\ alone' = alone
    BY <1>1 DEF Tick, vars
  <2>2. ClockTypes'
    BY <1>1, ClockFacts DEF Next, vars, Inv, Types, ClockTypes
  <2> QED
    BY <2>1, <2>2, QuietStore, QuietSessions DEF Inv, Types, StoreStep
<1>2. CASE Outside
  BY <1>2, ClockFacts, OutsideSteps, QuietSessions DEF Next, Inv, Types, StoreStep
<1>3. ASSUME NEW t \in Tasks, Step(t)
      PROVE  Inv'
  <2>1. StoreStep /\ SessionStep(t)
    BY <1>3, StepSteps
  <2>2. Sessions'
    BY <2>1, SessionsStep DEF StoreStep, SessionStep
  <2> QED
    BY <1>3, <2>1, <2>2, ClockFacts DEF Next, Inv, Types, StoreStep, SessionStep
<1> QED
  BY <1>1, <1>2, <1>3 DEF Next

LEMMA InitHolds == Init => Inv
<1> SUFFICES ASSUME Init PROVE Inv
  OBVIOUS
<1>1. result \in [Matches -> ResultRows \cup {Nil}]
  BY EvaluationAssumption DEF Init, ResultRows
<1>2. archive \in [Ids -> ArchiveRows \cup {Nil}]
  <2>1. ASSUME NEW p \in Stored PROVE ScoreOf(Predicted[p]) \in Scores \cup {Nil}
    BY <1>1, <2>1, InitialPredictions DEF ScoreOf, ResultRows
  <2>2. archive = [p \in Ids |->
                     IF p \in Stored THEN [actual |-> ScoreOf(Predicted[p])] ELSE Nil]
    BY DEF Init
  <2> QED
    BY <2>1, <2>2 DEF ArchiveRows
<1>3. ClockTypes /\ StoreTypes /\ SessionTypes /\ alone \subseteq Tasks
  BY <1>1, <1>2, EvaluationAssumption
  DEF Init, ClockTypes, StoreTypes, SessionTypes, PerTask, Times, Labels
<1>4. PredictionTypes
  <2>1. ASSUME NEW m, NEW known
        PROVE  LET r == PredictionOf(m, known)
               IN  /\ r.match = m
                   /\ r.status \in {"available", "not_available"}
                   /\ r.confidence \in {"low", "medium"}
                   /\ DOMAIN r.history \subseteq Matches
    BY HistoryFacts DEF PredictionOf, Confidence
  <2> QED
    BY <2>1, InitialPredictions DEF PredictionTypes
<1>5. RowsCount /\ EvaluationsOK
  BY DEF Init, RowsCount, EvaluationsOK
<1>6. Sessions
  BY DEF Init, Sessions, Standing, Drafted, LoadedOK, Nothing
<1> QED
  BY <1>3, <1>4, <1>5, <1>6 DEF Inv, Types

\* Whatever the sessions interleave, lose, overwrite and retry, the rows, the
\* sessions and what they are about to write stay consistent.
THEOREM RecordInvariant == Spec => []Inv
<1>1. Inv /\ IInv /\ [Next]_vars => Inv'
  BY NextKeeps
<1> QED
  BY <1>1, InitHolds, InductiveInvariant, PTL DEF Spec

\* The types of all rows and sessions.
THEOREM TypeCorrect == Spec => []TypeOK
BY RecordInvariant, TypesImplyTypeOK, PTL

\* Every column of model_performance and confidence_calibration counts stored
\* evaluations of available predictions of its competition and no others
\* (evaluation/service.py 54-59, calibration.py), whatever sessions fail or write
\* over parts of each other's rows.
THEOREM PerformanceCountsEvaluations == Spec => []SamplesAreEvaluations
<1>1. Inv => SamplesAreEvaluations
  BY DEF Inv, RowsCount, RowCounts, Counted, SamplesAreEvaluations
<1> QED
  BY <1>1, RecordInvariant, PTL

-----------------------------------------------------------------------------
\* Only a commit takes a session from there to measuring.
LEMMA MeasuresAfterCommit ==
  ASSUME Inv, IInv, [Next]_vars, NEW t \in Tasks, pc[t] = "commit", pc'[t] = "measure"
  PROVE  Commit(t) /\ ~Fail(t)
<1>1. pc' # pc
  OBVIOUS
<1>2. PICK u \in Tasks : Step(u)
  BY <1>1, OutsideSteps DEF Next, Tick, sessionVars, vars
<1>3. u = t
  BY <1>2, StepSteps DEF SessionStep, OthersStay, SessionStays
<1>4. ~Begin(t)
  BY DEF Begin, SyncPostMatchResults, ApiSyncResults, Record, ApiEvaluate, ApiCalibrate,
         ApiArchive, Backtest, Open
<1>5. ~Fail(t)
  BY DEF Fail, Close, Goto, Inv, Types, SessionTypes
<1>6. Proceed(t)
  BY <1>2, <1>3, <1>4, <1>5 DEF Step, Opens, GoesOn, Lose
<1> QED
  BY <1>5, <1>6
  DEF Proceed, SyncResults, FindUnevaluated, Each, Evaluate, Insert, LoadPerformance, Measure,
      LoadBins, Save, ReadActual, LoadArchive, WriteArchive, Replay

\* The commit that stores an evaluation stores a performance row that counts it, in
\* every column but those that another session has written since this one loaded the
\* row, which may stay: the samples are queried after the evaluation is flushed, only
\* changed columns are written, and a conflict undoes both (evaluation/service.py
\* 54-59, 97-119).
THEOREM CommitsCountTheEvaluation == Spec => EvaluationIsCounted
<1>1. ASSUME Inv, IInv, [Next]_vars, NEW t \in Tasks, pc[t] = "commit", pc'[t] = "measure"
      PROVE  LET c == CompetitionOfPrediction(pred[t])
             IN  /\ performance'[c] # Nil
                 /\ \A column \in Columns :
                      \/ \E s \in performance'[c][column] : s[1] = pred[t]
                      \/ /\ draft[t][c].old # Nil
                         /\ performance[c][column] # draft[t][c].old[column]
                         /\ performance'[c][column] = performance[c][column]
  <2> PICK p, c, new, current, row :
        /\ p = pred[t] /\ c = CompetitionOfPrediction(p) /\ new = draft[t][c]
        /\ current = performance[c] /\ row = StoredRow(new, current)
    OBVIOUS
  <2>1. performance' = StoredRows(draft[t], performance)
    BY <1>1, MeasuresAfterCommit DEF Commit
  <2>2. DraftCounts(t, {p}) /\ Found(t, performance)
    BY <1>1 DEF Inv, Sessions, Drafted
  <2>3. c \in DOMAIN draft[t] /\ \E s \in new.samples : s[1] = p
    BY <1>1 DEF Inv, Sessions, Drafted
  <2>4. /\ c \in Competitions /\ new.samples \in SampleSets
        /\ new.old # Nil => current # Nil
    BY <2>2, <2>3 DEF DraftCounts, Counted, Found
  <2>5. new.old # Nil => current \in Rows
    BY <1>1, <2>4 DEF Inv, Types, StoreTypes
  <2>6. /\ row \in Rows
        /\ \A column \in Columns :
             \/ row[column] = new.samples
             \/ /\ new.old # Nil /\ current[column] # new.old[column]
                /\ row[column] = current[column]
    BY <2>4, <2>5, StoredRowFacts
  <2>7. performance'[c] = row
    BY <2>1, <2>3, <2>4 DEF StoredRows
  <2>8. row # Nil
    BY <2>6, EvaluationAssumption
  <2> QED
    BY <2>3, <2>6, <2>7, <2>8
<1>2. Inv /\ IInv /\ [Next]_vars =>
        \A t \in Tasks :
          (pc[t] = "commit" /\ pc'[t] = "measure") =>
            LET c == CompetitionOfPrediction(pred[t])
            IN  /\ performance'[c] # Nil
                /\ \A column \in Columns :
                     \/ \E s \in performance'[c][column] : s[1] = pred[t]
                     \/ /\ draft[t][c].old # Nil
                        /\ performance[c][column] # draft[t][c].old[column]
                        /\ performance'[c][column] = performance[c][column]
  BY <1>1
<1> QED
  BY <1>2, RecordInvariant, InductiveInvariant, PTL DEF Spec, EvaluationIsCounted

-----------------------------------------------------------------------------
\* A session that no other overlaps.

LEMMA IdleIsSerial ==
  ASSUME Inv', NEW t \in Tasks, pc'[t] = "idle"
  PROVE  Undisturbed(t)' /\ Archiving(t)'
BY DEF Inv, Sessions, Standing, Undisturbed, Archiving

\* While it only reads results, there is nothing else it has to keep up with.
LEMMA ReadingIsSerial ==
  ASSUME NEW t \in Tasks, OthersStay(t), \A u \in Tasks \ {t} : pc[u] = "idle",
         pc'[t] \notin {"rows", "commit", "bins", "save", "archive", "load", "write"},
         pc'[t] = "measure" => pred'[t] = Nil,
         \A m \in DOMAIN loaded'[t] : loaded'[t][m] = result'[m]
  PROVE  Undisturbed(t)' /\ Archiving(t)'
BY DEF OthersStay, SessionStays, Undisturbed, Archiving

LEMMA BeginIsSerial ==
  ASSUME Inv, IInv, Inv', NEW t \in Tasks, Begin(t), \A u \in Tasks : pc[u] = "idle"
  PROVE  Undisturbed(t)' /\ Archiving(t)'
<1>1. OthersStay(t)
  BY BeginSteps DEF SessionStep
<1>2. DOMAIN loaded[t] = {}
  BY DEF Inv, Sessions, Standing
<1>3. CASE SyncPostMatchResults(t) \/ ApiSyncResults(t) \/ ApiEvaluate(t) \/ ApiCalibrate(t)
  <2>1. /\ pc'[t] \in {"days", "evaluate", "measure"} /\ loaded' = loaded
        /\ pc'[t] = "measure" => pred'[t] = Nil
    BY <1>3 DEF SyncPostMatchResults, ApiSyncResults, ApiEvaluate, ApiCalibrate, Open, Goto,
                Inv, Types, SessionTypes
  <2> QED
    BY <1>1, <1>2, <2>1, ReadingIsSerial
<1>4. CASE Backtest(t)
  <2>1. PICK played \in SUBSET Matches :
          /\ pc' = [pc EXCEPT ![t] = "replay"] /\ UNCHANGED <<predictionVars, storeVars>>
          /\ loaded' = [loaded EXCEPT ![t] = [m \in played |-> result[m]]]
    BY <1>4 DEF Backtest, Open, Goto
  <2>2. /\ pc'[t] = "replay" /\ loaded'[t] = [m \in played |-> result[m]] /\ result' = result
    BY <2>1 DEF predictionVars, Inv, Types, SessionTypes, PerTask
  <2> QED
    BY <1>1, <2>2, ReadingIsSerial
<1>5. CASE Record(t) \/ ApiArchive(t)
  <2>1. /\ pc' = [pc EXCEPT ![t] = "archive"] /\ UNCHANGED predictions /\ loaded' = loaded
        /\ \/ job' = [job EXCEPT ![t] = "archive"]
           \/ \E m : /\ todo' = [todo EXCEPT ![t] = {p \in Stored : predictions[p].match = m}]
                     /\ against' = [against EXCEPT ![t] = m]
    BY <1>5 DEF Record, ApiArchive, Open, Goto, predictionVars
  <2>2. pc'[t] = "archive"
    BY <2>1 DEF Inv, Types, SessionTypes
  <2>3. job'[t] = "record" => {p \in Stored : predictions[p].match = against'[t]} \subseteq todo'[t]
    BY <2>1 DEF Inv, Types, SessionTypes, PerTask
  <2>4. Archiving(t)'
    BY <2>1, <2>2, <2>3 DEF Archiving, Stored
  <2>5. Undisturbed(t)'
    BY <1>1, <1>2, <2>1, <2>2 DEF Undisturbed, OthersStay, SessionStays
  <2> QED
    BY <2>4, <2>5
<1> QED
  BY <1>3, <1>4, <1>5 DEF Begin

LEMMA KnownIsResult ==
  ASSUME Inv, NEW t \in Tasks, Undisturbed(t)
  PROVE  Known(t) = result
BY DEF Undisturbed, Known, Inv, Types, StoreTypes, Sessions, LoadedOK

LEMMA InsertIsSerial ==
  ASSUME Inv, IInv, NEW t \in Tasks, Insert(t), Undisturbed(t), pc'[t] # "idle",
         OthersStay(t), \A u \in Tasks \ {t} : pc[u] = "idle"
  PROVE  Undisturbed(t)' /\ Archiving(t)'
<1> PICK c, new : /\ c = CompetitionOfPrediction(pred[t])
                  /\ new = Refreshed({c}, Seen(t), result)
  OBVIOUS
<1>1. ~Fail(t)
  BY DEF Fail, Close, Goto, Inv, Types, SessionTypes
<1>2. /\ pc' = [pc EXCEPT ![t] = "rows"] /\ draft' = [draft EXCEPT ![t] = new]
      /\ UNCHANGED <<storeVars, job, todo, pred, against, loaded, predictionVars>>
  BY <1>1, KnownIsResult DEF Insert, Goto
<1>3. pc'[t] = "rows" /\ draft'[t] = new
  BY <1>2 DEF Inv, Types, SessionTypes, PerTask
<1>4. UNCHANGED <<predictions, result, evaluation, performance>>
  BY <1>2 DEF storeVars, predictionVars
<1>5. CompetitionOfPrediction(pred[t])' = c
  BY <1>2, <1>4 DEF CompetitionOfPrediction
<1>6. Seen(t)' = Seen(t)
  BY <1>2, <1>4 DEF Seen, Evaluated, Known
<1>7. new = Refreshed({CompetitionOfPrediction(pred[t])}, Seen(t), result)'
  BY <1>4, <1>5, <1>6 DEF Refreshed, Samples, CompetitionOfPrediction, Stored
<1>8. Undisturbed(t)'
  BY <1>2, <1>3, <1>4, <1>7 DEF Undisturbed, OthersStay, SessionStays
<1> QED
  BY <1>3, <1>8 DEF Archiving

LEMMA LoadPerformanceIsSerial ==
  ASSUME Inv, IInv, NEW t \in Tasks, LoadPerformance(t), Undisturbed(t),
         OthersStay(t), \A u \in Tasks \ {t} : pc[u] = "idle"
  PROVE  Undisturbed(t)' /\ Archiving(t)'
<1> PICK c, new, drafted : /\ c = CompetitionOfPrediction(pred[t])
                           /\ new = Refreshed({c}, Seen(t), result)
                           /\ drafted = Loaded(new, performance)
  OBVIOUS
<1>1. /\ pc[t] = "rows" /\ pc' = [pc EXCEPT ![t] = "commit"]
      /\ draft' = [draft EXCEPT ![t] = Loaded(draft[t], performance)]
      /\ UNCHANGED <<predictionVars, storeVars>>
      /\ UNCHANGED <<job, todo, pred, against, loaded>>
  BY DEF LoadPerformance, Goto
<1>2. draft[t] = new
  BY <1>1 DEF Undisturbed
<1>3. pc'[t] = "commit" /\ draft'[t] = drafted
  BY <1>1, <1>2 DEF Inv, Types, SessionTypes, PerTask
<1>4. UNCHANGED <<predictions, result, evaluation, performance>>
  BY <1>1 DEF storeVars, predictionVars
<1>5. CompetitionOfPrediction(pred[t])' = c
  BY <1>1, <1>4 DEF CompetitionOfPrediction
<1>6. Seen(t)' = Seen(t)
  BY <1>1, <1>4 DEF Seen, Evaluated, Known
<1>7. new = Refreshed({CompetitionOfPrediction(pred[t])}, Seen(t), result)'
  BY <1>4, <1>5, <1>6 DEF Refreshed, Samples, CompetitionOfPrediction, Stored
<1>8. drafted = Loaded(Refreshed({CompetitionOfPrediction(pred[t])}, Seen(t), result),
                       performance)'
  BY <1>4, <1>7 DEF Loaded
<1>9. Undisturbed(t)'
  BY <1>1, <1>3, <1>4, <1>8 DEF Undisturbed, OthersStay, SessionStays
<1> QED
  BY <1>3, <1>9 DEF Archiving

\* What the commit stores is what the evaluations say.
LEMMA CommitIsSerial ==
  ASSUME Inv, IInv, NEW t \in Tasks, Commit(t), Undisturbed(t), pc'[t] # "idle",
         OthersStay(t), \A u \in Tasks \ {t} : pc[u] = "idle"
  PROVE  Undisturbed(t)' /\ Archiving(t)'
<1> PICK p, c, new, found : /\ p = pred[t] /\ c = CompetitionOfPrediction(p)
                            /\ new = Refreshed({c}, Seen(t), result)
                            /\ found = Samples(c, Seen(t), result)
  OBVIOUS
<1>1. ~Fail(t)
  BY DEF Fail, Close, Goto, Inv, Types, SessionTypes
<1>2. /\ pc[t] = "commit"
      /\ evaluation' = [evaluation EXCEPT ![pred[t]] = Evaluated(t)]
      /\ performance' = StoredRows(draft[t], performance)
      /\ pc' = [pc EXCEPT ![t] = "measure"] /\ loaded' = [loaded EXCEPT ![t] = Nothing]
      /\ UNCHANGED <<pred, predictionVars>>
  BY <1>1 DEF Commit, Goto
<1>3. pc'[t] = "measure" /\ loaded'[t] = Nothing
  BY <1>2 DEF Inv, Types, SessionTypes, PerTask
<1>4. UNCHANGED <<predictions, result>>
  BY <1>2 DEF predictionVars
<1>5. evaluation' = Seen(t)
  BY <1>2 DEF Seen
<1>6. c \in DOMAIN draft[t] /\ c \in Competitions
  BY <1>2 DEF Inv, Sessions, Drafted, DraftCounts
<1>7. draft[t] = Loaded(new, performance)
  BY <1>2 DEF Undisturbed
<1>8. draft[t][c].samples = found /\ draft[t][c].old = performance[c]
  BY <1>6, <1>7, RefreshedFacts, LoadedFacts
<1>9. performance'[c] = RowOf(found)
  <2>1. PICK d, current : d = draft[t][c] /\ current = performance[c]
    OBVIOUS
  <2>2. StoredRow(d, current) = RowOf(d.samples)
    BY <1>8, <2>1, StoredRowOf
  <2> QED
    BY <1>2, <1>6, <1>8, <2>1, <2>2 DEF StoredRows
<1>10. CompetitionOfPrediction(pred[t])' = c
  BY <1>2, <1>4 DEF CompetitionOfPrediction
<1>11. found = Samples(CompetitionOfPrediction(pred[t]), evaluation, result)'
  BY <1>4, <1>5, <1>10 DEF Samples, CompetitionOfPrediction, Stored
<1>12. performance'[c] = RowOf(Samples(CompetitionOfPrediction(pred[t]), evaluation, result))'
  BY <1>9, <1>11 DEF RowOf
<1>13. Undisturbed(t)'
  BY <1>3, <1>10, <1>12 DEF Undisturbed, OthersStay, SessionStays, Nothing
<1> QED
  BY <1>3, <1>13 DEF Archiving

\* Neither its query of the evaluations to be calibrated nor the bins it loads change
\* what it knows of the performance row.
LEMMA PerformanceIsKnown ==
  ASSUME NEW t \in Tasks, UNCHANGED <<predictions, result, evaluation, performance, pred>>,
         NEW c, c = CompetitionOfPrediction(pred[t]),
         performance[c] = RowOf(Samples(c, evaluation, result))
  PROVE  /\ CompetitionOfPrediction(pred[t])' = c
         /\ performance'[c] = RowOf(Samples(CompetitionOfPrediction(pred[t]), evaluation, result))'
         /\ Refreshed({c}, evaluation, result) =
              Refreshed({CompetitionOfPrediction(pred[t])}, evaluation, result)'
<1>1. CompetitionOfPrediction(pred[t])' = c
  BY DEF CompetitionOfPrediction
<1>2. Samples(c, evaluation, result) =
        Samples(CompetitionOfPrediction(pred[t]), evaluation, result)'
  BY <1>1 DEF Samples, CompetitionOfPrediction, Stored
<1>3. performance'[c] = RowOf(Samples(CompetitionOfPrediction(pred[t]), evaluation, result))'
  BY <1>2 DEF RowOf
<1>4. Refreshed({c}, evaluation, result) =
        Refreshed({CompetitionOfPrediction(pred[t])}, evaluation, result)'
  BY <1>1 DEF Refreshed, Samples, CompetitionOfPrediction, Stored
<1> QED
  BY <1>1, <1>3, <1>4

LEMMA MeasureIsSerial ==
  ASSUME Inv, IInv, NEW t \in Tasks, Measure(t), Undisturbed(t),
         OthersStay(t), \A u \in Tasks \ {t} : pc[u] = "idle"
  PROVE  Undisturbed(t)' /\ Archiving(t)'
<1> PICK c, new : /\ c = CompetitionOfPrediction(pred[t])
                  /\ new = Refreshed({c}, evaluation, result)
  OBVIOUS
<1>1. /\ pc[t] = "measure" /\ pc' = [pc EXCEPT ![t] = "bins"]
      /\ UNCHANGED <<predictionVars, storeVars>>
      /\ UNCHANGED <<job, todo, pred, against, loaded>>
  BY DEF Measure, Goto
<1>2. pc'[t] = "bins"
  BY <1>1 DEF Inv, Types, SessionTypes
<1>3. UNCHANGED <<predictions, result, evaluation, performance, calibration>>
  BY <1>1 DEF predictionVars, storeVars
<1>4. ASSUME pred[t] # Nil
      PROVE  /\ CompetitionOfPrediction(pred[t])' = c
             /\ performance'[c] =
                  RowOf(Samples(CompetitionOfPrediction(pred[t]), evaluation, result))'
             /\ draft'[t] = Refreshed({CompetitionOfPrediction(pred[t])}, evaluation, result)'
  <2>1. performance[c] = RowOf(Samples(c, evaluation, result))
    BY <1>1, <1>4 DEF Undisturbed
  <2>2. draft'[t] = new
    BY <1>4 DEF Measure, Inv, Types, SessionTypes, PerTask
  <2> QED
    BY <1>1, <1>3, <2>1, <2>2, PerformanceIsKnown
<1>5. Undisturbed(t)'
  BY <1>1, <1>2, <1>3, <1>4 DEF Undisturbed, OthersStay, SessionStays
<1> QED
  BY <1>2, <1>5 DEF Archiving

LEMMA LoadBinsIsSerial ==
  ASSUME Inv, IInv, NEW t \in Tasks, LoadBins(t), Undisturbed(t),
         OthersStay(t), \A u \in Tasks \ {t} : pc[u] = "idle"
  PROVE  Undisturbed(t)' /\ Archiving(t)'
<1> PICK c, new, drafted : /\ c = CompetitionOfPrediction(pred[t])
                           /\ new = Refreshed({c}, evaluation, result)
                           /\ drafted = Loaded(new, calibration)
  OBVIOUS
<1>1. /\ pc[t] = "bins" /\ pc' = [pc EXCEPT ![t] = "save"]
      /\ draft' = [draft EXCEPT ![t] = Loaded(draft[t], calibration)]
      /\ UNCHANGED <<predictionVars, storeVars>>
      /\ UNCHANGED <<job, todo, pred, against, loaded>>
  BY DEF LoadBins, Goto
<1>2. pc'[t] = "save" /\ draft'[t] = Loaded(draft[t], calibration)
  BY <1>1 DEF Inv, Types, SessionTypes, PerTask
<1>3. UNCHANGED <<predictions, result, evaluation, performance, calibration>>
  BY <1>1 DEF predictionVars, storeVars
<1>4. ASSUME pred[t] # Nil
      PROVE  /\ CompetitionOfPrediction(pred[t])' = c
             /\ performance'[c] =
                  RowOf(Samples(CompetitionOfPrediction(pred[t]), evaluation, result))'
             /\ draft'[t] = Loaded(Refreshed({CompetitionOfPrediction(pred[t])}, evaluation,
                                             result), calibration)'
  <2>1. performance[c] = RowOf(Samples(c, evaluation, result)) /\ draft[t] = new
    BY <1>1, <1>4 DEF Undisturbed
  <2>2. /\ CompetitionOfPrediction(pred[t])' = c
        /\ performance'[c] =
             RowOf(Samples(CompetitionOfPrediction(pred[t]), evaluation, result))'
        /\ new = Refreshed({CompetitionOfPrediction(pred[t])}, evaluation, result)'
    BY <1>1, <1>3, <2>1, PerformanceIsKnown
  <2>3. drafted = Loaded(Refreshed({CompetitionOfPrediction(pred[t])}, evaluation, result),
                         calibration)'
    BY <1>3, <2>2 DEF Loaded
  <2> QED
    BY <1>2, <2>1, <2>2, <2>3
<1>5. Undisturbed(t)'
  BY <1>1, <1>2, <1>3, <1>4 DEF Undisturbed, OthersStay, SessionStays
<1> QED
  BY <1>2, <1>5 DEF Archiving

LEMMA ReadActualIsSerial ==
  ASSUME Inv, IInv, NEW t \in Tasks, ReadActual(t), Undisturbed(t), Archiving(t),
         pc'[t] # "idle", OthersStay(t), \A u \in Tasks \ {t} : pc[u] = "idle"
  PROVE  Undisturbed(t)' /\ Archiving(t)'
<1>1. todo[t] # {}
  BY DEF ReadActual, Close, Goto, Inv, Types, SessionTypes
<1>2. PICK p, new :
        /\ p \in todo[t] /\ new = [actual |-> ScoreOf(predictions[p].match)]
        /\ todo' = [todo EXCEPT ![t] = @ \ {p}]
        /\ pred' = [pred EXCEPT ![t] = p]
        /\ draft' = [draft EXCEPT ![t] = new]
        /\ pc' = [pc EXCEPT ![t] = "load"] /\ UNCHANGED <<job, against, loaded>>
  BY <1>1 DEF ReadActual, Goto
<1>3. UNCHANGED <<result, predictions, archive>> /\ pc[t] = "archive"
  BY DEF ReadActual, predictionVars, storeVars
<1>4. /\ pc'[t] = "load" /\ todo'[t] = todo[t] \ {p} /\ pred'[t] = p
      /\ draft'[t].actual = ScoreOf(predictions[p].match)
  BY <1>2 DEF Inv, Types, SessionTypes, PerTask
<1>5. Undisturbed(t)'
  BY <1>2, <1>3, <1>4 DEF Undisturbed, OthersStay, SessionStays
<1>6. Archiving(t)'
  BY <1>2, <1>3, <1>4 DEF Archiving, ScoreOf, Stored
<1> QED
  BY <1>5, <1>6

LEMMA LoadArchiveIsSerial ==
  ASSUME Inv, IInv, NEW t \in Tasks, LoadArchive(t), Undisturbed(t), Archiving(t),
         OthersStay(t), \A u \in Tasks \ {t} : pc[u] = "idle"
  PROVE  Undisturbed(t)' /\ Archiving(t)'
<1>1. PICK new :
        /\ new = [actual |-> draft[t].actual, old |-> archive[pred[t]]]
        /\ draft' = [draft EXCEPT ![t] = new]
        /\ pc[t] = "load" /\ pc' = [pc EXCEPT ![t] = "write"]
        /\ UNCHANGED <<job, todo, pred, against, loaded>>
  BY DEF LoadArchive, Goto
<1>2. UNCHANGED <<result, predictions, archive>>
  BY DEF LoadArchive, predictionVars, storeVars
<1>3. /\ pc'[t] = "write" /\ draft'[t].actual = draft[t].actual
      /\ draft'[t].old = archive[pred[t]]
  BY <1>1 DEF Inv, Types, SessionTypes, PerTask
<1>4. Undisturbed(t)'
  BY <1>1, <1>2, <1>3 DEF Undisturbed, OthersStay, SessionStays
<1>5. Archiving(t)'
  BY <1>1, <1>2, <1>3 DEF Archiving, ScoreOf, Stored
<1> QED
  BY <1>4, <1>5

\* The row is the one loaded, so that it has the score read afterwards.
LEMMA WriteArchiveIsSerial ==
  ASSUME Inv, IInv, NEW t \in Tasks, WriteArchive(t), Undisturbed(t), Archiving(t),
         pc'[t] # "idle", OthersStay(t), \A u \in Tasks \ {t} : pc[u] = "idle"
  PROVE  Undisturbed(t)' /\ Archiving(t)'
<1>1. ~Fail(t)
  BY DEF Fail, Close, Goto, Inv, Types, SessionTypes
<1>2. /\ archive' = [archive EXCEPT ![pred[t]] = Archived(draft[t].old, draft[t].actual, @)]
      /\ pc[t] = "write" /\ pc' = [pc EXCEPT ![t] = "archive"]
      /\ UNCHANGED <<job, todo, against, loaded, predictionVars>>
  BY <1>1 DEF WriteArchive, Goto
<1>3. UNCHANGED <<result, predictions>>
  BY <1>2 DEF predictionVars
<1>4. pc'[t] = "archive"
  BY <1>2 DEF Inv, Types, SessionTypes
<1>5. pred[t] \in Stored /\ pred[t] \in Ids /\ Stored \subseteq Ids
  BY <1>2, StoredAreIds DEF Inv, Types, Sessions, Standing
<1>6. /\ archive'[pred[t]] = [actual |-> ScoreOf(predictions[pred[t]].match)]
      /\ \A p \in Ids \ {pred[t]} : archive'[p] = archive[p]
  BY <1>2, <1>5 DEF Archiving, Archived, Inv, Types, StoreTypes
<1>7. Undisturbed(t)'
  BY <1>2, <1>3, <1>4 DEF Undisturbed, OthersStay, SessionStays
<1>8. Archiving(t)'
  BY <1>2, <1>3, <1>4, <1>5, <1>6 DEF Archiving, ScoreOf, Stored
<1> QED
  BY <1>7, <1>8

LEMMA ProceedIsSerial ==
  ASSUME Inv, IInv, Inv', NEW t \in Tasks, Proceed(t), pc[t] # "idle",
         Undisturbed(t), Archiving(t)
  PROVE  Undisturbed(t)' /\ Archiving(t)'
<1>1. SUFFICES ASSUME pc'[t] # "idle" PROVE Undisturbed(t)' /\ Archiving(t)'
  BY IdleIsSerial
<1>2. OthersStay(t)
  BY ProceedSteps DEF SessionStep
<1>3. \A u \in Tasks \ {t} : pc[u] = "idle"
  BY DEF Undisturbed
<1>4. \A m \in DOMAIN loaded[t] : loaded[t][m] = result[m]
  BY DEF Undisturbed
<1>5. ~Close(t)
  BY <1>1 DEF Close, Goto, Inv, Types, SessionTypes
<1>6. CASE SyncResults(t)
  <2>1. pc'[t] = "days"
    BY <1>5, <1>6 DEF SyncResults
  <2>2. DOMAIN loaded'[t] = {}
    BY <2>1 DEF Inv, Sessions, Standing
  <2> QED
    BY <1>2, <1>3, <2>1, <2>2, ReadingIsSerial
<1>7. CASE FindUnevaluated(t)
  <2>1. PICK ms : /\ pc' = [pc EXCEPT ![t] = "each"]
                  /\ loaded' = [loaded EXCEPT ![t] = [m \in ms |-> result[m]]]
                  /\ UNCHANGED predictionVars
    BY <1>7 DEF FindUnevaluated, Goto
  <2>2. pc'[t] = "each" /\ loaded'[t] = [m \in ms |-> result[m]] /\ result' = result
    BY <2>1 DEF predictionVars, Inv, Types, SessionTypes, PerTask
  <2> QED
    BY <1>2, <1>3, <2>2, ReadingIsSerial
<1>8. CASE Each(t)
  <2>1. /\ pc' = [pc EXCEPT ![t] = "evaluate"] /\ loaded' = loaded
        /\ UNCHANGED predictionVars
    BY <1>5, <1>8 DEF Each, Goto
  <2>2. pc'[t] = "evaluate" /\ result' = result
    BY <2>1 DEF predictionVars, Inv, Types, SessionTypes
  <2> QED
    BY <1>2, <1>3, <1>4, <2>1, <2>2, ReadingIsSerial
<1>9. CASE Evaluate(t)
  <2>1. CASE Return(t)
    <3>1. /\ pc' = [pc EXCEPT ![t] = IF job[t] = "results" THEN "each" ELSE "replay"]
          /\ loaded' = loaded /\ UNCHANGED predictionVars
      BY <1>5, <1>9, <2>1 DEF Return, Evaluate, Goto
    <3>2. pc'[t] \in {"each", "replay"} /\ result' = result
      BY <3>1 DEF predictionVars, Inv, Types, SessionTypes
    <3> QED
      BY <1>2, <1>3, <1>4, <3>1, <3>2, ReadingIsSerial
  <2>2. CASE ~Return(t)
    <3>1. PICK ms :
            /\ pc' = [pc EXCEPT ![t] = "insert"]
            /\ loaded' = [loaded EXCEPT ![t] = [m \in ms |-> Known(t)[m]]]
            /\ UNCHANGED predictionVars
      BY <1>9, <2>2 DEF Evaluate, Goto
    <3>2. pc'[t] = "insert" /\ loaded'[t] = [m \in ms |-> result[m]] /\ result' = result
      BY <3>1, KnownIsResult DEF predictionVars, Inv, Types, SessionTypes, PerTask
    <3> QED
      BY <1>2, <1>3, <3>2, ReadingIsSerial
  <2> QED
    BY <2>1, <2>2
<1>10. CASE Save(t)
  <2>1. Return(t) /\ UNCHANGED predictionVars
    BY <1>5, <1>10 DEF Save, Fail
  <2>2. /\ pc' = [pc EXCEPT ![t] = IF job[t] = "results" THEN "each" ELSE "replay"]
        /\ loaded' = loaded
    BY <1>5, <2>1 DEF Return, Goto
  <2>3. pc'[t] \in {"each", "replay"} /\ result' = result
    BY <2>1, <2>2 DEF predictionVars, Inv, Types, SessionTypes
  <2> QED
    BY <1>2, <1>3, <1>4, <2>2, <2>3, ReadingIsSerial
<1>11. CASE Replay(t)
  <2>1. /\ pc[t] = "replay"
        /\ pc' = [pc EXCEPT ![t] = "evaluate"] \/ UNCHANGED pc
        /\ loaded' = [loaded EXCEPT ![t] = Nothing]
    BY <1>5, <1>11 DEF Replay, Goto
  <2>2. pc'[t] \in {"evaluate", "replay"} /\ loaded'[t] = Nothing
    BY <1>11, <2>1 DEF Replay, Inv, Types, SessionTypes, PerTask
  <2> QED
    BY <1>2, <1>3, <2>2, ReadingIsSerial DEF Nothing
<1> QED
  BY <1>1, <1>2, <1>3, <1>6, <1>7, <1>8, <1>9, <1>10, <1>11, InsertIsSerial,
     LoadPerformanceIsSerial, CommitIsSerial, MeasureIsSerial, LoadBinsIsSerial,
     ReadActualIsSerial, LoadArchiveIsSerial, WriteArchiveIsSerial DEF Proceed

LEMMA SerialKeeps ==
  ASSUME Inv, IInv, Inv', Serial, [Next]_vars
  PROVE  Serial'
<1>1. CASE Tick \/ UNCHANGED vars
  <2>1. UNCHANGED <<predictionVars, storeVars, sessionVars, alone>>
    BY <1>1 DEF Tick, vars
  <2>2. UNCHANGED <<result, predictions, evaluation, performance, calibration, archive, job,
                    pc, todo, pred, against, loaded, draft, alone>>
    BY <2>1 DEF predictionVars, storeVars, sessionVars
  <2>3. ASSUME NEW t \in alone
        PROVE  Undisturbed(t)' /\ Archiving(t)'
    <3>1. Archiving(t)'
      BY <2>2 DEF Serial, Archiving, Stored, ScoreOf
    <3>2. PICK c : c = CompetitionOfPrediction(pred[t])
      OBVIOUS
    <3>3. CompetitionOfPrediction(pred[t])' = c
      BY <2>2, <3>2 DEF CompetitionOfPrediction
    <3>4. Seen(t)' = Seen(t)
      BY <2>2 DEF Seen, Evaluated, Known
    <3>5. /\ Refreshed({CompetitionOfPrediction(pred[t])}, Seen(t), result)' =
               Refreshed({c}, Seen(t), result)
          /\ Refreshed({CompetitionOfPrediction(pred[t])}, evaluation, result)' =
               Refreshed({c}, evaluation, result)
      BY <2>2, <3>3, <3>4 DEF Refreshed, Samples, CompetitionOfPrediction, Stored
    <3>6. RowOf(Samples(CompetitionOfPrediction(pred[t]), evaluation, result))' =
            RowOf(Samples(c, evaluation, result))
      BY <2>2, <3>3 DEF RowOf, Samples, CompetitionOfPrediction, Stored
    <3>7. /\ Loaded(Refreshed({CompetitionOfPrediction(pred[t])}, Seen(t), result),
                    performance)' =
               Loaded(Refreshed({c}, Seen(t), result), performance)
          /\ Loaded(Refreshed({CompetitionOfPrediction(pred[t])}, evaluation, result),
                    calibration)' =
               Loaded(Refreshed({c}, evaluation, result), calibration)
      BY <2>2, <3>5 DEF Loaded
    <3>8. Undisturbed(t)
      BY DEF Serial
    <3>9. Undisturbed(t)'
      BY <2>2, <3>2, <3>3, <3>5, <3>6, <3>7, <3>8 DEF Undisturbed
    <3> QED
      BY <3>1, <3>9
  <2> QED
    BY <2>2, <2>3 DEF Serial
<1>2. CASE Outside
  <2>1. \A t \in alone' : t \in Tasks /\ pc'[t] = "idle"
    BY <1>2, OutsideSteps DEF Outside, sessionVars
  <2> QED
    BY <2>1, IdleIsSerial DEF Serial
<1>3. ASSUME NEW t \in Tasks, Step(t)
      PROVE  Serial'
  <2> SUFFICES ASSUME NEW u \in alone', pc'[u] # "idle"
               PROVE  Undisturbed(u)' /\ Archiving(u)'
    BY <1>3, IdleIsSerial DEF Serial, Step, Opens, GoesOn, Acts
  <2>1. /\ u = t
        /\ IF pc[t] = "idle" THEN \A v \in Tasks : pc[v] = "idle" ELSE t \in alone
    BY <1>3 DEF Step, Opens, GoesOn, Acts
  <2>2. ~Lose(t)
    BY <2>1 DEF Lose, Fail, Close, Goto, Inv, Types, SessionTypes
  <2>3. CASE Begin(t)
    <3>1. pc[t] = "idle"
      BY <2>3 DEF Begin, SyncPostMatchResults, ApiSyncResults, Record, ApiEvaluate,
                  ApiCalibrate, ApiArchive, Backtest, Open
    <3> QED
      BY <2>1, <2>3, <3>1, BeginIsSerial
  <2>4. CASE Proceed(t)
    <3>1. pc[t] # "idle"
      BY <2>4 DEF Proceed, SyncResults, FindUnevaluated, Each, Evaluate, Insert,
                  LoadPerformance, Commit, Measure, LoadBins, Save, ReadActual, LoadArchive,
                  WriteArchive, Replay
    <3> QED
      BY <2>1, <2>4, <3>1, ProceedIsSerial DEF Serial
  <2> QED
    BY <1>3, <2>2, <2>3, <2>4 DEF Step, Opens, GoesOn
<1> QED
  BY <1>1, <1>2, <1>3 DEF Next

\* A session that no other has overlapped works with what the tables say.
THEOREM SerialInvariant == Spec => []Serial
<1>1. Init => Serial
  BY DEF Init, Serial, Undisturbed, Archiving, Nothing
<1>2. Inv /\ IInv /\ Inv' /\ Serial /\ [Next]_vars => Serial'
  BY SerialKeeps
<1> QED
  BY <1>1, <1>2, RecordInvariant, InductiveInvariant, PTL DEF Spec

\* A recorded result is in the archive of every prediction of its match once the record
\* has gone through them, if no other session overlapped it (results.py 37-42), however
\* many predictions there are and whatever their archives said before.
THEOREM RecordedResultIsArchived == Spec => []SerialArchiveIsCurrent
<1>1. Inv /\ Serial => SerialArchiveIsCurrent
  BY DEF Serial, Archiving, SerialArchiveIsCurrent
<1> QED
  BY <1>1, RecordInvariant, SerialInvariant, PTL

\* Where no other session can have inserted them, saving the bins does not conflict.
LEMMA SaveIsSerial ==
  ASSUME Inv, IInv, NEW t \in Tasks, Save(t), Undisturbed(t), pred[t] # Nil
  PROVE  LET c == CompetitionOfPrediction(pred[t])
         IN  /\ performance'[c] = RowOf(Samples(c, evaluation, result))
             /\ calibration'[c] = RowOf(Samples(c, evaluation, result))
<1> PICK c, found, new : /\ c = CompetitionOfPrediction(pred[t])
                         /\ found = Samples(c, evaluation, result)
                         /\ new = Refreshed({c}, evaluation, result)
  OBVIOUS
<1>1. pc[t] = "save"
  BY DEF Save
<1>2. performance[c] = RowOf(found) /\ draft[t] = Loaded(new, calibration)
  BY <1>1 DEF Undisturbed
<1>3. pred[t] \in Stored /\ evaluation[pred[t]] # Nil /\ DraftCounts(t, {})
  BY <1>1 DEF Inv, Sessions, Standing, Drafted
<1>4. <<pred[t], result[evaluation[pred[t]].against].score>> \in found
  BY <1>3 DEF Samples
<1>5. c \in DOMAIN new /\ new[c].samples = found
  BY <1>4, RefreshedFacts
<1>6. \A d \in DOMAIN draft[t] :
        /\ d \in DOMAIN new /\ draft[t][d].samples = new[d].samples
        /\ draft[t][d].old = calibration[d]
  BY <1>2, LoadedFacts
<1>7. c \in DOMAIN draft[t] /\ draft[t][c].samples = found /\ draft[t][c].old = calibration[c]
  BY <1>2, <1>5, LoadedFacts
<1>8. c \in Competitions
  BY <1>3, <1>7 DEF DraftCounts
<1>9. ~Conflict(draft[t], calibration)
  BY <1>6 DEF Conflict
<1>10. calibration' = StoredRows(draft[t], calibration) /\ performance' = performance
  BY <1>9 DEF Save
<1>11. calibration'[c] = RowOf(found)
  <2>1. PICK d, current : d = draft[t][c] /\ current = calibration[c]
    OBVIOUS
  <2>2. StoredRow(d, current) = RowOf(d.samples)
    BY <1>7, <2>1, StoredRowOf
  <2> QED
    BY <1>7, <1>8, <1>10, <2>1, <2>2 DEF StoredRows
<1> QED
  BY <1>2, <1>10, <1>11

\* An evaluation that no other session overlapped leaves performance and calibration
\* that are exactly those of all evaluations in every column (calibration.py), under
\* the results as corrected since, whatever torn rows it found.
THEOREM SerialRefreshCountsAll == Spec => SerialRefreshIsExact
<1>1. ASSUME Inv, IInv, Serial, [Next]_vars, NEW t \in alone,
             pc[t] = "save", pc'[t] # "save", pred[t] # Nil, events' = events
      PROVE  LET c == CompetitionOfPrediction(pred[t])
             IN  /\ performance'[c] = RowOf(Samples(c, evaluation, result))
                 /\ calibration'[c] = RowOf(Samples(c, evaluation, result))
  <2>1. t \in Tasks /\ Undisturbed(t)
    BY <1>1 DEF Inv, Types, Serial
  <2>2. pc' # pc
    BY <1>1
  <2>3. PICK u \in Tasks : Step(u)
    BY <1>1, <2>2, OutsideSteps DEF Next, Tick, sessionVars, vars
  <2>4. u = t
    BY <1>1, <2>1, <2>3, StepSteps DEF SessionStep, OthersStay, SessionStays
  <2>5. ~Begin(t)
    BY <1>1 DEF Begin, SyncPostMatchResults, ApiSyncResults, Record, ApiEvaluate,
                ApiCalibrate, ApiArchive, Backtest, Open
  <2>6. ~Lose(t)
    BY <1>1, EvaluationAssumption DEF Lose, Occurs, Inv, Types, ClockTypes
  <2>7. Save(t)
    BY <1>1, <2>3, <2>4, <2>5, <2>6
    DEF Step, Opens, GoesOn, Proceed, SyncResults, FindUnevaluated, Each, Evaluate, Insert,
        LoadPerformance, Commit, Measure, LoadBins, ReadActual, LoadArchive, WriteArchive, Replay
  <2> QED
    BY <1>1, <2>1, <2>7, SaveIsSerial
<1>2. Inv /\ IInv /\ Serial /\ [Next]_vars =>
        \A t \in alone :
          (pc[t] = "save" /\ pc'[t] # "save" /\ pred[t] # Nil /\ events' = events) =>
            LET c == CompetitionOfPrediction(pred[t])
            IN  /\ performance'[c] = RowOf(Samples(c, evaluation, result))
                /\ calibration'[c] = RowOf(Samples(c, evaluation, result))
  BY <1>1
<1> QED
  BY <1>2, RecordInvariant, SerialInvariant, InductiveInvariant, PTL
  DEF Spec, SerialRefreshIsExact

=============================================================================
