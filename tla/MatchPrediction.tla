--------------------------- MODULE MatchPrediction ---------------------------
(***************************************************************************)
(* FeatureBuilder, the goal models and PredictionPipeline: which stored    *)
(* results a prediction of a match rests on, and whether they are enough   *)
(* for one.                                                                *)
(*                                                                         *)
(* Probabilities, averages and trends are numbers no property tells apart; *)
(* what is kept of a model is whether it is available.  Elo only adjusts   *)
(* the probabilities of the goal models and is left out.                   *)
(***************************************************************************)
EXTENDS Integers, Sequences, FiniteSets

CONSTANTS
  Competitions,    \* competitions
  Matches,         \* stored matches
  Teams,           \* teams
  CompetitionOf,   \* [Matches -> Competitions]
  HomeOf,          \* [Matches -> home team, or Nil]
  AwayOf,          \* [Matches -> away team, or Nil]
  Kickoff,         \* [Matches -> time, or Nil]
  Scores,          \* scores a result may have, <<home, away>>
  Recent,          \* results of a team its features use (5)
  MinHistory,      \* results of a team the goal models need (3)
  MaxPredictions,  \* bound on the number of predictions
  Nil              \* SQL NULL, no row

VARIABLES
  result,          \* [Matches -> row of actual_results, or Nil]
  predictions      \* the rows of prediction_results, oldest first

predictionVars == <<result, predictions>>

-----------------------------------------------------------------------------

ASSUME PredictionAssumption ==
  /\ IsFiniteSet(Matches)
  /\ CompetitionOf \in [Matches -> Competitions]
  /\ HomeOf \in [Matches -> Teams \cup {Nil}] /\ AwayOf \in [Matches -> Teams \cup {Nil}]
  /\ Kickoff \in [Matches -> Nat \cup {Nil}]
  /\ Scores \subseteq Nat \X Nat
  /\ Recent \in Nat /\ MinHistory \in 1..Recent /\ MaxPredictions \in Nat
  /\ Nil \notin Nat \cup Teams

Ids == 1..MaxPredictions
Stored == DOMAIN predictions

Goals(score) == score[1] + score[2]

\* Seeded defect: the match itself, once played, counts as its own history.
HistoryWithItself(m, known) ==
  IF Kickoff[m] = Nil THEN {}
  ELSE {h \in Matches :
          /\ CompetitionOf[h] = CompetitionOf[m]
          /\ Kickoff[h] # Nil /\ Kickoff[h] <= Kickoff[m]
          /\ known[h] # Nil /\ known[h].completed <= Kickoff[m]}

\* _historical_results: results of earlier matches of the competition that were
\* complete at the kickoff.
History(m, known) ==
  IF Kickoff[m] = Nil THEN {}
  ELSE {h \in Matches :
          /\ CompetitionOf[h] = CompetitionOf[m]
          /\ Kickoff[h] # Nil /\ Kickoff[h] < Kickoff[m]
          /\ known[h] # Nil /\ known[h].completed <= Kickoff[m]}

\* _team_features: how many of the results count for a team, at most Recent.
HistoricalMatchCount(team, history) ==
  IF team = Nil THEN 0
  ELSE LET played == Cardinality({h \in history : team \in {HomeOf[h], AwayOf[h]}})
       IN  IF played < Recent THEN played ELSE Recent

\* _league_average_goals, whose truth value _has_required_data takes: neither
\* no history nor one without a goal.
AverageIsPositive(history, known) == \E h \in history : Goals(known[h].score) > 0

\* _missing_fields, those that make the data completeness "low".  The others are
\* never all present: league_rank, points, goal_difference and injuries are
\* always missing.
CoreMissing(m, history) ==
  \/ Kickoff[m] = Nil
  \/ Nil \in {HomeOf[m], AwayOf[m]}
  \/ HistoricalMatchCount(HomeOf[m], history) < MinHistory
  \/ HistoricalMatchCount(AwayOf[m], history) < MinHistory
  \/ history = {}

Completeness(m, history) == IF CoreMissing(m, history) THEN "low" ELSE "medium"

\* Which goal models are available: Poisson with enough data, Dixon-Coles when
\* its Poisson model is, the ensemble when one of the two is.
PoissonAvailable(m, history, known) ==
  /\ AverageIsPositive(history, known)
  /\ HistoricalMatchCount(HomeOf[m], history) >= MinHistory
  /\ HistoricalMatchCount(AwayOf[m], history) >= MinHistory

DixonColesAvailable(m, history, known) == PoissonAvailable(m, history, known)

EnsembleAvailable(m, history, known) ==
  PoissonAvailable(m, history, known) \/ DixonColesAvailable(m, history, known)

\* Seeded defect: the completeness of the data alone makes the level.
ConfidenceOfData(m, history, available) == Completeness(m, history)

\* assess_confidence.
Confidence(m, history, available) ==
  IF Completeness(m, history) = "low" \/ ~available THEN "low" ELSE "medium"

\* PredictionPipeline.run: the row it commits for m, when its session knows the
\* results so.
PredictionOf(m, known) ==
  LET history   == History(m, known)
      available == EnsembleAvailable(m, history, known)
  IN  [match      |-> m,
       status     |-> IF available THEN "available" ELSE "not_available",
       confidence |-> Confidence(m, history, available),
       history    |-> [h \in history |-> known[h].score]]

Predict(m, known) ==
  /\ Len(predictions) < MaxPredictions
  /\ predictions' = Append(predictions, PredictionOf(m, known))

Available(p) == predictions[p].status = "available"

=============================================================================
