-------------------------- MODULE EvaluationProofs --------------------------
(***************************************************************************)
(* What ResultsEvaluation promises of predictions, proved for every number *)
(* of matches, teams, sessions, requests and lost sessions.                *)
(*                                                                         *)
(* The argument.  Prediction rows are only appended, by RunPrediction and  *)
(* Replay, and what the two promises say of a row depends on the row and   *)
(* on the fixed schedule only.  So it is enough that PredictionOf makes    *)
(* good rows, whichever results the session that makes one knows, stale    *)
(* or corrected since.                                                     *)
(***************************************************************************)
EXTENDS ResultsEvaluation, FiniteSetTheorems, SequenceTheorems, TLAPS

\* The results in the history of row r that a team took part in.
Played(team, h) == {g \in h : team \in {HomeOf[g], AwayOf[g]}}

RestsOnPast(r) ==
  LET past == {h \in DOMAIN r.history :
                 Kickoff[h] < Kickoff[r.match] /\ CompetitionOf[h] = CompetitionOf[r.match]}
  IN  /\ past = DOMAIN r.history
      /\ \A team \in {HomeOf[r.match], AwayOf[r.match]} :
           Cardinality(Played(team, past)) >= MinHistory

Good(r) ==
  /\ r.status = "available" => RestsOnPast(r)
  /\ r.confidence = "low" <=> r.status # "available"

IInv ==
  /\ \E S : predictions \in Seq(S)
  /\ \A p \in DOMAIN predictions : Good(predictions[p])

-----------------------------------------------------------------------------
LEMMA HistoryFacts ==
  ASSUME NEW m, NEW known
  PROVE  /\ History(m, known) \subseteq Matches
         /\ IsFiniteSet(History(m, known))
         /\ \A h \in History(m, known) :
              /\ Kickoff[m] # Nil
              /\ CompetitionOf[h] = CompetitionOf[m]
              /\ Kickoff[h] < Kickoff[m]
<1>1. History(m, known) \subseteq Matches
  BY DEF History
<1>2. IsFiniteSet(History(m, known))
  BY <1>1, FS_Subset, PredictionAssumption
<1> QED
  BY <1>1, <1>2 DEF History

\* Counting no more than Recent results does not hide a lack of them.
LEMMA CountFacts ==
  ASSUME NEW team, NEW h, IsFiniteSet(h),
         HistoricalMatchCount(team, h) >= MinHistory
  PROVE  team # Nil /\ Cardinality(Played(team, h)) >= MinHistory
<1>1. IsFiniteSet(Played(team, h))
  BY FS_Subset DEF Played
<1>2. Cardinality(Played(team, h)) \in Nat
  BY <1>1, FS_CardinalityType
<1>3. MinHistory \in Nat /\ MinHistory >= 1 /\ Recent \in Nat /\ MinHistory <= Recent
  BY PredictionAssumption
<1>4. team # Nil
  BY <1>3 DEF HistoricalMatchCount
<1>5. HistoricalMatchCount(team, h) =
        IF Cardinality(Played(team, h)) < Recent THEN Cardinality(Played(team, h)) ELSE Recent
  BY <1>4 DEF HistoricalMatchCount, Played
<1> QED
  BY <1>2, <1>3, <1>4, <1>5

\* The goal models are available only where no core datum is missing.
LEMMA AvailableIsComplete ==
  ASSUME NEW m, NEW known,
         EnsembleAvailable(m, History(m, known), known)
  PROVE  /\ ~CoreMissing(m, History(m, known))
         /\ \A team \in {HomeOf[m], AwayOf[m]} :
              Cardinality(Played(team, History(m, known))) >= MinHistory
<1> DEFINE past == History(m, known)
<1>1. PoissonAvailable(m, past, known)
  BY DEF EnsembleAvailable, DixonColesAvailable
<1>2. /\ HistoricalMatchCount(HomeOf[m], past) >= MinHistory
      /\ HistoricalMatchCount(AwayOf[m], past) >= MinHistory
      /\ past # {}
  BY <1>1 DEF PoissonAvailable, AverageIsPositive
<1>3. \A team \in {HomeOf[m], AwayOf[m]} :
        team # Nil /\ Cardinality(Played(team, past)) >= MinHistory
  BY <1>2, CountFacts, HistoryFacts
<1>4. Kickoff[m] # Nil
  BY <1>2, HistoryFacts
<1>5. \A team : HistoricalMatchCount(team, past) \in Int
  <2> SUFFICES ASSUME NEW team PROVE HistoricalMatchCount(team, past) \in Int
    OBVIOUS
  <2> DEFINE played == {h \in past : team \in {HomeOf[h], AwayOf[h]}}
  <2>1. IsFiniteSet(played)
    BY HistoryFacts, FS_Subset
  <2>2. Cardinality(played) \in Int /\ Recent \in Int
    BY <2>1, FS_CardinalityType, PredictionAssumption
  <2>3. HistoricalMatchCount(team, past) \in {0, Cardinality(played), Recent}
    BY DEF HistoricalMatchCount
  <2> QED
    BY <2>2, <2>3
<1>6. ~CoreMissing(m, past)
  BY <1>2, <1>3, <1>4, <1>5, PredictionAssumption DEF CoreMissing
<1> QED
  BY <1>3, <1>6

\* Every row the pipeline can commit is good.
LEMMA PredictionIsGood ==
  ASSUME NEW m, NEW known
  PROVE  Good(PredictionOf(m, known))
<1> DEFINE past == History(m, known)
           available == EnsembleAvailable(m, past, known)
           r == PredictionOf(m, known)
<1>1. /\ r.match = m
      /\ r.status = IF available THEN "available" ELSE "not_available"
      /\ r.confidence = Confidence(m, past, available)
      /\ DOMAIN r.history = past
  BY DEF PredictionOf
<1>2. CASE available
  <2>1. r.confidence # "low"
    BY <1>1, <1>2, AvailableIsComplete DEF Confidence, Completeness
  <2>2. {h \in past : Kickoff[h] < Kickoff[m] /\ CompetitionOf[h] = CompetitionOf[m]} = past
    BY HistoryFacts
  <2>3. RestsOnPast(r)
    BY <1>1, <1>2, <2>2, AvailableIsComplete DEF RestsOnPast
  <2> QED
    BY <1>1, <1>2, <2>1, <2>3 DEF Good
<1>3. CASE ~available
  BY <1>1, <1>3 DEF Good, Confidence
<1> QED
  BY <1>2, <1>3

\* Appending a good row keeps the rows good.
LEMMA PredictKeeps ==
  ASSUME IInv, NEW m, NEW known, Predict(m, known)
  PROVE  IInv'
<1> DEFINE r == PredictionOf(m, known)
<1>1. PICK S : predictions \in Seq(S)
  BY DEF IInv
<1>2. predictions \in Seq(S \cup {r}) /\ r \in S \cup {r}
  BY <1>1
<1>3. predictions' = Append(predictions, r)
  BY DEF Predict
<1>4. /\ predictions' \in Seq(S \cup {r})
      /\ Len(predictions') = Len(predictions) + 1
      /\ \A i \in 1..Len(predictions) : predictions'[i] = predictions[i]
      /\ predictions'[Len(predictions) + 1] = r
  BY <1>2, <1>3, AppendProperties
<1>5. \A p \in DOMAIN predictions' : Good(predictions'[p])
  <2>1. DOMAIN predictions' = 1..(Len(predictions) + 1) /\ DOMAIN predictions = 1..Len(predictions)
    BY <1>2, <1>4
  <2>2. SUFFICES ASSUME NEW p \in DOMAIN predictions' PROVE Good(predictions'[p])
    OBVIOUS
  <2>3. CASE p \in DOMAIN predictions
    BY <1>4, <2>1, <2>3 DEF IInv
  <2>4. CASE p = Len(predictions) + 1
    BY <1>4, <2>4, PredictionIsGood
  <2> QED
    BY <1>2, <2>1, <2>2, <2>3, <2>4
<1>6. (\A p \in DOMAIN predictions : Good(predictions[p]))'
  BY <1>5 DEF Good, RestsOnPast, Played
<1> QED
  BY <1>4, <1>6 DEF IInv

-----------------------------------------------------------------------------
LEMMA UnchangedKeeps ==
  ASSUME IInv, UNCHANGED predictions
  PROVE  IInv'
<1>1. predictions' = predictions
  OBVIOUS
<1>2. PICK S : predictions \in Seq(S)
  BY DEF IInv
<1>3. \E T : predictions' \in Seq(T)
  BY <1>1, <1>2
<1>4. \A p \in DOMAIN predictions' : Good(predictions'[p])
  BY <1>1 DEF IInv
<1>5. (\A p \in DOMAIN predictions : Good(predictions[p]))'
  BY <1>4 DEF Good, RestsOnPast, Played
<1> QED
  BY <1>3, <1>5 DEF IInv

LEMMA ProceedKeeps ==
  ASSUME IInv, NEW t \in Tasks, Proceed(t)
  PROVE  IInv'
<1>1. CASE Replay(t)
  <2>1. CASE todo[t] = {}
    BY <1>1, <2>1, UnchangedKeeps DEF Replay
  <2>2. CASE todo[t] # {}
    BY <1>1, <2>2, PredictKeeps DEF Replay
  <2> QED
    BY <2>1, <2>2
<1>2. CASE ~Replay(t)
  <2>1. UNCHANGED predictions
    BY <1>2 DEF Proceed, SyncResults, FindUnevaluated, Each, Evaluate, Insert,
                LoadPerformance, Commit, Measure, LoadBins, Save, ReadActual, LoadArchive,
                WriteArchive, predictionVars
  <2> QED
    BY <2>1, UnchangedKeeps
<1> QED
  BY <1>1, <1>2

LEMMA BeginKeeps ==
  ASSUME IInv, NEW t \in Tasks, Begin(t)
  PROVE  IInv'
<1>1. UNCHANGED predictions
  BY DEF Begin, SyncPostMatchResults, ApiSyncResults, Record, ApiEvaluate, ApiCalibrate,
         ApiArchive, Backtest, predictionVars
<1> QED
  BY <1>1, UnchangedKeeps

LEMMA OutsideKeeps ==
  ASSUME IInv, Outside
  PROVE  IInv'
<1>1. CASE RunPrediction
  BY <1>1, PredictKeeps DEF RunPrediction
<1>2. CASE ImportResult \/ SyncMatches
  BY <1>2, UnchangedKeeps DEF ImportResult, SyncMatches, predictionVars
<1> QED
  BY <1>1, <1>2 DEF Outside

LEMMA SameLength ==
  ASSUME NEW a \in Nat, NEW b \in Nat, 1..a = 1..b
  PROVE  a = b
<1>1. \A i \in Int : (1 <= i /\ i <= a) <=> (1 <= i /\ i <= b)
  <2> SUFFICES ASSUME NEW i \in Int PROVE i \in 1..a <=> i \in 1..b
    OBVIOUS
  <2> QED
    OBVIOUS
<1>2. /\ 1 <= a => a <= b
      /\ 1 <= b => b <= a
  BY <1>1
<1> QED
  BY <1>2

\* The rows already stored were committed by the pipeline.
LEMMA InitialPredictions ==
  ASSUME Init
  PROVE  /\ Len(Predicted) \in Nat /\ Len(Predicted) <= MaxPredictions
         /\ Stored = 1..Len(Predicted) /\ Len(predictions) = Len(Predicted)
         /\ \A p \in Stored : /\ Predicted[p] \in Matches
                             /\ predictions[p] = PredictionOf(Predicted[p], Earlier)
         /\ \E S : predictions \in Seq(S)
<1> DEFINE n == Len(Predicted)
           row(p) == PredictionOf(Predicted[p], Earlier)
           S == {row(p) : p \in 1..n}
<1>1. /\ Predicted \in Seq(Matches) /\ n \in Nat /\ n <= MaxPredictions
      /\ \A p \in 1..n : Predicted[p] \in Matches
  BY EvaluationAssumption, LenProperties, ElementOfSeq
<1>2. predictions = [p \in 1..n |-> row(p)]
  BY DEF Init
<1> HIDE DEF row
<1>3. predictions \in [1..n -> S]
  BY <1>2
<1> HIDE DEF S, n
<1>4. predictions \in Seq(S)
  BY <1>1, <1>3, SeqDef
<1>5. Len(predictions) \in Nat /\ DOMAIN predictions = 1..Len(predictions)
  BY <1>4, LenProperties
<1>6. DOMAIN predictions = 1..n
  BY <1>3
<1>7. Len(predictions) = n
  BY <1>1, <1>5, <1>6, SameLength
<1> QED
  BY <1>1, <1>2, <1>4, <1>6, <1>7 DEF Stored, row, n

\* Every step of ResultsEvaluation keeps the prediction rows good.
THEOREM InductiveInvariant == Spec => []IInv
<1>1. Init => IInv
  <2>1. ASSUME Init PROVE IInv
    <3>1. ASSUME NEW p \in Stored PROVE Good(predictions[p])
      BY <2>1, <3>1, InitialPredictions, PredictionIsGood
    <3> QED
      BY <2>1, <3>1, InitialPredictions DEF IInv, Stored
  <2> QED
    BY <2>1
<1>2. IInv /\ [Next]_vars => IInv'
  <2> SUFFICES ASSUME IInv, [Next]_vars PROVE IInv'
    OBVIOUS
  <2>1. CASE Tick
    BY <2>1, UnchangedKeeps DEF Tick, predictionVars
  <2>2. CASE Outside
    BY <2>2, OutsideKeeps
  <2>3. ASSUME NEW t \in Tasks, Step(t) PROVE IInv'
    <3>1. CASE Opens(t)
      BY <3>1, BeginKeeps DEF Opens
    <3>2. CASE GoesOn(t)
      BY <3>2, ProceedKeeps DEF GoesOn
    <3>3. CASE Lose(t)
      BY <3>3, UnchangedKeeps DEF Lose, predictionVars
    <3> QED
      BY <2>3, <3>1, <3>2, <3>3 DEF Step
  <2>4. CASE UNCHANGED vars
    BY <2>4, UnchangedKeeps DEF vars, predictionVars
  <2> QED
    BY <2>1, <2>2, <2>3, <2>4 DEF Next
<1> QED
  BY <1>1, <1>2, PTL DEF Spec

\* Whatever results are stored, corrected or synchronised in whichever order, an
\* available prediction rests on enough earlier matches of both teams.
THEOREM PredictionsRestOnPast == Spec => []AvailableRestsOnPast
<1>1. IInv => AvailableRestsOnPast
  BY DEF IInv, Good, RestsOnPast, Played, AvailableRestsOnPast, Available, Stored
<1> QED
  BY <1>1, InductiveInvariant, PTL

\* The confidence level is low exactly where the goal models refuse, for every
\* history and every score in it.
THEOREM ConfidenceIsAvailability == Spec => []ConfidenceTellsAvailability
<1>1. IInv => ConfidenceTellsAvailability
  BY DEF IInv, Good, ConfidenceTellsAvailability, Available, Stored
<1> QED
  BY <1>1, InductiveInvariant, PTL

=============================================================================
