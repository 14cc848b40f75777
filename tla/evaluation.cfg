\* One scheduled session and one of requests, a match and its only predecessor, the
\* second of them predicted before.
SPECIFICATION FairSpec
CONSTANTS
  csl = csl
  m1 = m1
  m2 = m2
  home = home
  away = away
  Nil = Nil
  Competitions = {csl}
  Matches = {m1, m2}
  Teams = {home, away}
  CompetitionOf <- MCCompetitionOf
  HomeOf <- MCHomeOf
  AwayOf <- MCAwayOf
  Kickoff <- MCKickoff
  Scores <- MCScores
  Recent = 2
  MinHistory = 1
  MaxPredictions = 3
  Beat = beat
  Requests = {r1}
  Jobs = {"results", "sync", "record", "archive", "evaluate", "calibrate", "backtest"}
  Earlier <- MCEarlier
  Predicted <- MCPredicted
  End <- MCEnd
  Final <- MCFinal
  DayLength = 1
  CacheTime = 1
  Averages <- MCAverages
  Average <- MCAverage
  MaxTime = 1
  MaxEvents = 1
INVARIANTS
  TypeOK
  AvailableRestsOnPast
  ConfidenceTellsAvailability
  SamplesAreEvaluations
  SerialArchiveIsCurrent
PROPERTIES
  EvaluationIsCounted
  SerialRefreshIsExact
  EveryResultIsEvaluated
