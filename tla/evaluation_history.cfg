\* A predecessor still in play at the kickoff: its result is in the history.
SPECIFICATION FairSpec
CONSTANTS
  csl = csl
  m1 = m1
  m2 = m2
  home = home
  away = away
  Nil = Nil
  Competitions = {csl}
  Matches = {m1, m2}
  Teams = {home, away}
  CompetitionOf <- MCCompetitionOf
  HomeOf <- MCHomeOf
  AwayOf <- MCAwayOf
  Kickoff <- MCKickoff
  Scores <- MCScores
  Recent = 2
  MinHistory = 1
  MaxPredictions = 2
  Beat = beat
  Requests = {r1}
  Jobs = {"backtest"}
  Earlier <- MCNoneEarlier
  Predicted <- MCNonePredicted
  End <- MCOverlappingEnd
  Final <- MCFinal
  DayLength = 1
  CacheTime = 1
  Averages <- MCAverages
  Average <- MCAverage
  MaxTime = 2
  MaxEvents = 2
PROPERTY
  BacktestUsesThePast
