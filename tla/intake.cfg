\* Two sessions and an import, two competitions of which one is listed, one match.
SPECIFICATION Spec
CONSTANTS
  csl = csl
  mls = mls
  m1 = m1
  Competitions = {csl, mls}
  Matches = {m1}
  CompetitionOf <- MCCompetitionOf
  Batches = {b1}
  Scores = {s1, s2}
  Provider = provider
  Nil = Nil
  Tasks = {t1, t2}
  Requested = {"competitions", "players", "statistics"}
  Listed = {csl}
  Offers <- MCOffers
  Rank <- MCRank
  Ended = {m1}
  Window = 1
  MaxTime = 1
  Imported = {"results", "lineups"}
  MaxRecords = 2
SYMMETRY Symmetry
INVARIANTS
  TypeOK
  StoredIsPermitted
  BatchIsAtomic
  OfficialWasImported
PROPERTIES
  ResultConflictIsRefused
  CodeLoopTriesAll
\* The system stops when every execution and import has ended.
CHECK_DEADLOCK FALSE
