\* Two worker slots, two messages for one match, one retry each.
SPECIFICATION FairSpec
CONSTANTS
  Matches = {m1}
  Tasks = {t1, t2}
  MaxRetries = 1
  Slots = 2
  MaxCrashes = 0
  Nil = Nil
  Unloaded = Unloaded
INVARIANTS
  TypeOK
  CompletedHasArtifacts
  OneArchivePerTask
PROPERTY
  RunSettles
\* The system stops when every task id is used and every task has ended.
CHECK_DEADLOCK FALSE
