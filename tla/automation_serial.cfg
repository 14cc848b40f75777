\* One worker slot: three messages for one match, one retry each, one crash.
SPECIFICATION Spec
CONSTANTS
  Matches = {m1}
  Tasks = {t1, t2, t3}
  MaxRetries = 1
  Slots = 1
  MaxCrashes = 1
  Nil = Nil
  Unloaded = Unloaded
SYMMETRY TaskSymmetry
INVARIANTS
  CompletedFromOneAttempt
  CompletedIsClean
  FailureTellsProgress
PROPERTY
  ImplementsRunLifecycle
\* The system stops when every task id is used and every task has ended.
CHECK_DEADLOCK FALSE
