SPECIFICATION Spec
CONSTANTS
  Matches = {m1, m2}
  Tasks = {t1, t2}
  MaxRetries = 1
  Slots = 2
  MaxCrashes = 0
  Nil = Nil
  Unloaded = Unloaded
INVARIANT
  FailureIsRecorded
