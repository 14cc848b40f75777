SPECIFICATION Spec
CONSTANTS
  Matches = {m1}
  Tasks = {t1, t2}
  MaxRetries = 1
  Slots = 1
  MaxCrashes = 0
  Nil = Nil
  Unloaded = Unloaded
PROPERTY
  NoReenqueue
