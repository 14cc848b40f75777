\* Two calls at a time, two days, a soft limit of two.
SPECIFICATION Spec
CONSTANTS
  Calls = {w1, w2}
  fixtures = fixtures
  injuries = injuries
  Status = status
  Requests = {fixtures, injuries, status}
  KindOf <- MCKindOf
  Window <- MCWindow
  PeriodsPerDay = 1
  MaxTime = 1
  MaxSent = 2
  Plan = 5
  SoftLimit = 2
  Reserve = 1
  MinOptional = 3
  MinLineup = 2
  MaxRetries = 1
  Headers = {TRUE, FALSE}
  Nil = Nil
SYMMETRY CallSymmetry
INVARIANTS
  TypeOK
  RecordedWasSent
  OvershootIsBounded
  CoreOutlivesOptional
\* The system stops when the clock and the attempts are used up.
CHECK_DEADLOCK FALSE
