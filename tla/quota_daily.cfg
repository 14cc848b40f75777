\* One call at a time, over two days.
SPECIFICATION Spec
CONSTANTS
  Calls = {w1}
  fixtures = fixtures
  injuries = injuries
  Status = status
  Requests = {fixtures, injuries, status}
  KindOf <- MCKindOf
  Window <- MCWindow
  PeriodsPerDay = 1
  MaxTime = 1
  MaxSent = 3
  Plan = 5
  SoftLimit = 2
  Reserve = 1
  MinOptional = 3
  MinLineup = 2
  MaxRetries = 1
  Headers = {TRUE}
  Nil = Nil
PROPERTY
  LimitIsDaily
CHECK_DEADLOCK FALSE
