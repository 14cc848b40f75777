\* One job of two matches, two deliveries, brokers with and without faults.
SPECIFICATION FairSpec
CONSTANTS
  Jobs = {j1}
  Matches = {m1, m2}
  Copies = {c1, c2}
  First = c1
  FaultChoices = {TRUE, FALSE}
  MaxCrashes = 1
  Nil = Nil
  Unloaded = Unloaded
INVARIANTS
  TypeOK
  CompletedHasResults
  InvalidNeverCompletes
PROPERTIES
  FinalIsFinal
  JobSettles
\* The system stops when every job's deliveries have ended.
CHECK_DEADLOCK FALSE
