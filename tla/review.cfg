\* Servers of one and of two requests at a time.
SPECIFICATION Spec
CONSTANTS
  Reports = {r1}
  Posters = {p1, p2}
  Requests = {q1, q2}
  SlotChoices = {1, 2}
  Nil = Nil
SYMMETRY ReviewSymmetry
INVARIANTS
  TypeOK
  OnlyCheckedTextIsReleased
PROPERTIES
  RejectionIsFinal
  ReviewReachesPosters
  SerialPosterIsReleasable
