\* A server of two requests at a time.
SPECIFICATION Spec
CONSTANTS
  Reports = {r1}
  Posters = {p1, p2}
  Requests = {q1, q2}
  SlotChoices = {2}
  Nil = Nil

PROPERTY
  PosterIsReleasable
