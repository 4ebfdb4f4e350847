\* An edit or a press, and a delete of nodes it may have touched.
SPECIFICATION Spec
CONSTANTS
  Editors = {c1}
  Deleters = {c2}
  Node = {a, b}
INVARIANTS
  RowsArriveOnce
  CookingHasJob
PROPERTIES
  EveryCallIsAnswered
  FollowedEnds
CHECK_DEADLOCK FALSE
