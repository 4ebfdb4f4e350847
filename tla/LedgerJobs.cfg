\* Two jobs, two threads of the bridge, one finished row kept.
SPECIFICATION Spec
CONSTANTS
  Jobs = {j1, j2}
  Calls = {c1}
  Polls = {p1}
  Large = {j1}
  Keep = 1
  MaxIds = 2
INVARIANTS
  FinalIsTrue
  KeptIsReadable
  IdResolves
CHECK_DEADLOCK FALSE
