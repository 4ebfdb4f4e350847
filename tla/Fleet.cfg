SPECIFICATION Spec
CONSTANTS
  NoPid = NoPid
  Aims = {"edit", "pid", "role"}
  Opens = {TRUE}
  Launches = {FALSE}
  Given = {"worker"}
  Pid = {p1, p2}
  Port = {q1, q2}
  Call = {c1}
  MaxProcs = 2
  MaxHosts = 2
  MaxLocal = 1
  MaxStale = 2
CHECK_DEADLOCK FALSE
SYMMETRY Sym
INVARIANTS
  RanAtMostOnce
  OfflineMeansNotRun
  LaunchedIsOurs
  RoleIsOwn
