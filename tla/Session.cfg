\* Two pref dirs and versions, two dialogs, hosts, requests and calls.
SPECIFICATION Spec
CONSTANTS
  None = None
  Dirs = {d1, d2}
  Versions = {v1, v2}
  MaxCommands = 3
  Titles = {t1, t2}
  Grace = 2
  MaxTicks = 5
  Requests = {r1, r2}
  MaxStarts = 2
  Calls = {c1, c2}
  n1 = n1
  n2 = n2
  MaxLoads = 1
SYMMETRY Alike
INVARIANTS
  InstallIsFound
  HoudiniIsTheUsers
CHECK_DEADLOCK FALSE
