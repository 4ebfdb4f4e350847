\* A client of the jobs and a node, and a visitor of the same node.
SPECIFICATION Spec
CONSTANTS
  Clients = {c1, c2}
  Status = {}
  Jobs = {j1}
  Gated = {u1}
  FallbackTicks = 2
  Visitors = {c2}
  MaxChanges = 1
  MaxOutages = 1
INVARIANTS
  NoChangeMissed
  NotifiedInTime
