\* Three jobs in a registry that keeps one.
SPECIFICATION Spec
CONSTANTS
  Jobs = {j1, j2, j3}
  Tools = {"cook", "look"}
  Keep = 1
  Total = 1
  Polled = {}
  Unwanted = {}
  MayStop = FALSE
SYMMETRY Symmetry
INVARIANTS
  JobIsFound
