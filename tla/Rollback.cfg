\* Two calls of one label and an hda call, with the user's acts between them; a plan of two ops on
\* a network of two nodes in every mode.
SPECIFICATION RollbackSpec
CONSTANTS
  Labels = {"a", "h"}
  HdaLabels = {"h"}
  Tools = {"edit", "script", "hda", "new", "save", "undo", "redo", "probe"}
  UserEdits = {TRUE, FALSE}
  MaxEdits = 3
  Node = {a, b, c}
  Name = {"x", "y", "z"}
  Asset = {b}
  None = None
  Modes = {"edit", "partial", "stop", "dry", "create", "parms"}
  Kinds = {"create", "delete", "connect", "set", "node", "copy", "layout", "build", "select"}
  Initial = {a, b}
  MaxOps = 2
  MaxRefusals = 1
INVARIANTS
  DirtyIsTrue
  RolledBackMeansBack
  RowMeansReverted
  DryRunLeavesNothing
PROPERTIES
  RedoSparesFailed
  ToldBackMeansBack
CHECK_DEADLOCK FALSE
