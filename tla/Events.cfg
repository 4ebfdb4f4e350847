SPECIFICATION Spec
CONSTANTS
  Tops = {a}
  NoBatch = NoBatch
  NoWork = NoWork
  RingSize = 3
  Limit = 2
  WatchCap = 2
  MayStop = TRUE
  Errors = {"silent", "asks", "kept", "crash"}
  MaxChanges = 4
  MaxWorks = 1
CHECK_DEADLOCK FALSE
INVARIANTS
  PagesAreWhole
  UndoneIsSilent
  EventsTellScene
