SPECIFICATION Spec
CONSTANTS
  None = None
  MaxRows = 4
  RowSizes = {1, 3}
  NameSizes = {1, 3}
  Limits = {1, 3}
  HostBytes = 12
  MaxBytes = 9
  Base = 2
  MaxNode = 4
  Limit = 2
  MaxChanges = 2
  MaxTypeChanges = 2
  Closed = Closed
  MaxItems = 2
  Dirs = {d1, d2}
  Assetted = {n1, n2}
  Libs = {own, other}
  AssetTypes = {v1, v2}
  Writable = {own}
  MaxMade = 4
  Subnet = Subnet
  typeParm = typeParm
  a = a
  b = b
  spareFolder = spareFolder
  newParm = newParm
  hp_new = hp_new
  newFolder = newFolder
  Top = Top
  MaxWrites = 2
CHECK_DEADLOCK FALSE
INVARIANTS
  ReadsAreTrue
  BridgeAgrees
  EditsAreMeant
