SPECIFICATION Spec
CONSTANTS
  None = None
  Looks = {j1, j2}
  Tasks = {j1, j2}
  Unset = Unset
  LastFrame = 2
  MaxMoves = 2
  MaxLate = 1
  MaxUses = 2
  Undying = {1}
  MaxChanges = 2
  MaxActs = 3
  MaxOthers = 1
SYMMETRY Swaps
CHECK_DEADLOCK FALSE
INVARIANTS
  BorrowedIsBack
  PictureIsScene
  NoChildLeft
  DoneIsReal
