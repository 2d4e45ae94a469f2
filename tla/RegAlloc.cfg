SPECIFICATION Spec
CONSTANTS
  i1 = i1
  i2 = i2
  i3 = i3
  i4 = i4
  Interval = {i1, i2, i3, i4}
  MAX_REG_NUM = 3
  MaxPoint = 4
SYMMETRY Symmetry
INVARIANTS
  NoSharing
  BitmapMatchesActive
  SpillJustified
  SlotsDense
PROPERTY ImplementsPlacement
