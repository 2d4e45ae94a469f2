SPECIFICATION Spec
CONSTANTS
  g1 = g1
  g2 = g2
  b1 = b1
  b2 = b2
  Graph = {g1, g2}
  Block = {b1, b2}
  MARKER_NUM = 2
  MAX_EPOCH = 4
  Garbage = {0, 1}
SYMMETRY Symmetry
INVARIANTS
  MarksKept
  NoStaleMarks
CHECK_DEADLOCK FALSE
