SPECIFICATION LifeSpec
CONSTANTS
  N = 4
  MAX_EPOCH = 16
  MARKER_NUM = 4
INVARIANTS
  DominatorsExact
  ValidMeansFresh
  StopsOnlyWhenExhausted
  NothingUnswept
