SPECIFICATION Spec
CONSTANTS
  W = 3
  Programs <- MCPrograms
INVARIANT NotIsListed
