SPECIFICATION Spec
CONSTANTS
  W = 3
  Programs <- MCPrograms
INVARIANTS
  InputsAlive
  ValuesKept
PROPERTY StopsExplained
