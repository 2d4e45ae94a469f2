SPECIFICATION SortedSpec
CONSTANT N = 4
INVARIANTS
  ExactlyReachable
  BackwardOnlyInCycles
  MatchesReference
PROPERTY Terminates
