SPECIFICATION BranchSpec
CONSTANT N = 5
INVARIANTS
  EvalFindsMinimum
  SemidominatorsExact
  QueryIsStrictDominance
  CrashMeansDeadPredecessor
  ChecksExact
  CheckUsersAgree
  CheckStopsExplained
