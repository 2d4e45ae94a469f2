SPECIFICATION FullSpec
CONSTANT N = 6
INVARIANTS
  BodiesNatural
  OwnedOnce
  StructuredTree
  EveryBlockOnce
  LoopsContiguous
  BranchesFallThrough
  LiveSetsSound
  IntervalsCoverLiveness
  NeedsAnInstruction
  CrashExplained
