SPECIFICATION SingleUseSpec
CONSTANT N = 5
INVARIANT LivesUntilLastUse
