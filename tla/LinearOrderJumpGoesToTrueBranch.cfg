SPECIFICATION FullSpec
CONSTANT N = 4
INVARIANT JumpGoesToTrueBranch
