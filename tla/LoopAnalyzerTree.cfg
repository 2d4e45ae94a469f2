SPECIFICATION SortedSpec
CONSTANT N = 4
INVARIANT LoopsHangTogether
