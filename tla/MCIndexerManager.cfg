SPECIFICATION IndexSpec
CONSTANT Blocks <- MCBlocks
CONSTANT StaticDs = 2
CONSTANT MaxDs = 4
INVARIANT IndexTypeOK
INVARIANT GivenInChainOrder
INVARIANT WholeBlockGiven
INVARIANT NewDsJoinsAtOnce
INVARIANT EventIdxIncreases
