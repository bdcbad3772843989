SPECIFICATION QuerySpec
CHECK_DEADLOCK FALSE
CONSTANT Projects <- MCTxProjects
CONSTANT Blocks <- MCBlocks
CONSTANT Indices <- MCIndices
INVARIANT NoWantedBlockSkipped
