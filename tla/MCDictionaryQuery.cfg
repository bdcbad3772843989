SPECIFICATION QuerySpec
CHECK_DEADLOCK FALSE
CONSTANT Projects <- MCProjects
CONSTANT Blocks <- MCBlocks
CONSTANT Indices <- MCIndices
INVARIANT NoWantedBlockSkipped
