SPECIFICATION Spec
CONSTANT Blocks <- MCBlocks
INVARIANT TypeOK
INVARIANT EventIdxValid
PROPERTY MemoStable
