SPECIFICATION FetchSpec
CHECK_DEADLOCK FALSE
CONSTANT Batches <- MCBatches
CONSTANT Counts <- MCCounts
CONSTANT Failures <- MCFailures
CONSTANT MaxAttempts = 2
INVARIANT FetchTypeOK
INVARIANT BatchComplete
INVARIANT ErrorTypeTold
