SPECIFICATION ClientSpec
CHECK_DEADLOCK FALSE
CONSTANT c1 = c1
CONSTANT c2 = c2
CONSTANT sub = sub
CONSTANT Calls <- MCCalls
CONSTANT SubId <- sub
CONSTANT MaxEvents = 1
CONSTANT MaxDrops = 1
CONSTANT MaxListens = 2
SYMMETRY MCSymmetry
INVARIANT ClientTypeOK
INVARIANT WaitingIsAccountedFor
INVARIANT StartNeverThrows
INVARIANT EndedStreamIsDetached
PROPERTY ImplementsRpcClient
