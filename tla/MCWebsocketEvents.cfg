SPECIFICATION ClientSpec
CHECK_DEADLOCK FALSE
CONSTANT c1 = c1
CONSTANT c2 = c2
CONSTANT sub = sub
CONSTANT Calls <- MCCalls
CONSTANT SubId <- sub
CONSTANT MaxEvents = 1
CONSTANT MaxDrops = 0
CONSTANT MaxListens = 2
INVARIANT EventsGivenOnce
