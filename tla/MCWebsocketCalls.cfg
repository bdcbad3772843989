SPECIFICATION ClientSpec
CHECK_DEADLOCK FALSE
CONSTANT c1 = c1
CONSTANT c2 = c2
CONSTANT sub = sub
CONSTANT Calls <- MCCalls
CONSTANT SubId <- sub
CONSTANT MaxEvents = 0
CONSTANT MaxDrops = 2
CONSTANT MaxListens = 1
PROPERTY CallsSettle
