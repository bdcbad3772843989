SPECIFICATION FilterSpec
CHECK_DEADLOCK FALSE
CONSTANT Messages <- MCMessages
CONSTANT MessageFilters <- MCMessageFilters
CONSTANT Events <- MCEvents
CONSTANT EventFilters <- MCEventFilters
 
INVARIANT ThrowsOnlyOverMatchingBody
