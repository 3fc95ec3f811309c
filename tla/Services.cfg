SPECIFICATION Spec
CONSTANTS
  None = None
PROPERTIES CacheHeals RowsAreServed ApprovalArrives
CHECK_DEADLOCK FALSE
