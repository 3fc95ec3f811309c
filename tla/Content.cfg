SPECIFICATION Spec
CONSTANTS
  None = None
INVARIANTS SheetSafe DiffSafe HistorySafe
CHECK_DEADLOCK FALSE
