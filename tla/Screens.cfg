SPECIFICATION Spec
CONSTANTS
  None = None
  Gone = Gone
INVARIANTS SharingSafe PagesSafe AdminSafe
CHECK_DEADLOCK FALSE
