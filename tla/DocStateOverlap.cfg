\* A reconnect may overlap writeState.
SPECIFICATION Spec
CONSTANTS
  u1 = u1
  u2 = u2
  u3 = u3
  b1 = b1
  b2 = b2
  None = None
  Update = {u1, u2}
  Legacy = {}
  AuthorOf <- MCAuthorOf
  Binding = {b1, b2}
  MaxSeq = 3
  MaxFaults = 0
  Overlap = TRUE
SYMMETRY BindingSymmetry
INVARIANTS
  SnapshotCoversLog
CHECK_DEADLOCK FALSE
