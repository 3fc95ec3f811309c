\* A snapshot that predates the log, one binding at a time, one failing call.
SPECIFICATION Spec
CONSTANTS
  u1 = u1
  u2 = u2
  u3 = u3
  b1 = b1
  b2 = b2
  None = None
  AuthorOf <- MCAuthorOf
  MaxSeq = 3
  Update = {u1, u3}
  Legacy = {u3}
  Binding = {b1, b2}
  MaxFaults = 1
  Overlap = FALSE
INVARIANTS
  Inductive
  SnapshotCoversLog
  LoggedIsRecoverable
PROPERTIES
  ImplementsDurableDoc
CHECK_DEADLOCK FALSE
