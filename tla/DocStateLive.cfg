\* Fair, one binding, two authors, no failing call.
SPECIFICATION FairSpec
CONSTANTS
  u1 = u1
  u2 = u2
  u3 = u3
  b1 = b1
  b2 = b2
  None = None
  AuthorOf <- MCAuthorOf
  MaxSeq = 3
  Update = {u1, u2}
  Legacy = {}
  Binding = {b1}
  MaxFaults = 0
  Overlap = FALSE
INVARIANTS
  EditsAccounted
PROPERTIES
  EditsAreStored
  CloseEnds
CHECK_DEADLOCK FALSE
