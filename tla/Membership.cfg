SPECIFICATION Spec
CONSTANTS
  o = o
  u1 = u1
  u2 = u2
  s1 = s1
  s2 = s2
  User = {o, u1, u2}
  Owner = o
  Slot = {s1, s2}
  Tried = {"READ", "ADMIN"}
  RequestId = {1}
  MaxCalls = 2
SYMMETRY Symmetry
INVARIANTS
  Inductive
  RolesAgree
PROPERTIES
  OwnerAppoints
  LastAdminStays
CHECK_DEADLOCK FALSE
