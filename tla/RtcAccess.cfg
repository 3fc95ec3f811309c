SPECIFICATION FairSpec
CONSTANTS
  Tab = {t1}
  MinTtl = 1
  MaxTtl = 2
  KickTtl = 1
  MintLag = 1
  Skew = 0
  MaxNow = 3
  MaxChanges = 2
  MaxFaults = 1
INVARIANTS
  Inductive
  RevokedWritersStop
  KickEnforcesRoles
PROPERTIES
  UsersConnect
CHECK_DEADLOCK FALSE
