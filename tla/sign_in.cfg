SPECIFICATION SignInSpec
CONSTANTS
  b1 = b1
  b2 = b2
  None = None
  Browsers <- MCBrowsers
  Settings <- MCSettings
  Tokens = {t1, t2}
  Slots = {s1, s2}
  Ttl = 2
  Timeout = 1
  MaxEntries = 1
  KeptEntries = 0
  Nothing = Nothing
  Bearers = {"ua", "ub"}
  BearerRoles = {"ra", "rb"}
  BearerPermissions = {"pa", "pb", "org"}
  SystemPermissions = {"org"}
  Audiences = {"a", "b"}
  AppOf <- MCAppOf
  Turning <- MCTurning
  Nobody = Nobody
  UserTtl = 2
  ServiceTtl = 1
  MaxChanges = 2
INVARIANTS
  SignInTypeOK
  RotationFollowed
  EnrolmentSweeps
PROPERTIES
  PagesInOrder
  StaleBounded
  TokensTellTheTruth
  ServiceKeepsToItsApp
CHECK_DEADLOCK FALSE
