SPECIFICATION GrantsSpec
CONSTANTS
  Scenes = {"signup", "codes"}
  t1 = t1
  t2 = t2
  Tabs <- MCTabs
  Calls <- MCCalls
  Informed <- MCInformed
  Apps <- MCApps
  MaxAccounts = 2
  AllowedAttempts = 1
  MaxTrouble = 1
  None = None
  Null = Null
  Home <- MCHome
  Codes = {c1}
  Users = {u1}
  Clients = {a1, a2}
  Uris = {p, q}
  Verifiers = {v1}
  Requests = {r1, r2}
  CodeTTL = 1
  MaxTime = 2
  MaxSecret = 1
SYMMETRY Symmetry
INVARIANTS
  GrantsTypeOK
  ActiveIsVerified
  NothingHalfMade
  DoneStaysDone
  AnnouncedOnce
  SingleUse
  ChallengelessIsConfidential
PROPERTIES
  SweepSparesFinishing
  AnswerHonoursCode
  ImplementsSingleUse
CHECK_DEADLOCK FALSE
