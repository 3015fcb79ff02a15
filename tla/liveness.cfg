SPECIFICATION LivenessSpec
CONSTANTS
  Scenes = {"codes", "refresh"}
  Codes = {c1, c2}
  Users = {u1}
  Clients = {a1}
  Uris = {p}
  Verifiers = {v1}
  Home <- MCHome
  Requests = {r1}
  Null = Null
  CodeTTL = 1
  MaxTime = 3
  MaxSecret = 1
  Tokens = {t1, t2, t3}
  RefreshApps = {a1}
  Rotations = {r1, r2}
  NoToken = NoToken
  NoRow = NoRow
  SlidingTTL = 1
  AbsoluteTTL = 2
  RefreshTime = 1
PROPERTIES
  EveryRequestAnswered
  AbandonedCodesGo
