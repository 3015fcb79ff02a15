SPECIFICATION Spec
CONSTANTS
  Tokens = {t1, t2, t3}
  Users = {u1}
  Apps = {a1}
  Requests = {r1, r2}
  NoToken = NoToken
  NoRow = NoRow
  SlidingTTL = 1
  AbsoluteTTL = 2
  MaxTime = 1
PROPERTIES
  BurnRevokesWholeFamily
