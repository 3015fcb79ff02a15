SPECIFICATION Spec
CONSTANTS
  Tokens = {t1, t2, t3, t4}
  Users = {u1}
  Apps = {a1}
  Requests = {r1, r2}
  NoToken = NoToken
  NoRow = NoRow
  SlidingTTL = 1
  AbsoluteTTL = 1
  MaxTime = 2
SYMMETRY Symmetry
INVARIANTS
  TypeOK
  AtMostOneLive
  RotationChain
  LifetimeBounded
PROPERTIES
  BurnIsComplete
  ImplementsFamilies
