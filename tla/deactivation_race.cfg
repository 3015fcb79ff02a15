SPECIFICATION Spec
CONSTANTS
  Users = {u1}
  Creds = {c1, c2}
  Requests = {r1, r2}
  None = None
INVARIANTS
  LoggedOutEverywhere
