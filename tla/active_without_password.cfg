SPECIFICATION Spec
CONSTANTS
  Users = {u1}
  Invitations = {i1}
  Requests = {r1}
  None = None
INVARIANTS
  ActiveHasCredential
CHECK_DEADLOCK FALSE
