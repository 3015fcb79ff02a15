SPECIFICATION ConsoleSpec
CONSTANTS
  Scenes = {"lifecycle", "limits", "access", "registry", "list", "user", "app"}
  Users = {u1}
  Invitations = {i1, i2, i3}
  Requests = {r1, r2}
  None = None
  Budgets = {"auth", "start", "register"}
  Evicting = {"auth"}
  Clients = {c1, c2}
  Limit <- MCLimit
  Window = 2
  NoWindow = NoWindow
  Editors = {e1}
  p1 = p1
  People = {p1, p2}
  Contested <- MCContested
  Lists = {"roles"}
  Items = {x1}
  Nobody = Nobody
  MaxCalls = 2
  a1 = a1
  a2 = a2
  Admins = {a1, a2}
  Values = {Unset, v1}
  Unset = Unset
  Code = v1
  Keep = Keep
  Providers = {"google"}
  Subjects <- MCSubjects
  Elsewhere = Elsewhere
  Handlers = {h1, h2}
  Ids = {x1, x2}
  EditedRole = x1
  HomeOrg = x1
  Protected = {x2}
  NoItem = NoItem
  Focuses <- MCFocuses
  Keepers = {k1, k2}
  TenantApp = "tenantApp"
  NewIds = {"x"}
  PlainNames = {"n", "m"}
  ReservedNames = {"platform.n", "platform.m"}
  Absent = Absent
  Chores <- MCChores
  Entries = {1, 2}
  Hits = {2}
  Fixed = {1}
  Grants = {"g"}
  PageSizes = {1, 2}
  NoRow = NoRow
  MaxAsked = 2
INVARIANTS
  ConsoleTypeOK
  NeverStranded
  OneAcceptance
  PlatformIsTheSeeds
  BudgetHeld
PROPERTIES
  ReplacementHolds
  SavesSpareTheUntouched
  AnswersLandRight
CHECK_DEADLOCK FALSE
