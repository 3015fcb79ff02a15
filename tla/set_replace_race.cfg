SPECIFICATION AccessSpec
CONSTANTS
  Handlers = {h1, h2}
  Ids = {x1, x2}
  EditedRole = x1
  HomeOrg = x1
  Protected = {x2}
  NoItem = NoItem
  Focuses = {{"SaUserRole"}, {"SaUserPermission"}}
PROPERTIES
  SwapIsAtomic
