------------------------------ MODULE MCConsole ------------------------------
(***************************************************************************)
(* Parts that share no state, one of them active in a behaviour and the    *)
(* others at rest: what an admin goes through to work on users, roles and  *)
(* apps (the limits of what is asked, the life of a user, the rows behind  *)
(* who may do what, the rows of apps, orgs, roles and permissions, the     *)
(* pages that list them, the user's drawer, the app's drawer).             *)
(***************************************************************************)
EXTENDS UserLifecycle, RateLimits, AccessControl, Registry, ListPages, UserDrawer,
  AppSettings, TLC

CONSTANTS
  a1, a2,          \* admins
  p1,              \* a user
  Scenes           \* the parts to look at

VARIABLE scene     \* the active one; never changes

\* Two fields, so that the saving of one finds the other changed; else both admins, or
\* one and another client, at the same.
MCSubjects ==
  {a1 :> {"name"} @@ a2 :> {"logo"} @@ Elsewhere :> {"method"},
   a1 :> {"hook"} @@ a2 :> {} @@ Elsewhere :> {"hook"},
   a1 :> {"method"} @@ a2 :> {"method"} @@ Elsewhere :> {"method"},
   a1 :> {"social"} @@ a2 :> {"social"} @@ Elsewhere :> {},
   a1 :> {"social"} @@ a2 :> {} @@ Elsewhere :> {"social", "method"}}

MCContested == {<<p1, "roles">>}

\* One table in a behaviour.
MCFocuses == {{t} : t \in Tables}

\* What goes together on each of the pages.
MCChores ==
  "roles" :> {{"search", "view"}, {"size"}, {"view", "edit", "grant"}, {"view", "delete", "use"},
              {"search", "delete", "remove"}, {"search", "create"}}
    @@ "permissions" :> {{"view", "edit", "delete"}}
    @@ "orgs" :> {{"view", "edit", "delete"}}
    @@ "apps" :> {{"view", "delete", "remove"}}

MCLimit == "auth" :> 2 @@ "start" :> 1 @@ "register" :> 0

Rest(active, resting) == IF scene = active THEN TRUE ELSE UNCHANGED resting

\* A part at rest is in one initial state only.
ConsoleInit ==
  /\ scene \in Scenes
  /\ Init /\ RatesInit
  /\ AccessInit
  /\ scene # "access" => focus = {"SaUserRole"} /\ \A t \in Tables : links[t] = {}
  /\ RegistryInit
  /\ scene # "registry" => topic = "app"
  /\ DrawerInit
  /\ scene # "user" => \A p \in People, x \in Axes : access[p][x] = {}
  /\ SettingsInit
  /\ scene # "app" => subject[a1] = {"method"} /\ \A f \in Fields : saApp[f] = Unset
  /\ ListInit
  /\ scene # "list" => "size" \in chores /\ tab.filter.size = 1 /\ \A r \in Entries : stored[r] = NewRow
  /\ "search" \in chores => tab.filter.size = 1
  /\ chores \cap {"search", "size"} = {} => tab.filter.size = 2

ConsoleNext ==
  /\ \/ scene = "lifecycle" /\ Next
     \/ scene = "limits" /\ RatesNext
     \/ scene = "access" /\ AccessNext
     \/ scene = "registry" /\ RegistryNext
     \/ scene = "list" /\ ListNext
     \/ scene = "user" /\ DrawerNext
     \/ scene = "app" /\ SettingsNext
  /\ Rest("lifecycle", vars) /\ Rest("limits", rateVars)
  /\ Rest("access", accessVars) /\ Rest("registry", registryVars)
  /\ Rest("list", listVars) /\ Rest("user", drawerVars) /\ Rest("app", settingsVars)
  /\ UNCHANGED scene

ConsoleVars ==
  <<vars, rateVars, accessVars, registryVars, listVars, drawerVars, settingsVars,
    scene>>

ConsoleSpec == ConsoleInit /\ [][ConsoleNext]_ConsoleVars

\* The state of every part has its type.
ConsoleTypeOK ==
  /\ scene = "lifecycle" => TypeOK
  /\ scene = "limits" => RatesTypeOK
  /\ scene = "access" => AccessTypeOK
  /\ scene = "registry" => RegistryTypeOK
  /\ scene = "list" => ListTypeOK
  /\ scene = "user" => DrawerTypeOK
  /\ scene = "app" => SettingsTypeOK

\* Saving writes what the admin changed and nothing else, in each of the drawers that
\* start from what they once loaded: the user's (handleSave), the app's and the role's
\* (handleSubmit).  What others have written to the rest in the meantime stands.
SavesSpareTheUntouched == [][AxesSpared /\ SettingsSpared /\ GrantsSpared]_ConsoleVars
=============================================================================
