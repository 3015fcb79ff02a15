------------------------------- MODULE Registry -------------------------------
(***************************************************************************)
(* The rows that admins make, rename and delete: apps, orgs, roles and     *)
(* permissions.  A handler looks at the row it was given, or at the app it *)
(* makes the row for, and writes in a later statement, by id; the database *)
(* keeps names unique and what is referred to in place.  The platform's    *)
(* own rows come from the seed and stay as they are, and no other row may  *)
(* come to look like one of them.                                          *)
(*                                                                         *)
(* Data: names that the code does not tell apart are one of a few; a       *)
(* permission's name is reserved or not (isPlatform, whatever its case).   *)
(* The making of a row with its publicId is one transaction.  Permissions  *)
(* of a role and redirect URIs are in AccessControl, who may call in       *)
(* Tenancy.                                                                *)
(***************************************************************************)
EXTENDS FiniteSets

CONSTANTS
  Keepers,         \* handlers at the same time
  TenantApp,       \* an app that is there from the beginning
  NewIds,          \* ids of rows to come; never used twice
  PlainNames,
  ReservedNames,   \* platform.*, one of them the seed's
  Absent           \* no row

RegistryKinds == {"app", "org", "role", "permission"}

AllNames == PlainNames \cup ReservedNames

\* The seed's rows: an app, its org, and a permission that is reserved by its name, as
\* the platform.* ones are, or by isSystem, as the org.* ones are.
SeededIds == {"platformApp", "platformOrg", "platformPermission", "systemPermission"}

RowIds == SeededIds \cup {TenantApp} \cup NewIds

VARIABLES
  topic,           \* the kind of rows made and renamed in a behaviour; never changes
  registry,        \* the rows
  spent,           \* the ids given out
  used,            \* orgs with users, orgs and roles that are some app's default
  keeper           \* the handlers in flight

registryVars == <<topic, registry, spent, used, keeper>>

\* app: the row's app, for an app itself; platform: isPlatform or isSystem.
RegistryRow ==
  [kind : RegistryKinds, app : RowIds, name : AllNames, platform : BOOLEAN]

ASSUME RegistryAssumption ==
  /\ PlainNames # {} /\ ReservedNames # {} /\ PlainNames \cap ReservedNames = {}
  /\ TenantApp \notin SeededIds /\ NewIds \cap (SeededIds \cup {TenantApp}) = {}
  /\ Absent \notin RowIds \cup AllNames \cup RegistryRow

NewRegistryRow(kind, app, name, platform) ==
  [kind |-> kind, app |-> app, name |-> name, platform |-> platform]

SomeName == CHOOSE n \in PlainNames : TRUE

SeedName == CHOOSE n \in ReservedNames : TRUE

SeedRow(id) ==
  CASE id = "platformApp" -> NewRegistryRow("app", id, SeedName, TRUE)
    [] id = "platformOrg" -> NewRegistryRow("org", "platformApp", SeedName, TRUE)
    [] id = "platformPermission" -> NewRegistryRow("permission", "platformApp", SeedName, FALSE)
    [] id = "systemPermission" -> NewRegistryRow("permission", "platformApp", SomeName, TRUE)

\* doing: what the handler has looked up and is about to write.
Keeper ==
  [doing : {"rest", "create", "rename", "delete"}, id : RowIds \cup {Absent},
   name : AllNames \cup {Absent}]

AtRest == [doing |-> "rest", id |-> Absent, name |-> Absent]

RegistryInit ==
  /\ topic \in RegistryKinds
  /\ registry = [id \in RowIds |->
       IF id \in SeededIds THEN SeedRow(id)
       ELSE IF id = TenantApp THEN NewRegistryRow("app", id, SomeName, FALSE)
       ELSE Absent]
  /\ spent = {} /\ used = {}
  /\ keeper = [k \in Keepers |-> AtRest]

There(id) == registry[id] # Absent

IsA(id, kind) == There(id) /\ registry[id].kind = kind

\* @unique on the names of apps and permissions, @@unique([appId, name]) on the others.
Taken(id, row) ==
  \E other \in RowIds \ {id} :
    /\ There(other) /\ registry[other].kind = row.kind /\ registry[other].name = row.name
    /\ row.kind \in {"org", "role"} => registry[other].app = row.app

\* isPlatform of PermissionsService.
IsPlatform(name) == name \in ReservedNames

Take(k, doing, id, name) ==
  /\ keeper[k].doing = "rest"
  /\ keeper' = [keeper EXCEPT ![k] = [doing |-> doing, id |-> id, name |-> name]]
  /\ UNCHANGED <<topic, registry, spent, used>>

Put(k, id, row) ==
  /\ registry' = [registry EXCEPT ![id] = row]
  /\ keeper' = [keeper EXCEPT ![k] = AtRest]

-----------------------------------------------------------------------------
(* What a handler looks at first *)

\* The app is there, and not the platform's.
BeginCreateOrg(k, app, name) ==
  /\ topic = "org" /\ IsA(app, "app") /\ ~registry[app].platform
  /\ Take(k, "create", app, name)

BeginCreateRole(k, app, name) ==
  /\ topic = "role" /\ IsA(app, "app")
  /\ Take(k, "create", app, name)

BeginCreatePermission(k, app, name) ==
  /\ topic = "permission" /\ ~IsPlatform(name) /\ IsA(app, "app")
  /\ Take(k, "create", app, name)

\* Nothing is looked at.
BeginCreateApp(k, name) ==
  /\ topic = "app"
  /\ Take(k, "create", Absent, name)

\* Slip: only the name it has is looked at (bug-0096).
MutMayRename(row, name) == ~IsPlatform(row.name) /\ ~row.platform

MayRename(row, name) == ~IsPlatform(row.name) /\ ~row.platform /\ ~IsPlatform(name)

BeginUpdatePermission(k, id, name) ==
  /\ topic = "permission" /\ IsA(id, "permission") /\ MayRename(registry[id], name)
  /\ Take(k, "rename", id, name)

BeginDeletePermission(k, id) ==
  /\ IsA(id, "permission") /\ ~IsPlatform(registry[id].name) /\ ~registry[id].platform
  /\ Take(k, "delete", id, Absent)

BeginUpdateOrg(k, id, name) ==
  /\ topic = "org" /\ IsA(id, "org") /\ ~registry[id].platform
  /\ Take(k, "rename", id, name)

\* Nothing but that the row is there: the platform's roles are like any others.
BeginUpdateRole(k, id, name) ==
  /\ topic = "role" /\ IsA(id, "role")
  /\ Take(k, "rename", id, name)

BeginDeleteRole(k, id) ==
  /\ IsA(id, "role")
  /\ Take(k, "delete", id, Absent)

BeginUpdateApp(k, id, name) ==
  /\ topic = "app" /\ IsA(id, "app") /\ ~registry[id].platform
  /\ Take(k, "rename", id, name)

BeginDeleteOrg(k, id) ==
  /\ IsA(id, "org") /\ ~registry[id].platform
  /\ Take(k, "delete", id, Absent)

BeginDeleteApp(k, id) ==
  /\ IsA(id, "app") /\ ~registry[id].platform
  /\ Take(k, "delete", id, Absent)

-----------------------------------------------------------------------------
(* What it writes, unless the database refuses *)

WriteCreate(k) ==
  LET c == keeper[k] IN
  /\ c.doing = "create"
  /\ c.id # Absent => There(c.id)
  /\ NewIds \ spent # {}
  /\ LET id == CHOOSE free \in NewIds \ spent : TRUE
         row == NewRegistryRow(topic, IF c.id = Absent THEN id ELSE c.id, c.name, FALSE)
     IN /\ ~Taken(id, row) /\ Put(k, id, row)
        /\ spent' = spent \cup {id}
  /\ UNCHANGED <<topic, used>>

WriteRename(k) ==
  LET c == keeper[k] IN
  /\ c.doing = "rename" /\ There(c.id)
  /\ LET row == [registry[c.id] EXCEPT !.name = c.name] IN ~Taken(c.id, row) /\ Put(k, c.id, row)
  /\ UNCHANGED <<topic, spent, used>>

ReferredTo(id) ==
  id \in used \/ \E other \in RowIds \ {id} : There(other) /\ registry[other].app = id

WriteDelete(k) ==
  LET c == keeper[k] IN
  /\ c.doing = "delete" /\ There(c.id) /\ ~ReferredTo(c.id)
  /\ Put(k, c.id, Absent)
  /\ UNCHANGED <<topic, spent, used>>

\* 404, 409 or 500.
GiveUp(k) ==
  /\ keeper[k].doing # "rest"
  /\ keeper' = [keeper EXCEPT ![k] = AtRest]
  /\ UNCHANGED <<topic, registry, spent, used>>

\* createUser, and the choice of an app's defaults.
Use(id) ==
  /\ IsA(id, "org") \/ IsA(id, "role")
  /\ used' = IF id \in used THEN used \ {id} ELSE used \cup {id}
  /\ UNCHANGED <<topic, registry, spent, keeper>>

RegistryNext ==
  \/ \E k \in Keepers, name \in AllNames :
       \/ BeginCreateApp(k, name)
       \/ \E id \in RowIds :
            \/ BeginCreateOrg(k, id, name) \/ BeginCreateRole(k, id, name)
            \/ BeginCreatePermission(k, id, name)
            \/ BeginUpdatePermission(k, id, name) \/ BeginUpdateOrg(k, id, name)
            \/ BeginUpdateRole(k, id, name) \/ BeginUpdateApp(k, id, name)
  \/ \E k \in Keepers, id \in RowIds :
       \/ BeginDeletePermission(k, id) \/ BeginDeleteRole(k, id)
       \/ BeginDeleteOrg(k, id) \/ BeginDeleteApp(k, id)
  \/ \E k \in Keepers : WriteCreate(k) \/ WriteRename(k) \/ WriteDelete(k) \/ GiveUp(k)
  \/ \E id \in RowIds : Use(id)

RegistrySpec == RegistryInit /\ [][RegistryNext]_registryVars

-----------------------------------------------------------------------------
(* Properties *)

RegistryTypeOK ==
  /\ topic \in RegistryKinds
  /\ registry \in [RowIds -> RegistryRow \cup {Absent}]
  /\ spent \subseteq NewIds /\ used \subseteq RowIds
  /\ keeper \in [Keepers -> Keeper]

Reserved(row) ==
  \/ row.platform
  \/ row.kind = "permission" /\ IsPlatform(row.name)
  \/ row.kind = "org" /\ registry[row.app].platform

\* Whatever is made, renamed and deleted at the same time, by those who may: the rows
\* that the code takes for the platform's are those of the seed, unchanged, and no row
\* points to one that is gone.
PlatformIsTheSeeds ==
  /\ \A id \in RowIds : There(id) => There(registry[id].app)
  /\ \A id \in SeededIds : registry[id] = SeedRow(id)
  /\ \A id \in RowIds : There(id) /\ Reserved(registry[id]) => id \in SeededIds
=============================================================================
