------------------------------- MODULE Tenancy -------------------------------
(***************************************************************************)
(* Who may do what to whom: the endpoints of the admin API, each with the  *)
(* permissions it asks for and the place it acts on, and the helpers that  *)
(* decide (checkPermission, checkPermissionForApp, resolveListScope,       *)
(* assertCallerCanGrantSystemPerms).  A helper reads the caller's roles,   *)
(* what these carry and his own permissions in three statements, while     *)
(* other admins give and take; an endpoint that hands a user permissions   *)
(* reads them all once more for that.                                      *)
(*                                                                         *)
(* Data: a place, an org or an app, is the caller's own or a foreign one.  *)
(* One request is followed.  One permission, the contested one, comes and  *)
(* goes in a behaviour, by way of one role or directly; beside it the      *)
(* caller keeps those in steady.  What an endpoint does once it may is in  *)
(* Registry, AccessControl, UserLifecycle and AccountAccess; whether rows  *)
(* exist is left out here, and so is what goes with a deleted user, org or *)
(* app and what newcomers get from the default role of an app.             *)
(***************************************************************************)
EXTENDS FiniteSets

CONSTANT Steadies  \* what a caller may keep throughout

Platforms ==
  {"platform.apps.manage", "platform.orgs.manage", "platform.users.manage",
   "platform.roles.manage", "platform.permissions.manage"}

\* isSystem: these cross the borders of apps, and are given and taken with care.
Systems == {"org.users.manage", "org.roles.manage"}

Names == Platforms \cup Systems

ASSUME SteadiesAssumption == Steadies \subseteq SUBSET Names

Places == {"home", "foreign"}

\* A target: a place, -1, or undefined.
Targets == Places \cup {"everywhere", "untold"}

VARIABLES
  contested, steady,   \* of this behaviour; never change
  linked,              \* the caller has the role ...
  carried,             \* ... which carries the contested permission
  own,                 \* he holds that one directly
  query                \* the request, and what it has read

tenancyVars == <<contested, steady, linked, carried, own, query>>

AskStages == {"idle", "links", "grants", "direct", "decide"}

\* An area of the tests' matrix, with those of its operations that have the same gate; none.
Labels ==
  {"apps.read", "apps.write", "orgs.read", "orgs.write", "roles.read", "roles.write",
   "permissions.read", "permissions.write", "users.read", "users.write", "users.delete", ""}

\* label: what the matrix of the tests calls it; by: the helper; reach: the places the
\* answer tells of or the write is made in; handed, taken: system permissions that it gives
\* a user or a role and that it takes away; whole: by replacing all that there are.
Asked ==
  [label : Labels, by : {"org", "app", "list"}, required : SUBSET Names, target : Targets,
   reach : SUBSET Places, handed : SUBSET Systems, taken : SUBSET Systems, whole : BOOLEAN]

NoAsked ==
  [label |-> "", by |-> "org", required |-> {}, target |-> "untold", reach |-> {},
   handed |-> {}, taken |-> {}, whole |-> FALSE]

Query ==
  [ask : Asked, stage : AskStages, again : BOOLEAN, role : BOOLEAN, perms : SUBSET Names,
   everLinked : BOOLEAN, everCarried : BOOLEAN, everOwn : BOOLEAN]

NoQuery ==
  [ask |-> NoAsked, stage |-> "idle", again |-> FALSE, role |-> FALSE, perms |-> {},
   everLinked |-> FALSE, everCarried |-> FALSE, everOwn |-> FALSE]

TenancyInit ==
  /\ contested \in Names /\ steady \in Steadies
  /\ linked = FALSE /\ carried = FALSE /\ own = FALSE
  /\ query = NoQuery

-----------------------------------------------------------------------------
(* The helpers, given the names they have read *)

\* Slip: without a target any org will do (bug-0001).
MutCheckPermission(perms, required, target) ==
  \/ perms \cap required \cap Platforms # {}
  \/ perms \cap required # {} /\ target \in {"home", "untold", "everywhere"}

CheckPermission(perms, required, target) ==
  \/ perms \cap required \cap Platforms # {}
  \/ perms \cap (required \ Platforms) # {} /\ target = "home"

\* Slip: whoever holds it holds it for every app (bug-0094).
MutCheckPermissionForApp(perms, required, target) == perms \cap required # {}

CheckPermissionForApp(perms, required, target) ==
  \/ perms \cap required \cap Platforms # {}
  \/ perms \cap (required \ Platforms) # {} /\ target = "home"

\* The places a list may tell of; none if it is refused.
ResolveListScope(perms, required) ==
  CASE perms \cap required \cap Platforms # {} -> Places
    [] perms \cap required \cap Platforms = {} /\ perms \cap required # {} -> {"home"}
    [] OTHER -> {}

\* Slip: any platform permission will do.
MutAssertCallerCanGrantSystemPerms(perms, names) ==
  perms \cap Platforms # {} \/ names \subseteq perms

AssertCallerCanGrantSystemPerms(perms, names) ==
  "platform.users.manage" \in perms \/ names \subseteq perms

-----------------------------------------------------------------------------
(* The endpoints *)

Ask(ask) ==
  /\ query.stage = "idle"
  /\ query' = [NoQuery EXCEPT !.ask = ask, !.stage = "links", !.everLinked = linked,
                              !.everCarried = carried, !.everOwn = own]
  /\ UNCHANGED <<contested, steady, linked, carried, own>>

\* A platform-only endpoint names no target.
AskPlatform(label, required) ==
  \E p \in Places : Ask([NoAsked EXCEPT !.label = label, !.required = required, !.reach = {p}])

UsersManage == {"platform.users.manage", "org.users.manage"}

AskUser(label, p, handed, taken, whole) ==
  Ask([NoAsked EXCEPT !.label = label, !.required = UsersManage, !.target = p, !.reach = {p},
                      !.handed = handed, !.taken = taken, !.whole = whole])

OnUser(label, p) == AskUser(label, p, {}, {}, FALSE)

\* All the user's links go, and those asked for come.
ReplaceOfUser ==
  \E p \in Places, handed, taken \in SUBSET Systems :
    AskUser("users.write", p, handed, taken \ handed, TRUE)

\* Without an org the target is -1.
ListUsers ==
  \/ \E p \in Places : OnUser("users.read", p)
  \/ Ask([NoAsked EXCEPT !.label = "users.read", !.required = UsersManage,
                         !.target = "everywhere", !.reach = Places])

GetUser == \E p \in Places : OnUser("users.read", p)

GetUserDirectPermissions == \E p \in Places : OnUser("users.read", p)

CreateUser ==
  \E p \in Places, handed \in SUBSET Systems : AskUser("users.write", p, handed, {}, FALSE)

UpdateUser == \E p \in Places : OnUser("users.write", p)

DeleteUser ==
  \E p \in Places :
    Ask([NoAsked EXCEPT !.label = "users.delete", !.required = {"platform.users.manage"},
                        !.target = p, !.reach = {p}])

AssignRole ==
  \E p \in Places, handed \in SUBSET Systems : AskUser("users.write", p, handed, {}, FALSE)

\* Guarded like the assignment (bug-0097).
RemoveRole ==
  \E p \in Places, taken \in SUBSET Systems : AskUser("users.write", p, {}, taken, FALSE)

\* Of another user: for himself the endpoint refuses at once.
SetUserRoles == ReplaceOfUser

SetUserDirectPermissions == ReplaceOfUser

ResendInvitation == \E p \in Places : OnUser("users.write", p)

ResendActivationEmail == \E p \in Places : OnUser("users.write", p)

Reset2fa == \E p \in Places : OnUser("users.write", p)

ResetPassword == \E p \in Places : OnUser("users.write", p)

RolesRead == {"platform.roles.manage", "platform.users.manage", "org.roles.manage"}

\* Without an app the target is -1.
ListRoles ==
  \E t \in Places \cup {"everywhere"} :
    Ask([NoAsked EXCEPT !.label = "roles.read", !.by = "app", !.required = RolesRead,
                        !.target = t,
                        !.reach = Places \cap (IF t = "everywhere" THEN Places ELSE {t})])

GetRole ==
  \E p \in Places :
    Ask([NoAsked EXCEPT !.label = "roles.read", !.by = "app", !.required = RolesRead,
                        !.target = p, !.reach = {p}])

AskRole(handed, taken, whole) ==
  \E p \in Places :
    Ask([NoAsked EXCEPT !.label = "roles.write", !.required = {"platform.roles.manage"},
                        !.reach = {p}, !.handed = handed, !.taken = taken, !.whole = whole])

\* What a role is to carry passes no guard.
CreateRole == \E handed \in SUBSET Systems : AskRole(handed, {}, FALSE)

UpdateRole == \E handed, taken \in SUBSET Systems : AskRole(handed, taken \ handed, TRUE)

\* Only one that no user has.
DeleteRole == AskRole({}, {}, FALSE)

PermissionsRead == {"platform.permissions.manage", "platform.users.manage"}

ListPermissions == AskPlatform("permissions.read", PermissionsRead)

GetPermission == AskPlatform("permissions.read", PermissionsRead)

CreatePermission == AskPlatform("permissions.write", {"platform.permissions.manage"})

UpdatePermission == AskPlatform("permissions.write", {"platform.permissions.manage"})

DeletePermission == AskPlatform("permissions.write", {"platform.permissions.manage"})

OrgsRead == {"platform.orgs.manage", "platform.users.manage", "org.users.manage"}

ListOrgs == Ask([NoAsked EXCEPT !.label = "orgs.read", !.by = "list", !.required = OrgsRead])

GetOrg ==
  \E p \in Places :
    Ask([NoAsked EXCEPT !.label = "orgs.read", !.required = OrgsRead, !.target = p,
                        !.reach = {p}])

CreateOrg == AskPlatform("orgs.write", {"platform.orgs.manage"})

UpdateOrg == AskPlatform("orgs.write", {"platform.orgs.manage"})

DeleteOrg == AskPlatform("orgs.write", {"platform.orgs.manage"})

AppsRead ==
  {"platform.apps.manage", "platform.orgs.manage", "platform.permissions.manage",
   "platform.roles.manage"}

ListApps == AskPlatform("apps.read", AppsRead)

GetApp == AskPlatform("apps.read", AppsRead)

CreateApp == AskPlatform("apps.write", {"platform.apps.manage"})

UpdateApp == AskPlatform("apps.write", {"platform.apps.manage"})

RotateClientSecret == AskPlatform("apps.write", {"platform.apps.manage"})

DeleteApp == AskPlatform("apps.write", {"platform.apps.manage"})

\* SocialController: of an app.
SocialSettings == AskPlatform("apps.write", {"platform.apps.manage"})

-----------------------------------------------------------------------------
(* What a request goes through *)

Go(from, q) ==
  /\ query.stage = from
  /\ query' = q
  /\ UNCHANGED <<contested, steady, linked, carried, own>>

ReadRoleLinks == Go("links", [query EXCEPT !.stage = "grants", !.role = linked])

ReadRoleGrants ==
  Go("grants", [query EXCEPT !.stage = "direct",
                             !.perms = IF query.role /\ carried THEN {contested} ELSE {}])

ReadOwnPermissions ==
  Go("direct", [query EXCEPT !.stage = "decide",
                             !.perms = @ \cup steady \cup IF own THEN {contested} ELSE {}])

Permitted(q) ==
  CASE q.ask.by = "org" -> CheckPermission(q.perms, q.ask.required, q.ask.target)
    [] q.ask.by = "app" -> CheckPermissionForApp(q.perms, q.ask.required, q.ask.target)
    [] q.ask.by = "list" -> ResolveListScope(q.perms, q.ask.required) # {}

\* The names that assertCallerCanGrantSystemPerms is called with: of a replacement those
\* that are there afterwards, and none for a role.
Guarded(ask) ==
  IF ask.label = "roles.write" THEN {}
  ELSE ask.handed \cup (IF ask.whole THEN {} ELSE ask.taken)

\* With a name to guard it reads once more.
ReadAgain ==
  /\ ~query.again /\ Guarded(query.ask) # {} /\ Permitted(query)
  /\ Go("decide", [query EXCEPT !.stage = "links", !.again = TRUE, !.role = FALSE, !.perms = {}])

Reach(q) ==
  IF q.ask.by = "list" THEN ResolveListScope(q.perms, q.ask.required) ELSE q.ask.reach

\* The handler does what it was asked to do.
Comply ==
  /\ IF query.again THEN AssertCallerCanGrantSystemPerms(query.perms, Guarded(query.ask))
                    ELSE Guarded(query.ask) = {} /\ Permitted(query)
  /\ Go("decide", NoQuery)

\* 403, or any other failure.
Refuse ==
  /\ query.stage # "idle"
  /\ Go(query.stage, NoQuery)

\* Other admins give and take.
GiveOrTake ==
  /\ \/ linked' = ~linked /\ UNCHANGED <<carried, own>>
     \/ carried' = ~carried /\ UNCHANGED <<linked, own>>
     \/ own' = ~own /\ UNCHANGED <<linked, carried>>
  /\ query' = IF query.stage = "idle" THEN query
              ELSE [query EXCEPT !.everLinked = @ \/ linked', !.everCarried = @ \/ carried',
                                 !.everOwn = @ \/ own']
  /\ UNCHANGED <<contested, steady>>

TenancyNext ==
  \/ ListUsers \/ GetUser \/ GetUserDirectPermissions \/ CreateUser \/ UpdateUser \/ DeleteUser
  \/ AssignRole \/ RemoveRole \/ SetUserRoles \/ SetUserDirectPermissions
  \/ ResendInvitation \/ ResendActivationEmail \/ Reset2fa \/ ResetPassword
  \/ ListRoles \/ GetRole \/ CreateRole \/ UpdateRole \/ DeleteRole
  \/ ListPermissions \/ GetPermission \/ CreatePermission \/ UpdatePermission
  \/ DeletePermission
  \/ ListOrgs \/ GetOrg \/ CreateOrg \/ UpdateOrg \/ DeleteOrg
  \/ ListApps \/ GetApp \/ CreateApp \/ UpdateApp \/ RotateClientSecret \/ DeleteApp
  \/ SocialSettings
  \/ ReadRoleLinks \/ ReadRoleGrants \/ ReadOwnPermissions \/ ReadAgain \/ Comply \/ Refuse
  \/ GiveOrTake

TenancySpec == TenancyInit /\ [][TenancyNext]_tenancyVars

-----------------------------------------------------------------------------
(* Properties *)

TenancyTypeOK ==
  /\ contested \in Names /\ steady \in Steadies
  /\ {linked, carried, own} \subseteq BOOLEAN
  /\ query \in Query

\* GATE of test/matrix/permissions-matrix.ts.
Gate(label) ==
  CASE label = "apps.read" ->
         {"platform.apps.manage", "platform.orgs.manage", "platform.permissions.manage",
          "platform.roles.manage"}
    [] label = "apps.write" -> {"platform.apps.manage"}
    [] label = "orgs.read" -> {"platform.orgs.manage", "platform.users.manage", "org.users.manage"}
    [] label = "orgs.write" -> {"platform.orgs.manage"}
    [] label = "roles.read" ->
         {"platform.roles.manage", "platform.users.manage", "org.roles.manage"}
    [] label = "roles.write" -> {"platform.roles.manage"}
    [] label = "permissions.read" -> {"platform.permissions.manage", "platform.users.manage"}
    [] label = "permissions.write" -> {"platform.permissions.manage"}
    [] label = "users.delete" -> {"platform.users.manage"}
    [] OTHER -> {"platform.users.manage", "org.users.manage"}

\* While the request was under way: directly, or by a role that he had at some time and
\* that carried it at some time, though maybe at another one.
WasHeldBy(q, p) ==
  \/ p \in steady
  \/ p = contested /\ (q.everOwn \/ (q.everLinked /\ q.everCarried))

\* He had a part in p himself, or manages all the users.
Entrusted(q, p) == WasHeldBy(q, p) \/ WasHeldBy(q, "platform.users.manage")

\* However rights change while requests run: what is done was asked for by one who held,
\* at some time during his request, a permission that the matrix of the tests has for it;
\* without one of the platform's it stays in his own org or app, lists included.  He hands
\* a user no system permission that he was not entrusted with, by way of a role or not, nor
\* does he take away a single role that carries one.  Whoever may write roles hands any to
\* those who have them.  What removeRole's guard is for (bug-0097), that nobody is stripped
\* of what the caller was not entrusted with, does not hold of the two endpoints that replace
\* all the roles or all the permissions of a user: they guard only what he is to have.
OnlyTheEntitled ==
  [][Comply =>
       /\ \E p \in Gate(query.ask.label) :
            WasHeldBy(query, p) /\ (p \in Platforms \/ Reach(query) \subseteq {"home"})
       /\ query.ask.label # "roles.write" =>
            /\ \A p \in query.ask.handed : Entrusted(query, p)
            /\ query.ask.whole \/ \A p \in query.ask.taken : Entrusted(query, p)]_tenancyVars
=============================================================================
