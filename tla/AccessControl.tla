---------------------------- MODULE AccessControl ----------------------------
(***************************************************************************)
(* The rows behind roles, permissions and organizations, and the handlers  *)
(* that write them: set-replacement of a user's roles, of a user's direct  *)
(* permissions, of a role's permissions and of an app's redirect URIs      *)
(* (deleteMany and createMany in one transaction), assignRole, removeRole, *)
(* createRole and its like, and the deletions with their cascades.         *)
(*                                                                         *)
(* PostgreSQL at READ COMMITTED: a DELETE sees the rows committed when it  *)
(* starts, waits for those another transaction has deleted, then skips     *)
(* them - and does not see what that transaction put in their place.  An   *)
(* INSERT waits for a transaction in flight on its key.  A transaction     *)
(* that waits too long is rolled back.                                     *)
(*                                                                         *)
(* Data: one user, one role whose permissions are edited, one app; the     *)
(* rows that links point to are Ids of a kind.  Names, the check of the    *)
(* caller's own permission and the refusals that write nothing are left    *)
(* out.                                                                    *)
(***************************************************************************)
EXTENDS FiniteSets

CONSTANTS
  Handlers,        \* requests in flight at the same time
  Ids,           \* roles, permissions, organizations or URIs
  EditedRole,      \* the role of SaRolePermission
  HomeOrg,         \* the organization of the user
  Protected,       \* permissions that are platform.* or isSystem
  NoItem,          \* null
  Focuses          \* the tables of a behaviour, one set of them each

ASSUME AccessAssumption ==
  EditedRole \in Ids /\ HomeOrg \in Ids /\ Protected \subseteq Ids /\ NoItem \notin Ids

Tables == {"SaUserRole", "SaUserPermission", "SaRolePermission", "SaAppRedirectUri"}

RowKinds == {"role", "permission", "org"}

\* What a link of the table points to; a URI is a text of its own.
Target(t) ==
  CASE t = "SaUserRole" -> {"role"}
    [] t \in {"SaUserPermission", "SaRolePermission"} -> {"permission"}
    [] OTHER -> {}

VARIABLES
  focus,           \* the tables written in this behaviour; never changes
  links,           \* per table, the items its owner is linked to
  rows,            \* per kind, the rows that exist
  defaults,        \* defaultRoleId and defaultOrgId of the app
  call             \* the handlers in flight

accessVars == <<focus, links, rows, defaults, call>>

CallPhases == {"rest", "resolved", "locked", "deleting", "deleted", "inserted", "erased"}

\* wanted: the ids the handler resolved; named: whether its body has columns of the
\* owner's row too; targets: the links its DELETE took up; swapped: what replacements
\* have linked since; loose: what was linked since by one that did not lock the owner,
\* a replacement or an assignment.
Call == [phase : CallPhases, op : {"replace", "assign", "remove", "erase"}, table : Tables,
         kind : RowKinds, wanted : SUBSET Ids, named : BOOLEAN,
         targets : SUBSET Ids, swapped : SUBSET Ids, loose : SUBSET Ids]

NoCall == [phase |-> "rest", op |-> "replace", table |-> "SaUserRole", kind |-> "role",
           wanted |-> {}, named |-> FALSE, targets |-> {}, swapped |-> {}, loose |-> {}]

\* The kinds of rows that come and go in this behaviour.
FocusKinds ==
  UNION {Target(t) : t \in focus}
  \cup (IF "SaRolePermission" \in focus THEN {"role"} ELSE {})
  \cup (IF "SaAppRedirectUri" \in focus THEN {"org"} ELSE {})

\* Those that become the app's default.
FocusDefaults ==
  (IF "SaRolePermission" \in focus THEN {"role"} ELSE {})
  \cup (IF "SaAppRedirectUri" \in focus THEN {"org"} ELSE {})

AccessInit ==
  /\ focus \in Focuses
  /\ links \in {l \in [Tables -> {{}, {EditedRole}}] : \A t \in Tables \ focus : l[t] = {}}
  /\ rows = [k \in RowKinds |-> IF \E t \in focus : k \in Target(t) THEN Ids ELSE {HomeOrg, EditedRole}]
  /\ defaults = [k \in {"role", "org"} |-> NoItem]
  /\ call = [h \in Handlers |-> NoCall]

Others(h) == Handlers \ {h}

\* Slip: the URIs are replaced first, and the app updated after.
MutLocksOwner(c) == c.named /\ c.table = "SaRolePermission"

\* updateRole updates the role's row first when it has a name.  updateApp always calls
\* update, but with nothing besides redirectUris in its body that is only a read; the
\* handlers of a user never touch the user's row.
LocksOwner(c) == c.named

OwnerLockedBy(H, t) ==
  \E g \in H :
    /\ call[g].table = t /\ LocksOwner(call[g])
    /\ call[g].phase \in {"locked", "deleting", "deleted", "inserted"}

OwnerLocked(h, t) == OwnerLockedBy(Others(h), t)

\* The keys of t that g has deleted or inserted and not committed.
KeysHeld(g, t) ==
  LET c == call[g] IN
  IF c.table # t THEN {}
  ELSE CASE c.phase \in {"deleted", "erased"} -> c.targets
         [] c.phase = "inserted" -> c.targets \cup c.wanted
         [] OTHER -> {}

KeysBusy(h, t) == UNION {KeysHeld(g, t) : g \in Others(h)}

\* Rows being deleted, for all who would link to them.
ErasedBy(H, k) ==
  UNION {call[g].wanted : g \in {f \in H : call[f].phase = "erased" /\ call[f].kind = k}}

RowsErased(h, k) == ErasedBy(Others(h), k)

\* The foreign-key locks of links inserted and not committed.
RowsShared(h, k) ==
  UNION {call[g].wanted : g \in {f \in Others(h) : /\ call[f].phase = "inserted"
                                                   /\ k \in Target(call[f].table)}}
  \cup IF k = "role" /\ \E g \in Others(h) : /\ call[g].phase = "inserted"
                                             /\ call[g].table = "SaRolePermission"
       THEN {EditedRole} ELSE {}

OwnerExists(t) == t = "SaRolePermission" => EditedRole \in rows["role"]

Known(t, W) == \A k \in Target(t) : W \subseteq rows[k]

At(h, phase) == call[h].phase = phase

Go(h, c) == call' = [call EXCEPT ![h] = c]

\* A commit of links of t, as the others find it.
Tell(h, t, swapped, loose, removed) ==
  call' = [g \in Handlers |->
    IF g = h THEN NoCall
    ELSE IF call[g].table # t \/ call[g].phase \notin {"deleting", "deleted", "inserted"}
      THEN call[g]
    ELSE [call[g] EXCEPT !.targets = @ \ removed, !.swapped = @ \cup swapped,
                      !.loose = @ \cup loose]]

-----------------------------------------------------------------------------
(* setUserRoles, setUserDirectPermissions, updateRole, updateApp *)

\* Ids are resolved and checked against the app before the transaction.
Resolve(h, t, W, named) ==
  /\ At(h, "rest") /\ t \in focus /\ OwnerExists(t) /\ Known(t, W)
  /\ named => t \in {"SaRolePermission", "SaAppRedirectUri"}
  /\ Go(h, [NoCall EXCEPT !.phase = "resolved", !.table = t, !.wanted = W, !.named = named])
  /\ UNCHANGED <<focus, links, rows, defaults>>

UpdateOwner(h) ==
  LET c == call[h] IN
  /\ At(h, "resolved") /\ c.op = "replace" /\ LocksOwner(c)
  /\ ~OwnerLocked(h, c.table) /\ OwnerExists(c.table)
  /\ c.table = "SaRolePermission" => EditedRole \notin RowsErased(h, "role") \cup RowsShared(h, "role")
  /\ Go(h, [c EXCEPT !.phase = "locked"])
  /\ UNCHANGED <<focus, links, rows, defaults>>

\* The DELETE of deleteMany starts; deleteRole has one too.
StartDelete(h) ==
  LET c == call[h] IN
  /\ \/ At(h, "locked")
     \/ At(h, "resolved") /\ c.op = "replace" /\ ~LocksOwner(c)
     \/ At(h, "resolved") /\ c.op = "erase" /\ c.kind = "role" /\ c.wanted = {EditedRole}
  /\ Go(h, [c EXCEPT !.phase = "deleting", !.targets = links[c.table]])
  /\ UNCHANGED <<focus, links, rows, defaults>>

\* Slip: the links deleted are those that were to be there no more.
MutFinishDelete(h) ==
  /\ At(h, "deleting") /\ call[h].targets \cap KeysBusy(h, call[h].table) = {}
  /\ Go(h, [call[h] EXCEPT !.phase = "deleted", !.targets = @ \cap call[h].wanted])
  /\ UNCHANGED <<focus, links, rows, defaults>>

\* It has every row it saw that is still there.
FinishDelete(h) ==
  /\ At(h, "deleting") /\ call[h].targets \cap KeysBusy(h, call[h].table) = {}
  /\ Go(h, [call[h] EXCEPT !.phase = "deleted"])
  /\ UNCHANGED <<focus, links, rows, defaults>>

Collides(c) == c.wanted \cap (links[c.table] \ c.targets) # {}

Dangles(h) == ~Known(call[h].table, call[h].wanted) \/ ~OwnerExists(call[h].table)

\* createMany; a key that is there by now, or an item that is gone, rolls all back.
InsertLinks(h) ==
  LET c == call[h] IN
  /\ At(h, "deleted") /\ c.op = "replace"
  /\ c.wanted \cap KeysBusy(h, c.table) = {}
  /\ \A k \in Target(c.table) : c.wanted \cap RowsErased(h, k) = {}
  /\ c.table = "SaRolePermission" => EditedRole \notin RowsErased(h, "role")
  /\ Go(h, IF c.wanted # {} /\ (Collides(c) \/ Dangles(h)) THEN NoCall
           ELSE [c EXCEPT !.phase = "inserted"])
  /\ UNCHANGED <<focus, links, rows, defaults>>

CommitLinks(h) ==
  LET c == call[h] IN
  /\ At(h, "inserted")
  /\ links' = [links EXCEPT ![c.table] = (@ \ c.targets) \cup c.wanted]
  /\ Tell(h, c.table, c.wanted, IF c.named THEN {} ELSE c.wanted, c.targets)
  /\ UNCHANGED <<focus, rows, defaults>>

-----------------------------------------------------------------------------
(* assignRole and removeRole: the role is read, then one statement *)

ReadRole(h, op, x) ==
  /\ At(h, "rest") /\ "SaUserRole" \in focus /\ x \in rows["role"]
  /\ Go(h, [NoCall EXCEPT !.phase = "resolved", !.op = op, !.wanted = {x}])
  /\ UNCHANGED <<focus, links, rows, defaults>>

\* An assignment that is there already is a success; a role that is gone is not.
AssignRole(h) ==
  LET c == call[h] IN
  /\ At(h, "resolved") /\ c.op = "assign"
  /\ c.wanted \cap (KeysBusy(h, "SaUserRole") \cup RowsErased(h, "role")) = {}
  /\ IF c.wanted \subseteq rows["role"]
       THEN /\ links' = [links EXCEPT !["SaUserRole"] = @ \cup c.wanted]
            /\ Tell(h, "SaUserRole", {}, c.wanted, {})
       ELSE Go(h, NoCall) /\ UNCHANGED links
  /\ UNCHANGED <<focus, rows, defaults>>

\* One that is not there is removed with success.
RemoveRole(h) ==
  LET c == call[h] IN
  /\ At(h, "resolved") /\ c.op = "remove"
  /\ c.wanted \cap KeysBusy(h, "SaUserRole") = {}
  /\ links' = [links EXCEPT !["SaUserRole"] = @ \ c.wanted]
  /\ Tell(h, "SaUserRole", {}, {}, c.wanted)
  /\ UNCHANGED <<focus, rows, defaults>>

-----------------------------------------------------------------------------
(* The rows themselves *)

\* createRole, createPermission, createOrg: a taken name is refused.
CreateRow(k, x) ==
  /\ k \in FocusKinds
  /\ x \notin rows[k] \cup ErasedBy(Handlers, k)
  /\ rows' = [rows EXCEPT ![k] = @ \cup {x}]
  /\ UNCHANGED <<focus, links, defaults, call>>

\* deleteOrg: refused for the platform's, one with users, or the app's default.
DeleteOrg(x) ==
  /\ "org" \in FocusKinds
  /\ x \in rows["org"] \ {HomeOrg, defaults["org"]}
  /\ rows' = [rows EXCEPT !["org"] = @ \ {x}]
  /\ UNCHANGED <<focus, links, defaults, call>>

\* updateApp: a role or organization of the app, checked first and by the foreign
\* key again, or none.
SetDefault(k, x) ==
  /\ x \in (rows[k] \ ErasedBy(Handlers, k)) \cup {NoItem}
  /\ k \in FocusDefaults
  /\ defaults[k] # x
  /\ ~OwnerLockedBy(Handlers, "SaAppRedirectUri")
  /\ defaults' = [defaults EXCEPT ![k] = x]
  /\ UNCHANGED <<focus, links, rows, call>>

\* deleteRole and deletePermission find the row.
StartErase(h, k, x) ==
  /\ At(h, "rest") /\ k \in FocusKinds \cap {"role", "permission"}
  /\ x \in rows[k] /\ (k = "permission" => x \notin Protected)
  /\ Go(h, [NoCall EXCEPT !.phase = "resolved", !.op = "erase", !.kind = k, !.wanted = {x},
                          !.table = IF k = "role" THEN "SaRolePermission" ELSE @])
  /\ UNCHANGED <<focus, links, rows, defaults>>

\* It is locked; one that is gone, or the app's default role, is an error.
EraseRow(h) ==
  LET c == call[h] IN
  /\ c.op = "erase"
  /\ \/ At(h, "deleted")
     \/ At(h, "resolved") /\ ~(c.kind = "role" /\ c.wanted = {EditedRole})
  /\ c.wanted \cap (RowsShared(h, c.kind) \cup RowsErased(h, c.kind)) = {}
  /\ c.kind = "role" /\ c.wanted = {EditedRole} => ~OwnerLocked(h, "SaRolePermission")
  /\ Go(h, IF c.wanted \subseteq rows[c.kind] /\ (c.kind = "role" => defaults["role"] \notin c.wanted)
           THEN [c EXCEPT !.phase = "erased"] ELSE NoCall)
  /\ UNCHANGED <<focus, links, rows, defaults>>

\* What the cascades take along: links to the row, and the permissions of a role.
Cascaded(c, t) ==
  IF c.kind \in Target(t) THEN c.wanted
  ELSE IF t = "SaRolePermission" /\ c.kind = "role" /\ c.wanted = {EditedRole} THEN Ids
  ELSE {}

\* They wait for links under way; then all is committed.
CommitErase(h) ==
  LET c == call[h] IN
  /\ At(h, "erased")
  /\ \A t \in Tables : Cascaded(c, t) \cap KeysBusy(h, t) = {}
  /\ links' = [t \in Tables |-> links[t] \ Cascaded(c, t)]
  /\ rows' = [rows EXCEPT ![c.kind] = @ \ c.wanted]
  /\ call' = [g \in Handlers |->
       IF g = h THEN NoCall
       ELSE [call[g] EXCEPT !.targets = @ \ Cascaded(c, call[g].table)]]
  /\ UNCHANGED <<focus, defaults>>

\* The transaction timed out, lost a deadlock, or its process died.
RollBack(h) ==
  /\ ~At(h, "rest")
  /\ Go(h, NoCall)
  /\ UNCHANGED <<focus, links, rows, defaults>>

-----------------------------------------------------------------------------
HandlerStep(h) ==
  \/ \E t \in Tables, W \in SUBSET Ids, named \in BOOLEAN : Resolve(h, t, W, named)
  \/ UpdateOwner(h) \/ StartDelete(h) \/ FinishDelete(h) \/ InsertLinks(h) \/ CommitLinks(h)
  \/ \E op \in {"assign", "remove"}, x \in Ids : ReadRole(h, op, x)
  \/ AssignRole(h) \/ RemoveRole(h)
  \/ \E k \in RowKinds, x \in Ids : StartErase(h, k, x)
  \/ EraseRow(h) \/ CommitErase(h) \/ RollBack(h)

AccessNext ==
  \/ \E h \in Handlers : HandlerStep(h)
  \/ \E k \in RowKinds, x \in Ids : CreateRow(k, x)
  \/ \E x \in Ids : DeleteOrg(x)
  \/ \E k \in {"role", "org"}, x \in Ids \cup {NoItem} : SetDefault(k, x)

AccessSpec == AccessInit /\ [][AccessNext]_accessVars

-----------------------------------------------------------------------------
(* Properties *)

AccessTypeOK ==
  /\ links \in [Tables -> SUBSET Ids] /\ \A t \in Tables : Known(t, links[t])
  /\ rows \in [RowKinds -> SUBSET Ids]
  /\ defaults \in [{"role", "org"} -> Ids \cup {NoItem}]
  /\ \A k \in {"role", "org"} : defaults[k] \in rows[k] \cup {NoItem}
  /\ call \in [Handlers -> Call]

\* A replacement that commits leaves what it asked for, and beside it nothing of what
\* was in place when its DELETE started, in whatever order replacements, assignments,
\* removals and deletions of rows overtake it: only what others linked later.  One
\* that updates its owner's row first (a role with its name, an app with a column of
\* its own) leaves nothing even of those that do the same, only what others linked that
\* did not lock the row: a body with redirectUris alone locks nothing.
ReplacementHolds ==
  [][\A h \in Handlers :
       CommitLinks(h) =>
         /\ call[h].wanted \subseteq links'[call[h].table]
         /\ links'[call[h].table] \ call[h].wanted \subseteq
              IF call[h].named THEN call[h].loose
              ELSE call[h].swapped \cup call[h].loose]_accessVars

\* The promise of the API table, an atomic swap: of two replacements of a user's roles
\* (or direct permissions), the one that commits last leaves nothing that only the
\* other had asked for.
SwapIsAtomic ==
  [][\A h \in Handlers :
       CommitLinks(h) /\ call[h].table \in {"SaUserRole", "SaUserPermission"} =>
         links'[call[h].table] \cap call[h].swapped \subseteq call[h].wanted]_accessVars
=============================================================================
