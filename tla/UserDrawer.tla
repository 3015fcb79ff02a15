----------------------------- MODULE UserDrawer -----------------------------
(***************************************************************************)
(* The console's drawer for one user's profile, roles and permissions, and *)
(* the endpoints it saves to: UsersService.updateUser (the profile),       *)
(* setUserRoles and setUserDirectPermissions.  The drawer is one component *)
(* that lives as long as the page: another user is another prop.           *)
(*                                                                         *)
(* A browser has its server actions answered one at a time, in the order   *)
(* in which it called them; the three reads that always go together are    *)
(* one call here.  An entry of the profile and a row of an access list are *)
(* items alike.                                                            *)
(***************************************************************************)
EXTENDS Sequences, Naturals

CONSTANTS
  Editors,         \* admins whose users page is looked at
  People,          \* users
  Contested,       \* bound of the model: users, and axes of theirs, that others change as well
  Lists,           \* the axes that are replaced as a set: of {"roles", "perms"}
  Items,
  Nobody,
  MaxCalls         \* bound of the model: server actions of a browser not yet answered

ASSUME DrawerAssumption ==
  /\ Lists \subseteq {"roles", "perms"} /\ Nobody \notin People
  /\ Contested \subseteq People \X {"profile", "roles", "perms"} /\ MaxCalls \in Nat \ {0}

Axes == {"profile"} \cup Lists

Sets == SUBSET Items

VARIABLES
  access,          \* per user and axis, what the database holds
  view             \* per admin, the users list and the drawer

drawerVars == <<access, view>>

\* What handleSave closed over.  dirty: the axes it sent; left: those not answered yet;
\* meant: those the admin had edited; before: the rows a deleteMany has seen.
Save == [user : People \cup {Nobody}, sets : [Axes -> Sets], dirty : SUBSET Axes,
         left : SUBSET Axes, failed : SUBSET Axes, meant : SUBSET Axes,
         before : Sets, replacing : BOOLEAN]

NoSave == [user |-> Nobody, sets |-> [x \in Axes |-> {}], dirty |-> {}, left |-> {},
           failed |-> {}, meant |-> {}, before |-> {}, replacing |-> FALSE]

\* people: the profiles as the list has them; lists: roles and directPermissions;
\* rows, snap: the form and what it is compared with; touched: the axes edited.
View == [user : People \cup {Nobody}, open : BOOLEAN, people : [People -> Sets],
         lists : [Lists -> Sets], editing : BOOLEAN,
         rows : [Axes -> Sets], snap : [Axes -> Sets], touched : SUBSET Axes, save : Save,
         queue : Seq([call : {"load", "write", "refetch"}, user : People])]

Profiles == [p \in People |-> access[p]["profile"]]

Nothings == [x \in Axes |-> {}]

DrawerInit ==
  /\ access \in [People -> [Axes -> {{}} \cup {{i} : i \in Items}]]
  /\ view = [e \in Editors |->
       [user |-> Nobody, open |-> FALSE, people |-> Profiles,
        lists |-> [l \in Lists |-> {}], editing |-> FALSE, rows |-> Nothings, snap |-> Nothings,
        touched |-> {}, save |-> NoSave, queue |-> <<>>]]

-----------------------------------------------------------------------------
(* Effects and handlers of the drawer *)

Show(e, v) == view' = [view EXCEPT ![e] = v]

Saving(v) == v.save # NoSave

\* The effect on [editing, user, roles, directPermissions]: rows and snapshot of every
\* axis start from what is known.  What a drawer that is not editing has in its form
\* is of no use, and not kept here.
Snapshot(v) ==
  LET known == [x \in Axes |-> IF ~v.editing THEN {}
                               ELSE IF x \in Lists THEN v.lists[x] ELSE v.people[v.user]]
  IN [v EXCEPT !.rows = known, !.snap = known, !.touched = {}]

\* A click on a row of the table; the effect on [open, user] asks for the access of
\* the user and leaves what it asked before to be heard all the same.
OpenUser(e, p) ==
  /\ ~view[e].open /\ Len(view[e].queue) < MaxCalls
  /\ Show(e, Snapshot([view[e] EXCEPT !.user = p, !.open = TRUE, !.editing = FALSE,
                         !.queue = Append(@, [call |-> "load", user |-> p])]))
  /\ UNCHANGED access

\* Possible at any time, a save under way included.
CloseUser(e) ==
  /\ view[e].open
  /\ Show(e, [view[e] EXCEPT !.open = FALSE])
  /\ UNCHANGED access

\* Edit can be clicked before the lists are there.
StartEditing(e) ==
  /\ view[e].open /\ ~view[e].editing
  /\ Show(e, Snapshot([view[e] EXCEPT !.editing = TRUE]))
  /\ UNCHANGED access

\* Bound of the model: once between two snapshots; an axis that is set back is like one
\* that was never touched, but for what the properties excuse.
EditAxis(e, x, set) ==
  /\ view[e].open /\ view[e].editing /\ view[e].rows[x] # set /\ x \notin view[e].touched
  /\ Show(e, [view[e] EXCEPT !.rows[x] = set, !.touched = @ \cup {x}])
  /\ UNCHANGED access

HandleCancel(e) ==
  /\ view[e].open /\ view[e].editing /\ ~Saving(view[e])
  /\ Show(e, Snapshot([view[e] EXCEPT !.editing = FALSE]))
  /\ UNCHANGED access

\* Slip: every axis is sent, edited or not.
MutDirtyAxes(v) == Axes

DirtyAxes(v) == {x \in Axes : v.rows[x] # v.snap[x]}

\* The end of every save: the drawer reads the user it saved again.
Refetch(v) == [v EXCEPT !.queue = Append(@, [call |-> "refetch", user |-> v.save.user])]

\* handleSave: the calls of all dirty axes go out together.
HandleSave(e) ==
  LET v == view[e]
      saved == [v EXCEPT !.save = [NoSave EXCEPT !.user = v.user,
                              !.sets = [x \in Axes |-> IF x \in DirtyAxes(v) THEN v.rows[x] ELSE {}],
                              !.dirty = DirtyAxes(v), !.left = DirtyAxes(v), !.meant = v.touched]]
  IN /\ v.open /\ v.editing /\ ~Saving(v) /\ Len(v.queue) < MaxCalls
     /\ Show(e, IF DirtyAxes(v) = {} THEN Refetch(saved)
                ELSE [saved EXCEPT !.queue = Append(@, [call |-> "write", user |-> v.user])])
     /\ UNCHANGED access

-----------------------------------------------------------------------------
(* The server actions, each at its turn *)

OnTurn(e, call) == view[e].queue # <<>> /\ Head(view[e].queue).call = call

Asked(e) == Head(view[e].queue).user

Heard(e) == [view[e] EXCEPT !.queue = Tail(@)]

\* Next: profile, then roles, then permissions.
NextAxis(save) ==
  IF "profile" \in save.left THEN "profile"
  ELSE IF "roles" \in save.left THEN "roles" ELSE "perms"

\* All are answered: the axes that went through get a new snapshot - in the drawer as
\* it is now, whoever it shows.
Settle(v) ==
  Refetch([v EXCEPT !.queue = Tail(@),
             !.snap = [x \in Axes |-> IF v.editing /\ x \in v.save.dirty \ v.save.failed
                                        THEN v.save.sets[x] ELSE v.snap[x]]])

Answer(e, failed) ==
  LET v == view[e]
      axis == NextAxis(v.save)
      next == [v EXCEPT !.save.left = @ \ {axis}, !.save.replacing = FALSE, !.save.before = {},
                 !.save.failed = IF failed THEN @ \cup {axis} ELSE @,
                 !.people = IF failed THEN @ ELSE Profiles']
  IN Show(e, IF next.save.left = {} THEN Settle(next) ELSE next)

\* updateUser writes the profile; the answer brings the list up to date.
WriteProfile(e) ==
  LET save == view[e].save IN
  /\ OnTurn(e, "write") /\ NextAxis(save) = "profile"
  /\ access' = [access EXCEPT ![save.user]["profile"] = save.sets["profile"]]
  /\ Answer(e, FALSE)

\* setUserRoles, setUserDirectPermissions: the deleteMany sees the rows there are ...
DeleteRows(e) ==
  LET save == view[e].save IN
  /\ OnTurn(e, "write") /\ NextAxis(save) \in Lists /\ ~save.replacing
  /\ Show(e, [view[e] EXCEPT !.save.replacing = TRUE,
                             !.save.before = access[save.user][NextAxis(save)]])
  /\ UNCHANGED access

\* ... and with the createMany they go and the new ones come, unless one of those has
\* come from elsewhere meanwhile.
CommitRows(e) ==
  LET save == view[e].save
      axis == NextAxis(save)
      others == access[save.user][axis] \ save.before
  IN /\ OnTurn(e, "write") /\ save.replacing /\ others \cap save.sets[axis] = {}
     /\ access' = [access EXCEPT ![save.user][axis] = others \cup save.sets[axis]]
     /\ Answer(e, FALSE)

\* Refused, out of reach, or rolled back.
FailWrite(e) ==
  /\ OnTurn(e, "write")
  /\ UNCHANGED access
  /\ Answer(e, TRUE)

\* getUserRolesAction and its like answer a failure with an empty list.
Read(p) == {[l \in Lists |-> IF l \in got THEN access[p][l] ELSE {}] : got \in SUBSET Lists}

\* The lists arrive, for whomever they were asked.
Load(e) ==
  /\ OnTurn(e, "load")
  /\ \E lists \in Read(Asked(e)) : Show(e, Snapshot([Heard(e) EXCEPT !.lists = lists]))
  /\ UNCHANGED access

\* The lists after a save; if nothing failed, the drawer stops editing and the page
\* is refreshed.
FinishSave(e) ==
  LET v == view[e] IN
  /\ OnTurn(e, "refetch")
  /\ \E lists \in Read(Asked(e)) :
       Show(e, Snapshot([Heard(e) EXCEPT !.lists = lists, !.save = NoSave,
                           !.editing = @ /\ v.save.failed # {},
                           !.people = IF v.save.failed = {} THEN Profiles ELSE @]))
  /\ UNCHANGED access

\* Another admin, or another client of the API.
SaveElsewhere(p, x, set) ==
  /\ access' = [access EXCEPT ![p][x] = set]
  /\ UNCHANGED view

DrawerNext ==
  \/ \E c \in Contested, set \in Sets : SaveElsewhere(c[1], c[2], set)
  \/ \E e \in Editors :
       \/ \E p \in People : OpenUser(e, p)
       \/ \E x \in Axes, set \in Sets : EditAxis(e, x, set)
       \/ CloseUser(e) \/ StartEditing(e) \/ HandleCancel(e) \/ HandleSave(e)
       \/ WriteProfile(e) \/ DeleteRows(e) \/ CommitRows(e) \/ FailWrite(e)
       \/ Load(e) \/ FinishSave(e)

DrawerSpec == DrawerInit /\ [][DrawerNext]_drawerVars

-----------------------------------------------------------------------------
(* Properties *)

DrawerTypeOK ==
  /\ access \in [People -> [Axes -> Sets]]
  /\ view \in [Editors -> View]

\* A drawer changes an axis of a user only by a save of that user whose admin had
\* edited the axis: what others do to the other axes in the meantime stands, however
\* old the drawer's view of them is and whoever it shows by then.
AxesSpared ==
  \A p \in People, x \in Axes : access'[p][x] # access[p][x] /\ view' # view =>
    \E e \in Editors : view[e].save.user = p /\ x \in view[e].save.meant

\* What handleSave says it does: an axis that failed keeps what the admin entered, so
\* that the next click on Save sends it again.
FailedAxisKept ==
  [][\A e \in Editors : \A x \in view[e].save.failed :
       /\ Saving(view[e]) /\ ~Saving(view'[e])
       /\ view[e].editing /\ view[e].save.user = view[e].user
       => view'[e].rows[x] = view[e].rows[x]]_drawerVars

=============================================================================
