------------------------------ MODULE ListPages ------------------------------
(***************************************************************************)
(* The pages of the console that list roles, permissions, orgs and apps,   *)
(* in one tab of an admin who may write: the filters and the search that   *)
(* follows them, the row that is selected, its view drawer, its edit       *)
(* drawer, the dialog that confirms a deletion, and the drawer for a new   *)
(* row.  What the server makes of a call is here no more than what the     *)
(* page can tell (Registry and AccessControl have the rest).               *)
(*                                                                         *)
(* A browser has its server actions answered one at a time, in the order   *)
(* in which it called them.  Dialogs are modal: nothing behind one can be  *)
(* clicked.                                                                *)
(***************************************************************************)
EXTENDS Integers, Sequences, FiniteSets

CONSTANTS
  Chores,          \* bound of the model: per page, the sets of things that the admin, or
                   \* others, do in a behaviour
  Entries,         \* ids of rows, in the order in which they are given out
  Hits,            \* those that the search text matches
  Fixed,           \* those that are the platform's own, or a system permission
  Grants,          \* what a role can hold
  PageSizes,
  NoRow,
  MaxAsked         \* bound of the model: server actions not yet answered

ASSUME ListAssumption ==
  /\ DOMAIN Chores \subseteq {"roles", "permissions", "orgs", "apps"}
  /\ IsFiniteSet(Entries) /\ Entries # {}
  /\ Entries \subseteq Nat \ {0} /\ Hits \subseteq Entries /\ Fixed \subseteq Entries
  /\ PageSizes \subseteq Nat \ {0} /\ NoRow \notin Entries /\ MaxAsked \in Nat \ {0}

VARIABLES
  listing,         \* the page; never changes
  chores,          \* what happens in this behaviour; never changes
  stored,          \* the rows; used: users hold it, or other rows refer to it
  tab

listVars == <<listing, chores, stored, tab>>

Stored == [state : {"new", "live", "gone"}, used : BOOLEAN, grants : SUBSET Grants]

NewRow == [state |-> "new", used |-> FALSE, grants |-> {}]

\* text: something is searched for.
Filter == [text : BOOLEAN, page : 1..Cardinality(Entries), size : PageSizes]

EntryRow == [id : Entries, used : BOOLEAN]

\* A call: the row it is about; asked: the filters it was called with, or that its
\* caller will refresh the list with; live: until its effect is cleaned up.  grants:
\* of a save, if it has any; meant: the admin had changed them.
ServerCall ==
  [kind : {"search", "refresh", "detail", "form", "update", "delete", "create"},
   row : Entries \cup {NoRow}, asked : Filter, live : BOOLEAN,
   grants : (SUBSET Grants) \cup {NoRow}, meant : BOOLEAN]

\* Not the code's: touched, the admin changed rows that no load has replaced since, and
\* loaded, the rows are of the row the drawer is open for.
EditForm == [renamed : BOOLEAN, initial : SUBSET Grants, rows : SUBSET Grants,
             loading : BOOLEAN, touched : BOOLEAN, loaded : BOOLEAN]

NewForm == [renamed |-> FALSE, initial |-> {}, rows |-> {}, loading |-> FALSE,
            touched |-> FALSE, loaded |-> FALSE]

ListTab ==
  [filter : Filter, timer : BOOLEAN, queue : Seq(ServerCall),
   data : [items : SUBSET EntryRow, total : Nat], selected : EntryRow \cup {NoRow},
   open : SUBSET {"view", "edit", "create", "delete"}, pending : SUBSET {"edit", "create", "delete"},
   detail : EntryRow \cup {NoRow}, form : EditForm]

-----------------------------------------------------------------------------
(* What the server answers *)

Live(r) == stored[r].state = "live"

RowOf(r) == [id |-> r, used |-> stored[r].used]

Matching(f) == {r \in Entries : Live(r) /\ (f.text => r \in Hits)}

\* Newest first.
OnPage(f) ==
  {r \in Matching(f) :
     LET rank == Cardinality({s \in Matching(f) : s >= r})
     IN (f.page - 1) * f.size < rank /\ rank <= f.page * f.size}

ListOf(f) == [items |-> {RowOf(r) : r \in OnPage(f)}, total |-> Cardinality(Matching(f))]

ListInit ==
  /\ listing \in DOMAIN Chores /\ chores \in Chores[listing]
  /\ \E n \in 0..Cardinality(Entries), grants \in SUBSET Grants :
       stored = [r \in Entries |->
         IF Cardinality({q \in Entries : q <= r}) > n THEN NewRow
         ELSE [state |-> "live", used |-> FALSE, grants |-> grants]]
  /\ \E size \in PageSizes :
       LET f == [text |-> FALSE, page |-> 1, size |-> size] IN
       tab = [filter |-> f, timer |-> FALSE, queue |-> <<>>, data |-> ListOf(f),
              selected |-> NoRow, open |-> {}, pending |-> {}, detail |-> NoRow,
              form |-> NewForm]

-----------------------------------------------------------------------------
(* Calls and effects *)

\* Slip: only the timer is cleared.
MutDropped(queue, kind) == queue

\* The clean-up of an effect: its answers will not be heard.
Dropped(queue, kind) ==
  [i \in DOMAIN queue |->
     IF queue[i].kind = kind THEN [queue[i] EXCEPT !.live = FALSE] ELSE queue[i]]

ListCall(kind, row, asked) ==
  [kind |-> kind, row |-> row, asked |-> asked, live |-> TRUE, grants |-> NoRow, meant |-> FALSE]

Ask(t, kind, row) == [t EXCEPT !.queue = Append(@, ListCall(kind, row, t.filter))]

\* The drawers of a row and the dialog are there while a row is selected.
Visible(t) == IF t.selected = NoRow THEN t.open \cap {"create"} ELSE t.open

ShownIn(t, what) == IF what \in Visible(t) THEN t.selected.id ELSE NoRow

\* The effect of the view drawer: what it shows besides the row is asked for, and an
\* older question forgotten; an org has nothing more to show.
DetailEffect(t) ==
  LET cleaned == [t EXCEPT !.queue = Dropped(@, "detail"), !.detail = NoRow]
  IN IF ShownIn(t, "view") = NoRow \/ listing = "orgs" THEN cleaned
     ELSE Ask(cleaned, "detail", t.selected.id)

\* The effects of the edit drawer on opening: the permissions of a role are asked for;
\* until they come the rows are those it had before.
FormEffect(t) ==
  LET cleaned == [t EXCEPT !.queue = Dropped(@, "form"), !.form.loaded = FALSE]
  IN IF ShownIn(t, "edit") = NoRow \/ listing # "roles" THEN cleaned
     ELSE [Ask(cleaned, "form", t.selected.id) EXCEPT !.form.loading = TRUE]

\* With no row selected the components of a row are gone, and with them their state.
Unmounted(t) ==
  IF t.selected # NoRow THEN t
  ELSE [t EXCEPT !.form = NewForm, !.pending = @ \cap {"create"}]

\* The tab as it is rendered next.  fresh: the selected row is another object, if an
\* equal one; the name in the edit drawer starts over, and an app's drawer too.
Render(t, fresh) ==
  LET named == IF fresh \/ t.selected # tab.selected THEN [t EXCEPT !.form.renamed = FALSE] ELSE t
      viewed == IF ShownIn(t, "view") # ShownIn(tab, "view") \/ (fresh /\ listing = "apps")
                THEN DetailEffect(named) ELSE named
      edited == IF ShownIn(t, "edit") # ShownIn(tab, "edit") THEN FormEffect(viewed) ELSE viewed
  IN /\ tab' = Unmounted(edited)
     /\ UNCHANGED <<listing, chores>>

-----------------------------------------------------------------------------
(* The admin *)

CanAsk == Len(tab.queue) < MaxAsked

Behind == Visible(tab) = {}

\* The effect on the filters: the search they replace is not heard, another follows in
\* 300 ms unless they change again.
FilterBy(f) ==
  /\ Behind /\ f # tab.filter
  /\ Render([tab EXCEPT !.filter = f, !.timer = TRUE, !.queue = Dropped(@, "search")], FALSE)
  /\ UNCHANGED stored

Search(text) == "search" \in chores /\ FilterBy([tab.filter EXCEPT !.text = text, !.page = 1])

SetPageSize(n) == "size" \in chores /\ FilterBy([tab.filter EXCEPT !.size = n, !.page = 1])

\* Next by what the list last said of the total.
TurnPage ==
  LET f == tab.filter IN
  /\ chores \cap {"search", "size"} # {}
  /\ \/ f.page > 1 /\ FilterBy([f EXCEPT !.page = @ - 1])
     \/ f.page * f.size < tab.data.total /\ FilterBy([f EXCEPT !.page = @ + 1])

TimerFires ==
  /\ tab.timer /\ CanAsk
  /\ Render(Ask([tab EXCEPT !.timer = FALSE], "search", NoRow), FALSE)
  /\ UNCHANGED stored

Anything == {"view", "edit", "delete"}

RoleMenu(row) == IF row.used THEN Anything \ {"delete"} ELSE Anything

PermissionMenu(row) ==
  IF row.id \in Fixed THEN {"view"} ELSE IF row.used THEN Anything \ {"delete"} ELSE Anything

OrgMenu(row) == IF row.id \in Fixed THEN {"view"} ELSE Anything

AppMenu(row) == IF row.id \in Fixed THEN {"view"} ELSE Anything

Menu(row) ==
  CASE listing = "roles" -> RoleMenu(row) [] listing = "permissions" -> PermissionMenu(row)
    [] listing = "orgs" -> OrgMenu(row) [] listing = "apps" -> AppMenu(row)

\* An item of a row's menu, or a click on the row.
Choose(row, what) ==
  /\ what \in Menu(row) \cap chores /\ Behind /\ CanAsk
  /\ Render([tab EXCEPT !.selected = row, !.open = @ \cup {what}], FALSE)
  /\ UNCHANGED stored

\* In use by what was loaded, or else by the row.
KnownUsed == IF tab.detail # NoRow THEN tab.detail.used ELSE tab.selected.used

RoleButtons == IF KnownUsed THEN {"edit"} ELSE {"edit", "delete"}

PermissionButtons ==
  IF tab.selected.id \in Fixed THEN {}
  ELSE IF KnownUsed THEN {"edit"} ELSE {"edit", "delete"}

OrgButtons == IF tab.selected.id \in Fixed THEN {} ELSE {"edit", "delete"}

AppButtons == IF tab.selected.id \in Fixed THEN {} ELSE {"edit", "delete"}

ViewButtons ==
  CASE listing = "roles" -> RoleButtons [] listing = "permissions" -> PermissionButtons
    [] listing = "orgs" -> OrgButtons [] listing = "apps" -> AppButtons

\* Edit takes the place of the view drawer, the dialog comes on top of it.
PressInView(what) ==
  /\ "view" \in Visible(tab) /\ what \in ViewButtons \cap chores /\ CanAsk
  /\ Render([tab EXCEPT !.open = IF what = "edit" THEN (@ \ {"view"}) \cup {"edit"}
                                 ELSE @ \cup {"delete"}], FALSE)
  /\ UNCHANGED stored

OpenCreate ==
  /\ "create" \in chores /\ Behind
  /\ Render([tab EXCEPT !.open = @ \cup {"create"}], FALSE)
  /\ UNCHANGED stored

\* A drawer can be closed while it saves, the dialog not while it deletes.
CloseSheet(what) ==
  /\ what \in Visible(tab) /\ what = "delete" => what \notin tab.pending
  /\ Render([tab EXCEPT !.open = @ \ {what}], FALSE)
  /\ UNCHANGED stored

TypeName ==
  /\ "edit" \in Visible(tab)
  /\ Render([tab EXCEPT !.form.renamed = ~@], FALSE)
  /\ UNCHANGED stored

ChangeGrants(grants) ==
  /\ "edit" \in Visible(tab) /\ listing = "roles" /\ ~tab.form.loading /\ grants # tab.form.rows
  /\ Render([tab EXCEPT !.form.rows = grants, !.form.touched = TRUE], FALSE)
  /\ UNCHANGED stored

\* Slip: the permissions go along with every save.
MutGrantsDirty == listing = "roles"

GrantsDirty == tab.form.rows # tab.form.initial

\* handleSubmit sends what differs, with the refresh of the filters as they are now.
SubmitEdit ==
  /\ "edit" \in Visible(tab) /\ "edit" \notin tab.pending /\ CanAsk
  /\ tab.form.renamed \/ tab.form.rows # tab.form.initial
  /\ LET patch == [ListCall("update", tab.selected.id, tab.filter) EXCEPT
                     !.grants = IF GrantsDirty THEN tab.form.rows ELSE NoRow,
                     !.meant = tab.form.touched]
     IN Render([tab EXCEPT !.queue = Append(@, patch), !.pending = @ \cup {"edit"}], FALSE)
  /\ UNCHANGED stored

SubmitCreate(grants) ==
  /\ "create" \in Visible(tab) /\ "create" \notin tab.pending /\ CanAsk
  /\ Render([tab EXCEPT !.queue = Append(@, [ListCall("create", NoRow, tab.filter) EXCEPT
                                               !.grants = grants]),
                        !.pending = @ \cup {"create"}], FALSE)
  /\ UNCHANGED stored

ConfirmDelete ==
  /\ "delete" \in Visible(tab) /\ "delete" \notin tab.pending /\ CanAsk
  /\ Render([Ask(tab, "delete", tab.selected.id) EXCEPT !.pending = @ \cup {"delete"}], FALSE)
  /\ UNCHANGED stored

-----------------------------------------------------------------------------
(* The answers, each at its turn *)

Front == Head(tab.queue)

AtTurn(kind) == tab.queue # <<>> /\ Front.kind = kind

Popped == [tab EXCEPT !.queue = Tail(@)]

\* Unmounted or superseded, failed, or shown.
HearSearch ==
  /\ AtTurn("search")
  /\ \/ Render(Popped, FALSE)
     \/ Front.live /\ Render([Popped EXCEPT !.data = ListOf(Front.asked)], FALSE)
  /\ UNCHANGED stored

\* refresh: the selected row is the fresh one, or none if it is not among the rows.
HearRefresh ==
  LET answer == ListOf(Front.asked)
      again == {row \in answer.items : tab.selected # NoRow /\ row.id = tab.selected.id}
  IN /\ AtTurn("refresh")
     /\ \/ Render(Popped, FALSE)
        \/ Render([Popped EXCEPT !.data = answer,
                     !.selected = IF again = {} THEN NoRow ELSE CHOOSE row \in again : TRUE], TRUE)
     /\ UNCHANGED stored

HearDetail ==
  /\ AtTurn("detail")
  /\ \/ Render(Popped, FALSE)
     \/ /\ Front.live /\ Live(Front.row)
        /\ Render([Popped EXCEPT !.detail = RowOf(Front.row)], FALSE)
  /\ UNCHANGED stored

HearForm ==
  LET heard == IF Front.live THEN [Popped EXCEPT !.form.loading = FALSE] ELSE Popped
      grants == stored[Front.row].grants
  IN /\ AtTurn("form")
     /\ \/ Render(heard, FALSE)
        \/ /\ Front.live /\ Live(Front.row)
           /\ Render([heard EXCEPT !.form.initial = grants, !.form.rows = grants,
                                   !.form.touched = FALSE, !.form.loaded = TRUE], FALSE)
     /\ UNCHANGED stored

\* The end of a call that changed something: its drawer closes, whatever row it is
\* open for by now, and the list is refreshed.
Refreshed(t, closing) ==
  [t EXCEPT !.open = @ \ closing, !.queue = Append(@, ListCall("refresh", NoRow, Front.asked))]

\* The server refuses what is the platform's own.
Guarded(r) == listing # "roles" /\ r \in Fixed

HearUpdate ==
  LET heard == [Popped EXCEPT !.pending = @ \ {"edit"}] IN
  /\ AtTurn("update")
  /\ \/ Render(heard, FALSE) /\ UNCHANGED stored
     \/ /\ Live(Front.row) /\ ~Guarded(Front.row)
        /\ stored' = [stored EXCEPT ![Front.row].grants =
                        IF Front.grants = NoRow THEN @ ELSE Front.grants]
        /\ Render(Refreshed(heard, {"edit"}), FALSE)

HearCreate ==
  LET heard == [Popped EXCEPT !.pending = @ \ {"create"}] IN
  /\ AtTurn("create")
  /\ \/ Render(heard, FALSE) /\ UNCHANGED stored
     \/ \E r \in Entries :
          /\ stored[r].state = "new" /\ \A q \in Entries : q < r => stored[q].state # "new"
          /\ stored' = [stored EXCEPT ![r] = [state |-> "live", used |-> FALSE, grants |-> Front.grants]]
          /\ Render(Refreshed(heard, {"create"}), FALSE)

\* The links of a role or permission go with it; an org or app that is in use stays.
HearDelete ==
  LET heard == [Popped EXCEPT !.pending = @ \ {"delete"}] IN
  /\ AtTurn("delete")
  /\ \/ Render(heard, FALSE) /\ UNCHANGED stored
     \/ /\ Live(Front.row) /\ ~Guarded(Front.row)
        /\ stored[Front.row].used => listing \in {"roles", "permissions"}
        /\ stored' = [stored EXCEPT ![Front.row].state = "gone"]
        /\ Render(Refreshed(heard, {"delete", "view"}), FALSE)

\* Other admins, other clients of the API.
ChangedElsewhere(r) ==
  /\ Live(r)
  /\ \/ "use" \in chores /\ stored' = [stored EXCEPT ![r].used = ~@]
     \/ "remove" \in chores /\ stored' = [stored EXCEPT ![r].state = "gone"]
     \/ /\ "grant" \in chores
        /\ \E grants \in SUBSET Grants : stored' = [stored EXCEPT ![r].grants = grants]
  /\ UNCHANGED <<listing, chores, tab>>

ListNext ==
  \/ \E text \in BOOLEAN : Search(text)
  \/ \E n \in PageSizes : SetPageSize(n)
  \/ TurnPage \/ TimerFires
  \/ \E row \in tab.data.items, what \in Anything : Choose(row, what)
  \/ \E what \in {"edit", "delete"} : PressInView(what)
  \/ \E what \in {"view", "edit", "create", "delete"} : CloseSheet(what)
  \/ \E grants \in SUBSET Grants : ChangeGrants(grants) \/ SubmitCreate(grants)
  \/ OpenCreate \/ TypeName \/ SubmitEdit \/ ConfirmDelete
  \/ HearSearch \/ HearRefresh \/ HearDetail \/ HearForm
  \/ HearUpdate \/ HearCreate \/ HearDelete
  \/ \E r \in Entries : ChangedElsewhere(r)

ListSpec == ListInit /\ [][ListNext]_listVars

-----------------------------------------------------------------------------
(* Properties *)

ListTypeOK ==
  /\ listing \in DOMAIN Chores /\ chores \in Chores[listing]
  /\ stored \in [Entries -> Stored]
  /\ tab \in ListTab

\* An answer lands only where it belongs, however late it comes and whatever was
\* clicked meanwhile: rows that a search brings are of the filters in force, and what
\* a drawer loads is of the row it is open for (bug-0137, bug-0145).
AnswersLandRight ==
  [][LET answered == tab.queue # <<>> /\ tab'.queue = Tail(tab.queue) IN
     /\ AtTurn("search") /\ answered /\ tab'.data # tab.data => Front.asked = tab.filter
     /\ tab'.detail \notin {NoRow, tab.detail} => tab'.detail.id = ShownIn(tab', "view")
     /\ tab'.form.initial # tab.form.initial /\ tab'.form.loaded
          => Front.row = ShownIn(tab', "edit")]_listVars

\* A role's permissions are changed by a save of this page only if its admin changed
\* rows that the drawer still shows: whether the load of the permissions is late, fails
\* or never was waited for, the edit of a name alone puts back nothing.  (The rows are
\* not started over when the drawer closes: until the next load has come, changes that
\* were left unsaved, to another role maybe, count as its admin's.)
GrantsSpared ==
  \A r \in Entries : stored'[r].grants # stored[r].grants /\ tab' # tab
    => Front.meant \/ Front.kind = "create"
=============================================================================
