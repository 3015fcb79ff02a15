----------------------------- MODULE AppSettings -----------------------------
(***************************************************************************)
(* The settings of one app: AppsService.updateApp and rotateWebhookSecret, *)
(* SocialService.setForApp, and the drawer in which each of several admins *)
(* edits what his list showed him, while the drawer itself still asks for  *)
(* what the list leaves out, and other clients of the API change the app.  *)
(*                                                                         *)
(* A browser has its server actions answered one at a time, in the order   *)
(* in which it called them; what a read says is as of its turn.            *)
(*                                                                         *)
(* Data: a field has one of a few values, and Unset stands for its default:*)
(* null, the empty text, 'link'.  Fields that the code treats alike are    *)
(* one: "name" for all the list has, "logo" for what only the app's own    *)
(* record has, "method" for emailVerificationMethod, "hook" for the URL of *)
(* the activation webhook.                                                 *)
(***************************************************************************)
EXTENDS Sequences, FiniteSets

Seqs == INSTANCE SequencesExt

CONSTANTS
  Admins,          \* browsers with the apps page
  Values,          \* of a field
  Unset,           \* a field's default
  Code,            \* 'code', the one value of the method that is not its default
  Keep,            \* undefined: the field is not in the PATCH
  Providers,       \* social providers the deployment has credentials for
  Elsewhere,       \* the other clients of the API
  Subjects         \* bound of the model: what each admin edits in a behaviour, and what
                   \* is changed elsewhere: fields, or "social"

ASSUME SettingsAssumption ==
  Unset \in Values /\ Code \in Values \ {Unset} /\ Keep \notin Values
  /\ Elsewhere \notin Admins

Fields == {"name", "logo", "method", "hook"}

Listed == {"name", "hook"}

VARIABLES
  subject,         \* of each of them in this behaviour; never changes
  saApp,           \* the SaApp row
  secret,          \* whether it has an activationWebhookSecret
  enabled,         \* the providers of the app that are enabled
  drawer           \* per admin, the table's selected row and the drawer

settingsVars == <<subject, saApp, secret, enabled, drawer>>

\* assertValidEmailVerificationMethod knows two methods.
Settings == {app \in [Fields -> Values] : app["method"] \in {Unset, Code}}

\* patch, providers: what handleSubmit closed over; meant: the fields the admin had
\* edited by then; left: the providers setForApp has yet to write.
Submit == [patch : [Fields -> Values \cup {Keep}], providers : SUBSET Providers,
           social : BOOLEAN, meant : SUBSET (Fields \cup {"social"}), left : SUBSET Providers]

NoSubmit == [patch |-> [f \in Fields |-> Keep], providers |-> {}, social |-> FALSE,
             meant |-> {}, left |-> {}]

\* row: the app prop; base: what an edit is compared with; queue: server actions that
\* wait for their turn; touched: what the admin edited and nothing has started over since.
Drawer == [open : BOOLEAN, row : Settings, form : Settings, base : Settings,
           checked : SUBSET Providers, initial : SUBSET Providers, boxes : BOOLEAN,
           touched : SUBSET (Fields \cup {"social"}), submit : Submit,
           queue : Seq({"getApp", "getSocial", "update", "setSocial", "rotate", "mint", "list"})]

\* AppsService.listApps: a row without the fields its select leaves out.
Row(app) == [f \in Fields |-> IF f \in Listed THEN app[f] ELSE Unset]

SettingsInit ==
  /\ subject \in Subjects
  /\ saApp \in {app \in Settings : 
       \A f \in Fields : app[f] = Unset \/ \E a \in DOMAIN subject : f \in subject[a]}
  /\ secret = FALSE
  /\ enabled = {}
  /\ drawer = [a \in Admins |->
       [open |-> FALSE, row |-> Row(saApp), form |-> Row(saApp), base |-> Row(saApp),
        checked |-> {}, initial |-> {}, boxes |-> FALSE, touched |-> {},
        submit |-> NoSubmit, queue |-> <<>>]]

-----------------------------------------------------------------------------
(* The drawer *)

Draw(a, d) == drawer' = [drawer EXCEPT ![a] = d]

\* There are no two of a kind.
Unloaded(d) == Seqs!RemoveFirst(Seqs!RemoveFirst(d.queue, "getApp"), "getSocial")

\* The effect on [app, open]: what was asked for before is not heard any more, the
\* form starts from the row, and an open drawer asks for the rest.  The boxes stay as
\* they are, ticks that were never saved included, hidden until they are known.
Seed(d, row, open) ==
  [d EXCEPT !.open = open, !.row = row, !.form = row, !.base = row,
            !.touched = @ \cap {"social"}, !.boxes = @ /\ ~open,
            !.queue = IF open THEN Unloaded(d) \o <<"getApp", "getSocial">> ELSE Unloaded(d)]

\* The row is as old as the last refresh, or fresh from a search or a reload.
OpenDrawer(a) ==
  /\ ~drawer[a].open
  /\ \E row \in {drawer[a].row, Row(saApp)} : Draw(a, Seed(drawer[a], row, TRUE))
  /\ UNCHANGED <<subject, saApp, secret, enabled>>

\* Possible at any time, a save under way included.
CloseDrawer(a) ==
  /\ drawer[a].open
  /\ Draw(a, Seed(drawer[a], drawer[a].row, FALSE))
  /\ UNCHANGED <<subject, saApp, secret, enabled>>

\* The inputs stay live while a save is pending.
EditField(a, f, value) ==
  /\ drawer[a].open /\ f \in subject[a] /\ drawer[a].form[f] # value
  /\ (f = "name" => value # Unset) /\ (f = "method" => value \in {Unset, Code})
  /\ Draw(a, [drawer[a] EXCEPT !.form[f] = value, !.touched = @ \cup {f}])
  /\ UNCHANGED <<subject, saApp, secret, enabled>>

\* toggleProvider: the boxes are there once the settings are.
ToggleProvider(a, p) ==
  LET d == drawer[a] IN
  /\ d.open /\ "social" \in subject[a] /\ d.boxes
  /\ Draw(a, [d EXCEPT !.checked = IF p \in @ THEN @ \ {p} ELSE @ \cup {p},
                       !.touched = @ \cup {"social"}])
  /\ UNCHANGED <<subject, saApp, secret, enabled>>

\* Slip: one edit, and the form is sent whole.
MutDirtyFields(d) == IF d.form = d.base THEN {} ELSE Fields

DirtyFields(d) == {f \in Fields : d.form[f] # d.base[f]}

SocialDirty(d) == d.checked # d.initial

Dirty(d) == DirtyFields(d) # {} \/ SocialDirty(d)

Rotating(d) == \E i \in DOMAIN d.queue : d.queue[i] \in {"rotate", "mint"}

\* The transition, which saves and rotations share.
Pending(d) == d.submit # NoSubmit \/ Rotating(d)

\* handleSubmit: the PATCH has the fields that differ from their baseline.
HandleSubmit(a) ==
  LET d == drawer[a] IN
  /\ d.open /\ Dirty(d) /\ ~Pending(d)
  /\ Draw(a, [d EXCEPT
       !.submit = [patch |-> [f \in Fields |-> IF f \in DirtyFields(d) THEN d.form[f] ELSE Keep],
                   providers |-> d.checked, social |-> SocialDirty(d),
                   meant |-> d.touched, left |-> IF SocialDirty(d) THEN Providers ELSE {}],
       !.queue = Append(@, IF DirtyFields(d) # {} THEN "update" ELSE "setSocial")])
  /\ UNCHANGED <<subject, saApp, secret, enabled>>

\* handleRotateWebhookSecret: the button wants the URL saved and unedited.
HandleRotateWebhookSecret(a) ==
  LET d == drawer[a] IN
  /\ d.open /\ ~Rotating(d) /\ "hook" \in subject[a]
  /\ d.row["hook"] # Unset /\ d.form["hook"] = d.row["hook"]
  /\ Draw(a, [d EXCEPT !.queue = Append(@, "rotate")])
  /\ UNCHANGED <<subject, saApp, secret, enabled>>

-----------------------------------------------------------------------------
(* The server actions, each at its turn *)

Turn(a, call) == drawer[a].queue # <<>> /\ Head(drawer[a].queue) = call

Answered(a) == [drawer[a] EXCEPT !.queue = Tail(@)]

\* An error shows in the drawer, and the admin may try again.
Failed(a) == [Answered(a) EXCEPT !.submit = NoSubmit]

\* getAppAction: logo and baseline get what is saved, the method only as a value.
GetApp(a) ==
  /\ Turn(a, "getApp")
  /\ \/ Draw(a, [Answered(a) EXCEPT !.form["logo"] = saApp["logo"], !.base["logo"] = saApp["logo"],
                                    !.form["method"] = saApp["method"],
                                    !.touched = @ \ {"logo", "method"}])
     \/ Draw(a, Answered(a))
  /\ UNCHANGED <<subject, saApp, secret, enabled>>

\* getSocialProviderSettingsAction: an error leaves no boxes to tick, no answer at all
\* leaves them as they are.
GetSocial(a) ==
  /\ Turn(a, "getSocial")
  /\ \/ Draw(a, [Answered(a) EXCEPT !.checked = enabled, !.initial = enabled, !.boxes = TRUE,
                                    !.touched = @ \ {"social"}])
     \/ Draw(a, [Answered(a) EXCEPT !.checked = {}, !.initial = {}, !.touched = @ \ {"social"}])
     \/ Draw(a, Answered(a))
  /\ UNCHANGED <<subject, saApp, secret, enabled>>

Patched(patch) == [f \in Fields |-> IF patch[f] = Keep THEN saApp[f] ELSE patch[f]]

\* Both endpoints answered: the list is fetched again and the drawer closes.
Saved(d) ==
  [Seed(d, d.row, FALSE) EXCEPT !.submit = NoSubmit, !.queue = Append(@, "list")]

\* updateApp: one transaction; a URL that goes takes the secret with it.
UpdateApp(a) ==
  LET submit == drawer[a].submit IN
  /\ Turn(a, "update")
  /\ \/ /\ saApp' = Patched(submit.patch)
        /\ secret' = (secret /\ submit.patch["hook"] # Unset)
        /\ Draw(a, IF submit.social THEN [Answered(a) EXCEPT !.queue = Append(@, "setSocial")]
                   ELSE Saved(Answered(a)))
     \/ Draw(a, Failed(a)) /\ UNCHANGED <<saApp, secret>>
  /\ UNCHANGED <<subject, enabled>>

\* setForApp: one upsert after the other, in no transaction; any of them may fail.
SetForApp(a) ==
  LET submit == drawer[a].submit IN
  /\ Turn(a, "setSocial") /\ submit.left # {}
  /\ \/ \E p \in submit.left :
          /\ enabled' = IF p \in submit.providers THEN enabled \cup {p} ELSE enabled \ {p}
          /\ Draw(a, [drawer[a] EXCEPT !.submit.left = @ \ {p}])
     \/ Draw(a, Failed(a)) /\ UNCHANGED enabled
  /\ UNCHANGED <<subject, saApp, secret>>

\* The answer repeats what was asked for, and that becomes the baseline.
SocialSaved(a) ==
  LET submit == drawer[a].submit IN
  /\ Turn(a, "setSocial") /\ submit.left = {}
  /\ Draw(a, Saved([Answered(a) EXCEPT !.checked = submit.providers, !.initial = submit.providers,
                                      !.touched = @ \ {"social"}]))
  /\ UNCHANGED <<subject, saApp, secret, enabled>>

\* rotateWebhookSecret reads that there is a URL ...
ReadForRotation(a) ==
  /\ Turn(a, "rotate")
  /\ Draw(a, IF saApp["hook"] # Unset THEN [drawer[a] EXCEPT !.queue = <<"mint">> \o Tail(@)]
             ELSE Answered(a))
  /\ UNCHANGED <<subject, saApp, secret, enabled>>

\* ... and writes the secret, whether there is one still or not.
WriteWebhookSecret(a) ==
  /\ Turn(a, "mint")
  /\ secret' = TRUE
  /\ Draw(a, Answered(a))
  /\ UNCHANGED <<subject, saApp, enabled>>

\* refresh: the selected row is the fresh one, and a drawer that is open again by now
\* starts over with it.
RefreshList(a) ==
  LET d == Answered(a) IN
  /\ Turn(a, "list")
  /\ \/ Draw(a, Seed(d, Row(saApp), d.open))
     \/ Draw(a, d)
  /\ UNCHANGED <<subject, saApp, secret, enabled>>

\* PATCH /api/apps/:id from another client, which sends one field: updateApp as above.
PatchedElsewhere(f, value) ==
  /\ f \in subject[Elsewhere] /\ value # saApp[f]
  /\ (f = "name" => value # Unset) /\ (f = "method" => value \in {Unset, Code})
  /\ saApp' = [saApp EXCEPT ![f] = value]
  /\ secret' = (secret /\ (f = "hook" => value # Unset))
  /\ UNCHANGED <<subject, enabled, drawer>>

\* A write of setForApp that another client asked for.
ProviderSetElsewhere(p) ==
  /\ "social" \in subject[Elsewhere]
  /\ enabled' = IF p \in enabled THEN enabled \ {p} ELSE enabled \cup {p}
  /\ UNCHANGED <<subject, saApp, secret, drawer>>

SettingsNext ==
  \/ \E f \in Fields, value \in Values : PatchedElsewhere(f, value)
  \/ \E p \in Providers : ProviderSetElsewhere(p)
  \/ \E a \in Admins :
    \/ OpenDrawer(a) \/ CloseDrawer(a) \/ HandleSubmit(a) \/ HandleRotateWebhookSecret(a)
    \/ \E f \in Fields, value \in Values : EditField(a, f, value)
    \/ \E p \in Providers : ToggleProvider(a, p)
    \/ GetApp(a) \/ GetSocial(a) \/ UpdateApp(a) \/ SetForApp(a) \/ SocialSaved(a)
    \/ ReadForRotation(a) \/ WriteWebhookSecret(a) \/ RefreshList(a)

SettingsSpec == SettingsInit /\ [][SettingsNext]_settingsVars

-----------------------------------------------------------------------------
(* Properties *)

SettingsTypeOK ==
  /\ saApp \in Settings /\ secret \in BOOLEAN /\ enabled \subseteq Providers
  /\ drawer \in [Admins -> Drawer]

\* Whatever the age of the row, the order of the answers and the changes of others in
\* the meantime, an admin's save changes a field only if he had edited it, with one
\* exception: a drawer that shows the method 'code' sends it along, edited or not; it
\* never sends 'link' along.  The providers, which go as a whole set and so put back what
\* others did to any of them, go only if he had ticked a box that no load has replaced.
SettingsSpared ==
  \A a \in Admins :
    LET meant == drawer[a].submit.meant IN
    /\ UpdateApp(a) => \A f \in Fields :
         saApp'[f] # saApp[f] => f \in meant \/ (f = "method" /\ saApp'[f] = Code)
    /\ SetForApp(a) /\ enabled' # enabled => "social" \in meant

=============================================================================
