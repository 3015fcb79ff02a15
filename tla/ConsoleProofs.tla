---------------------------- MODULE ConsoleProofs ----------------------------
(***************************************************************************)
(* Proofs about the parts of MCConsole, each for any number of users,      *)
(* rows, handlers, clients, admins and values.                             *)
(*                                                                         *)
(* Invitations: that a pending user keeps one depends on what a resend     *)
(* that has started is about to cancel: only invitations of the user it    *)
(* will make a new one for, as long as that user exists (HandlerOK).  That *)
(* a password comes from one invitation is said without counting: a user   *)
(* without a password has no used invitation, any other has just one       *)
(* (PasswordsOK).                                                          *)
(*                                                                         *)
(* Registry: a handler writes by id what it decided about a row it looked  *)
(* at before, so the invariant says what stays true of that row while the  *)
(* handler waits: ids are not used twice and platform never changes, hence *)
(* a row that was not the platform's is not the platform's now, if it is   *)
(* there.                                                                  *)
(*                                                                         *)
(* Rate limits: what is still remembered of a key splits into what passed  *)
(* in the window that stands, which its count counts, and what passed in   *)
(* the one before, never more than a budget (Counted); of a window that is *)
(* over only the first remains, so that dropping it loses nothing.         *)
(*                                                                         *)
(* Roles and permissions: what a replacement will not delete has come      *)
(* since its DELETE began (LeavesLater), and nothing where the PATCH names *)
(* fields of the owner's row, which it then has as one handler only can    *)
(* (HoldsOwner); a row that is being erased is none that another has       *)
(* linked (Apart).                                                         *)
(*                                                                         *)
(* List pages: a call that is still heard was asked for the filters and    *)
(* the row that are in force now (CallFits), because whatever changes them *)
(* goes through a rendering that disowns the calls before (Rendered).      *)
(*                                                                         *)
(* The drawers: a field or axis differs from what was loaded only if it    *)
(* was touched (EditsKnown, DrawerFits), and so it is in what a save       *)
(* closed over (SaveFits, SubmitFits), however late it is written.         *)
(***************************************************************************)
EXTENDS MCConsole, FiniteSetTheorems, SequenceTheorems, WellFoundedInduction, TLAPS

-----------------------------------------------------------------------------
(* Invitations *)

UsedFor(i, u) == invitation[i] # None /\ invitation[i].user = u /\ invitation[i].used

PasswordsOK ==
  \A u \in Users :
    IF u \in credential
      THEN \E i \in Invitations :
             UsedFor(i, u) /\ \A j \in Invitations : UsedFor(j, u) => j = i
      ELSE \A i \in Invitations : ~UsedFor(i, u)

\* A row goes with the user it invites.
RowsOK == \A i \in Invitations : invitation[i] # None => Exists(invitation[i].user)

HandlerOK(r) ==
  LET u == req[r].user IN
  /\ req[r].phase = "updating" => u \in Users /\ req[r].want \in {"active", "inactive"}
  /\ req[r].phase = "accepting" => req[r].inv \in Invitations
  /\ req[r].phase \in {"resending", "replacing"} => u \in Users /\ status[u] # "absent"
  /\ req[r].phase = "replacing" /\ Exists(u) =>
       \A i \in req[r].targets : invitation[i] # None /\ invitation[i].user = u

LifecycleInv ==
  /\ TypeOK
  /\ \A r \in Requests : HandlerOK(r)
  /\ RowsOK
  /\ NeverStranded
  /\ PasswordsOK

LEMMA LifecycleInitInv == Init => LifecycleInv
<1> SUFFICES ASSUME Init PROVE LifecycleInv
  OBVIOUS
<1>1. TypeOK
  BY DEF Init, TypeOK, Request, Phases, IdleRequest, Status
<1>2. \A r \in Requests : req[r].phase = "idle"
  BY DEF Init, IdleRequest
<1>3. \A r \in Requests : HandlerOK(r)
  BY <1>2 DEF HandlerOK
<1>4. RowsOK /\ NeverStranded
  BY DEF Init, RowsOK, NeverStranded
<1>5. PasswordsOK
  BY DEF Init, PasswordsOK, UsedFor
<1>6. QED
  BY <1>1, <1>3, <1>4, <1>5 DEF LifecycleInv

-----------------------------------------------------------------------------
(* What the steps do to the rows of SaInvitation *)

\* A new row is valid, unused and the only one that changes.
LEMMA InvitationRow ==
  ASSUME TypeOK, NEW u \in Users
  PROVE  /\ NewInvitation(u) \in SaInvitation /\ NewInvitation(u) # None
         /\ NewInvitation(u).user = u /\ ~NewInvitation(u).used
         /\ NewInvitation(u).expiry = "valid"
<1>1. NewInvitation(u) \in SaInvitation
  BY DEF NewInvitation, SaInvitation
<1>2. QED
  BY <1>1, ConstantsAssumption DEF NewInvitation

\* A resend changes no row but the unused ones it saw, and those only in expiry.
LEMMA CancelRows ==
  ASSUME TypeOK, NEW S \in SUBSET Invitations
  PROVE  /\ Cancel(S) \in [Invitations -> SaInvitation \cup {None}]
         /\ \A i \in Invitations :
              /\ i \notin S => Cancel(S)[i] = invitation[i]
              /\ invitation[i] = None <=> Cancel(S)[i] = None
              /\ invitation[i] # None =>
                   /\ Cancel(S)[i].user = invitation[i].user
                   /\ Cancel(S)[i].used = invitation[i].used
<1> DEFINE row(i) == [invitation[i] EXCEPT !.expiry = "cancelled"]
<1>1. ASSUME NEW i \in Invitations, invitation[i] # None
      PROVE  /\ row(i) \in SaInvitation /\ row(i) # None
             /\ row(i).user = invitation[i].user /\ row(i).used = invitation[i].used
  <2>1. invitation[i] \in SaInvitation
    BY <1>1 DEF TypeOK
  <2>2. QED
    BY <2>1, ConstantsAssumption DEF SaInvitation
<1>2. \A i \in Invitations :
        Cancel(S)[i] = IF i \in S /\ Unused(i) THEN row(i) ELSE invitation[i]
  BY DEF Cancel
<1>3. DOMAIN Cancel(S) = Invitations
      /\ Cancel(S) = [i \in Invitations |-> Cancel(S)[i]]
  BY DEF Cancel
<1> HIDE DEF row
<1>4. \A i \in Invitations : Cancel(S)[i] \in SaInvitation \cup {None}
  BY <1>1, <1>2 DEF TypeOK, Unused
<1>5. QED
  BY <1>1, <1>2, <1>3, <1>4 DEF Unused

\* The rows at the commit of a resend: as in the two lemmas above.
LEMMA ReplacementRows ==
  ASSUME LifecycleInv, NEW r \in Requests, NEW i \in Invitations, CommitReplacement(r, i)
  PROVE  /\ req[r].user \in Users
         /\ invitation' \in [Invitations -> SaInvitation \cup {None}]
         /\ invitation[i] = None
         /\ invitation'[i] # None /\ invitation'[i].user = req[r].user
         /\ ~invitation'[i].used /\ invitation'[i].expiry = "valid"
         /\ \A j \in Invitations \ {i} :
              /\ j \notin req[r].targets => invitation'[j] = invitation[j]
              /\ invitation[j] = None <=> invitation'[j] = None
              /\ invitation[j] # None =>
                   /\ invitation'[j].user = invitation[j].user
                   /\ invitation'[j].used = invitation[j].used
<1> DEFINE u == req[r].user
           S == req[r].targets
<1>1. TypeOK /\ u \in Users /\ S \in SUBSET Invitations /\ invitation[i] = None
  BY DEF LifecycleInv, HandlerOK, CommitReplacement, TypeOK, Request
<1>2. invitation' = [Cancel(S) EXCEPT ![i] = NewInvitation(u)]
  BY DEF CommitReplacement
<1> HIDE DEF u, S
<1>3. /\ NewInvitation(u) \in SaInvitation /\ NewInvitation(u) # None
      /\ NewInvitation(u).user = u /\ ~NewInvitation(u).used
      /\ NewInvitation(u).expiry = "valid"
  BY <1>1, InvitationRow
<1>4. /\ Cancel(S) \in [Invitations -> SaInvitation \cup {None}]
      /\ \A j \in Invitations :
              /\ j \notin S => Cancel(S)[j] = invitation[j]
              /\ invitation[j] = None <=> Cancel(S)[j] = None
              /\ invitation[j] # None =>
                   /\ Cancel(S)[j].user = invitation[j].user
                   /\ Cancel(S)[j].used = invitation[j].used
  BY <1>1, CancelRows
<1>5. /\ invitation' \in [Invitations -> SaInvitation \cup {None}]
      /\ invitation'[i] = NewInvitation(u)
      /\ \A j \in Invitations \ {i} : invitation'[j] = Cancel(S)[j]
  BY <1>2, <1>3, <1>4
<1>6. QED
  BY <1>1, <1>3, <1>4, <1>5 DEF u, S

\* An acceptance marks the row it claims, and leaves all others.
LEMMA AcceptanceRows ==
  ASSUME LifecycleInv, NEW r \in Requests, CommitAcceptance(r)
  PROVE  LET i == req[r].inv
             u == invitation[i].user IN
         /\ i \in Invitations /\ u \in Users /\ u \notin credential
         /\ invitation[i] # None /\ ~invitation[i].used
         /\ invitation' \in [Invitations -> SaInvitation \cup {None}]
         /\ invitation'[i] # None /\ invitation'[i].user = u /\ invitation'[i].used
         /\ \A j \in Invitations \ {i} : invitation'[j] = invitation[j]
<1> DEFINE i == req[r].inv
           row == [invitation[i] EXCEPT !.used = TRUE]
<1>1. TypeOK /\ i \in Invitations /\ invitation[i] # None /\ ~invitation[i].used
  BY DEF LifecycleInv, HandlerOK, CommitAcceptance, Unused
<1>2. invitation[i] \in SaInvitation
  BY <1>1 DEF TypeOK
<1>3. row \in SaInvitation /\ row # None /\ row.user = invitation[i].user /\ row.used
      /\ invitation[i].user \in Users
  BY <1>2, ConstantsAssumption DEF SaInvitation
<1>4. invitation' = [invitation EXCEPT ![i] = row]
  BY <1>1 DEF CommitAcceptance, TypeOK
<1> HIDE DEF row
<1>5. /\ invitation' \in [Invitations -> SaInvitation \cup {None}]
      /\ invitation'[i] = row
      /\ \A j \in Invitations \ {i} : invitation'[j] = invitation[j]
  BY <1>1, <1>3, <1>4 DEF TypeOK
<1>6. QED
  BY <1>1, <1>3, <1>5 DEF CommitAcceptance

\* Time changes nothing but the expiry of a row.
LEMMA LapseRows ==
  ASSUME TypeOK, NEW i \in Invitations, Lapse(i)
  PROVE  /\ invitation' \in [Invitations -> SaInvitation \cup {None}]
         /\ \A j \in Invitations :
              /\ invitation[j] = None <=> invitation'[j] = None
              /\ invitation[j] # None =>
                   /\ invitation'[j].user = invitation[j].user
                   /\ invitation'[j].used = invitation[j].used
                   /\ invitation'[j].expiry = invitation[j].expiry
                      \/ invitation'[j].expiry = "lapsed"
<1> DEFINE row == [invitation[i] EXCEPT !.expiry = "lapsed"]
<1>1. invitation[i] \in SaInvitation /\ invitation[i] # None
  BY DEF Lapse, TypeOK
<1>2. row \in SaInvitation /\ row # None /\ row.user = invitation[i].user
      /\ row.used = invitation[i].used /\ row.expiry = "lapsed"
  BY <1>1, ConstantsAssumption DEF SaInvitation
<1>3. invitation' = [invitation EXCEPT ![i] = row]
  BY DEF Lapse, TypeOK
<1> HIDE DEF row
<1>4. /\ invitation' \in [Invitations -> SaInvitation \cup {None}]
      /\ invitation'[i] = row
      /\ \A j \in Invitations \ {i} : invitation'[j] = invitation[j]
  BY <1>2, <1>3 DEF TypeOK
<1>5. QED
  BY <1>1, <1>2, <1>4

-----------------------------------------------------------------------------
(* The invariant is inductive *)

\* A step that leaves the tables alone and gives the handlers other work keeps them.
LEMMA TablesUntouched ==
  ASSUME LifecycleInv, UNCHANGED <<status, credential, invitation>>,
         req' \in [Requests -> Request], \A r \in Requests : HandlerOK(r)'
  PROVE  LifecycleInv'
<1>1. TypeOK'
  BY DEF LifecycleInv, TypeOK
<1>2. RowsOK' /\ NeverStranded' /\ PasswordsOK'
  BY DEF LifecycleInv, RowsOK, Exists, NeverStranded, UnusedOf, Unused, PasswordsOK, UsedFor
<1>3. QED
  BY <1>1, <1>2 DEF LifecycleInv

\* The same for a step of one handler.
LEMMA RequestStep ==
  ASSUME LifecycleInv, UNCHANGED <<status, credential, invitation>>,
         NEW r \in Requests, NEW rec \in Request, req' = [req EXCEPT ![r] = rec],
         rec.phase = "updating" => rec.user \in Users /\ rec.want \in {"active", "inactive"},
         rec.phase = "accepting" => rec.inv \in Invitations,
         rec.phase \in {"resending", "replacing"} =>
           rec.user \in Users /\ status[rec.user] # "absent",
         rec.phase = "replacing" =>
           \A i \in rec.targets : invitation[i] # None /\ invitation[i].user = rec.user
  PROVE  LifecycleInv'
<1>1. /\ req' \in [Requests -> Request] /\ req'[r] = rec
      /\ \A q \in Requests : q # r => req'[q] = req[q]
  BY DEF LifecycleInv, TypeOK
<1>2. HandlerOK(r)'
  BY <1>1 DEF HandlerOK
<1>3. ASSUME NEW q \in Requests, q # r PROVE HandlerOK(q)'
  BY <1>1, <1>3 DEF LifecycleInv, HandlerOK, Exists
<1>4. QED
  BY <1>1, <1>2, <1>3, TablesUntouched

LEMMA IdleTyped == IdleRequest \in Request
BY DEF IdleRequest, Request, Phases

\* deleteUser: what it takes away belonged to the user alone.
LEMMA DeleteUserStep ==
  ASSUME LifecycleInv, NEW u \in Users, DeleteUser(u)
  PROVE  LifecycleInv'
<1>1. TypeOK /\ req' = req
  BY DEF LifecycleInv, DeleteUser
<1>2. /\ status' = [status EXCEPT ![u] = "deleted"]
      /\ credential' = credential \ {u}
      /\ \A i \in Invitations :
           invitation'[i] = IF invitation[i] # None /\ invitation[i].user = u
                              THEN None ELSE invitation[i]
      /\ invitation' \in [Invitations -> SaInvitation \cup {None}]
  BY <1>1 DEF DeleteUser, TypeOK
<1>3. TypeOK'
  BY <1>1, <1>2 DEF TypeOK
<1>4. ASSUME NEW r \in Requests PROVE HandlerOK(r)'
  <2>1. HandlerOK(r) /\ req[r].targets \subseteq Invitations
    BY <1>1 DEF LifecycleInv, TypeOK, Request
  <2>2. Exists(req[r].user)' /\ req[r].user \in Users => Exists(req[r].user) /\ req[r].user # u
    BY <1>1, <1>2 DEF Exists, TypeOK, Status
  <2>3. QED
    BY <1>1, <1>2, <2>1, <2>2 DEF HandlerOK, Exists
<1>5. NeverStranded'
  <2> SUFFICES ASSUME NEW v \in Users, status'[v] = "pending"
               PROVE  \E i \in UnusedOf(v)' : invitation'[i].expiry \in {"valid", "lapsed"}
    BY DEF NeverStranded
  <2>1. v # u /\ status[v] = "pending"
    BY <1>1, <1>2 DEF TypeOK
  <2>2. PICK i \in UnusedOf(v) : invitation[i].expiry \in {"valid", "lapsed"}
    BY <2>1 DEF LifecycleInv, NeverStranded
  <2>3. invitation'[i] = invitation[i] /\ i \in UnusedOf(v)'
    BY <1>2, <2>1, <2>2 DEF UnusedOf, Unused
  <2>4. QED
    BY <2>2, <2>3
<1>6. PasswordsOK'
  <2>1. \A v \in Users, i \in Invitations : UsedFor(i, v)' <=> UsedFor(i, v) /\ v # u
    BY <1>2 DEF UsedFor
  <2>2. QED
    BY <1>2, <2>1 DEF LifecycleInv, PasswordsOK
<1>7. RowsOK'
  <2> SUFFICES ASSUME NEW i \in Invitations, invitation'[i] # None
               PROVE  status'[invitation'[i].user] \in Status
    BY DEF RowsOK, Exists
  <2>1. /\ invitation'[i] = invitation[i] /\ invitation[i] # None
        /\ invitation[i].user # u /\ invitation[i].user \in Users
    BY <1>1, <1>2 DEF TypeOK, SaInvitation
  <2>2. QED
    BY <1>1, <1>2, <2>1 DEF LifecycleInv, RowsOK, Exists, TypeOK
<1>8. QED
  BY <1>3, <1>4, <1>5, <1>6, <1>7 DEF LifecycleInv

\* createUser: the row was nobody's, and the user had none.
LEMMA InviteStep ==
  ASSUME LifecycleInv, NEW u \in Users, NEW n \in Invitations, CreateUser(u, n)
  PROVE  LifecycleInv'
<1>1. TypeOK /\ invitation[n] = None /\ UNCHANGED <<credential, req>>
  BY DEF LifecycleInv, CreateUser
<1>2. /\ NewInvitation(u) \in SaInvitation /\ NewInvitation(u) # None
      /\ NewInvitation(u).user = u /\ ~NewInvitation(u).used
      /\ NewInvitation(u).expiry = "valid"
  BY <1>1, InvitationRow
<1>3. /\ status' = [status EXCEPT ![u] = "pending"]
      /\ invitation' \in [Invitations -> SaInvitation \cup {None}]
      /\ invitation'[n] = NewInvitation(u)
      /\ \A i \in Invitations : i # n => invitation'[i] = invitation[i]
  BY <1>1, <1>2 DEF CreateUser, TypeOK
<1>4. TypeOK'
  BY <1>1, <1>3 DEF TypeOK, Status
<1>5. ASSUME NEW r \in Requests PROVE HandlerOK(r)'
  <2>1. HandlerOK(r) /\ req[r].targets \subseteq Invitations
    BY <1>1 DEF LifecycleInv, TypeOK, Request
  <2>2. req[r].phase \in {"resending", "replacing"} => req[r].user # u
    BY <2>1 DEF HandlerOK, CreateUser
  <2>3. \A i \in req[r].targets : invitation[i] # None => invitation'[i] = invitation[i]
    BY <1>1, <1>3, <2>1
  <2>4. QED
    BY <1>1, <1>3, <2>1, <2>2, <2>3 DEF HandlerOK, Exists, TypeOK
<1>6. NeverStranded'
  <2> SUFFICES ASSUME NEW v \in Users, status'[v] = "pending"
               PROVE  \E i \in UnusedOf(v)' : invitation'[i].expiry \in {"valid", "lapsed"}
    BY DEF NeverStranded
  <2>1. CASE v = u
    BY <1>2, <1>3, <2>1 DEF UnusedOf, Unused
  <2>2. CASE v # u
    <3>1. status[v] = "pending"
      BY <1>1, <1>3, <2>2 DEF TypeOK
    <3>2. PICK i \in UnusedOf(v) : invitation[i].expiry \in {"valid", "lapsed"}
      BY <3>1 DEF LifecycleInv, NeverStranded
    <3>3. invitation'[i] = invitation[i] /\ i \in UnusedOf(v)'
      BY <1>1, <1>3, <3>2 DEF UnusedOf, Unused
    <3>4. QED
      BY <3>2, <3>3
  <2>3. QED
    BY <2>1, <2>2
<1>7. PasswordsOK'
  <2>1. \A v \in Users, i \in Invitations : UsedFor(i, v)' <=> UsedFor(i, v)
    BY <1>1, <1>2, <1>3 DEF UsedFor
  <2>2. QED
    BY <1>1, <2>1 DEF LifecycleInv, PasswordsOK
<1>8. RowsOK'
  BY <1>1, <1>2, <1>3 DEF LifecycleInv, RowsOK, Exists, TypeOK, Status
<1>9. QED
  BY <1>4, <1>5, <1>6, <1>7, <1>8 DEF LifecycleInv

\* A status is written whatever it is by then, but never "pending".
LEMMA WriteStep ==
  ASSUME LifecycleInv, NEW r \in Requests, WriteStatus(r)
  PROVE  LifecycleInv'
<1> DEFINE u == req[r].user
<1>1. /\ TypeOK /\ HandlerOK(r) /\ UNCHANGED <<credential, invitation>>
      /\ u \in Users /\ Exists(u) /\ req[r].want \in {"active", "inactive"}
  BY DEF LifecycleInv, WriteStatus, HandlerOK
<1>2. /\ status' = [status EXCEPT ![u] = req[r].want]
      /\ req'[r].phase = "idle" /\ \A q \in Requests : q # r => req'[q] = req[q]
      /\ req' \in [Requests -> Request]
  BY <1>1, IdleTyped DEF WriteStatus, Finish, TypeOK, IdleRequest
<1>3. TypeOK'
  BY <1>1, <1>2 DEF TypeOK, Status
<1>4. \A v \in Users : Exists(v)' => Exists(v)
  BY <1>1, <1>2 DEF Exists, TypeOK, Status
<1>5. \A v \in Users : status[v] # "absent" => status'[v] # "absent"
  BY <1>1, <1>2 DEF TypeOK
<1>6. ASSUME NEW q \in Requests PROVE HandlerOK(q)'
  BY <1>1, <1>2, <1>4, <1>5 DEF LifecycleInv, HandlerOK
<1>7. NeverStranded'
  <2>1. \A v \in Users : status'[v] = "pending" => status[v] = "pending"
    BY <1>1, <1>2 DEF TypeOK
  <2>2. QED
    BY <1>1, <2>1 DEF LifecycleInv, NeverStranded, UnusedOf, Unused
<1>8. PasswordsOK'
  BY <1>1 DEF LifecycleInv, PasswordsOK, UsedFor
<1>9. RowsOK'
  BY <1>1, <1>2 DEF LifecycleInv, RowsOK, Exists, TypeOK, Status
<1>10. QED
  BY <1>3, <1>6, <1>7, <1>8, <1>9 DEF LifecycleInv

\* acceptInvitation: the user had no password, so no other invitation was used.
LEMMA AcceptStep ==
  ASSUME LifecycleInv, NEW r \in Requests, CommitAcceptance(r)
  PROVE  LifecycleInv'
<1>1. TypeOK /\ req[r].inv \in Invitations
  BY DEF LifecycleInv, HandlerOK, CommitAcceptance
<1>2. PICK i \in Invitations : i = req[r].inv
  BY <1>1
<1>3. PICK u \in Users : u = invitation[i].user
  BY <1>2, AcceptanceRows
<1>4. /\ u \notin credential
      /\ invitation[i] # None /\ ~invitation[i].used
      /\ invitation' \in [Invitations -> SaInvitation \cup {None}]
      /\ invitation'[i] # None /\ invitation'[i].user = u /\ invitation'[i].used
      /\ \A j \in Invitations \ {i} : invitation'[j] = invitation[j]
  BY <1>2, <1>3, AcceptanceRows
<1>5. /\ status' = [status EXCEPT ![u] = "active"]
      /\ credential' = credential \cup {u}
      /\ req'[r].phase = "idle" /\ \A q \in Requests : q # r => req'[q] = req[q]
      /\ req' \in [Requests -> Request]
  BY <1>1, <1>2, <1>3, IdleTyped DEF CommitAcceptance, Finish, TypeOK, IdleRequest
<1>6. TypeOK'
  BY <1>1, <1>4, <1>5 DEF TypeOK, Status
<1>7. ASSUME NEW q \in Requests PROVE HandlerOK(q)'
  <2>1. CASE q = r
    BY <1>5, <2>1 DEF HandlerOK
  <2>2. CASE q # r
    <3>1. HandlerOK(q) /\ req'[q] = req[q] /\ req[q].targets \subseteq Invitations
      BY <1>1, <1>5, <2>2 DEF LifecycleInv, TypeOK, Request
    <3>2. \A v \in Users : /\ Exists(v)' <=> Exists(v)
                           /\ status[v] # "absent" => status'[v] # "absent"
      BY <1>1, <1>3, <1>4, <1>5 DEF LifecycleInv, RowsOK, Exists, TypeOK, Status
    <3>3. \A j \in Invitations : invitation[j] # None =>
            invitation'[j] # None /\ invitation'[j].user = invitation[j].user
      BY <1>3, <1>4
    <3>4. QED
      BY <3>1, <3>2, <3>3 DEF HandlerOK
  <2>3. QED
    BY <2>1, <2>2
<1>8. RowsOK'
  BY <1>1, <1>3, <1>4, <1>5 DEF LifecycleInv, RowsOK, Exists, TypeOK, Status
<1>9. NeverStranded'
  <2> SUFFICES ASSUME NEW v \in Users, status'[v] = "pending"
               PROVE  \E j \in UnusedOf(v)' : invitation'[j].expiry \in {"valid", "lapsed"}
    BY DEF NeverStranded
  <2>1. v # u /\ status[v] = "pending"
    BY <1>1, <1>5 DEF TypeOK
  <2>2. PICK j \in UnusedOf(v) : invitation[j].expiry \in {"valid", "lapsed"}
    BY <2>1 DEF LifecycleInv, NeverStranded
  <2>3. j # i /\ invitation'[j] = invitation[j] /\ j \in UnusedOf(v)'
    BY <1>3, <1>4, <2>1, <2>2 DEF UnusedOf, Unused
  <2>4. QED
    BY <2>2, <2>3
<1>10. PasswordsOK'
  <2>1. \A v \in Users, j \in Invitations :
          UsedFor(j, v)' <=> UsedFor(j, v) \/ (j = i /\ v = u)
    BY <1>2, <1>3, <1>4 DEF UsedFor
  <2>2. \A j \in Invitations : ~UsedFor(j, u)
    BY <1>4 DEF LifecycleInv, PasswordsOK
  <2>3. QED
    BY <1>5, <2>1, <2>2 DEF LifecycleInv, PasswordsOK
<1>11. QED
  BY <1>6, <1>7, <1>8, <1>9, <1>10 DEF LifecycleInv

\* resendInvitation: what it cancels is its own user's, and that user gets a new one.
LEMMA ReplaceStep ==
  ASSUME LifecycleInv, NEW r \in Requests, NEW i \in Invitations, CommitReplacement(r, i)
  PROVE  LifecycleInv'
<1>1. /\ TypeOK /\ HandlerOK(r) /\ UNCHANGED <<status, credential>>
      /\ req[r].targets \subseteq Invitations
  BY DEF LifecycleInv, CommitReplacement, TypeOK, Request
<1>2. PICK u \in Users : u = req[r].user
  BY <1>1 DEF HandlerOK, CommitReplacement
<1>3. /\ Exists(u) /\ status[u] # "absent"
      /\ \A j \in req[r].targets : invitation[j] # None /\ invitation[j].user = u
  BY <1>1, <1>2 DEF HandlerOK, CommitReplacement
<1>4. /\ invitation' \in [Invitations -> SaInvitation \cup {None}]
      /\ invitation[i] = None
      /\ invitation'[i] # None /\ invitation'[i].user = u
      /\ ~invitation'[i].used /\ invitation'[i].expiry = "valid"
      /\ \A j \in Invitations \ {i} :
           /\ j \notin req[r].targets => invitation'[j] = invitation[j]
           /\ invitation[j] = None <=> invitation'[j] = None
           /\ invitation[j] # None =>
                /\ invitation'[j].user = invitation[j].user
                /\ invitation'[j].used = invitation[j].used
  BY <1>2, ReplacementRows
<1>5. /\ req'[r].phase = "idle" /\ \A q \in Requests : q # r => req'[q] = req[q]
      /\ req' \in [Requests -> Request]
  BY <1>1, IdleTyped DEF CommitReplacement, Finish, TypeOK, IdleRequest
<1>6. TypeOK'
  BY <1>1, <1>4, <1>5 DEF TypeOK
<1>7. ASSUME NEW q \in Requests PROVE HandlerOK(q)'
  <2>1. CASE q = r
    BY <1>5, <2>1 DEF HandlerOK
  <2>2. CASE q # r
    <3>1. HandlerOK(q) /\ req'[q] = req[q] /\ req[q].targets \subseteq Invitations
      BY <1>1, <1>5, <2>2 DEF LifecycleInv, TypeOK, Request
    <3>2. \A j \in Invitations : invitation[j] # None =>
            invitation'[j] # None /\ invitation'[j].user = invitation[j].user
      BY <1>4
    <3>3. QED
      BY <1>1, <3>1, <3>2 DEF HandlerOK, Exists
  <2>3. QED
    BY <2>1, <2>2
<1>8. RowsOK'
  BY <1>1, <1>3, <1>4 DEF LifecycleInv, RowsOK, Exists
<1>9. NeverStranded'
  <2> SUFFICES ASSUME NEW v \in Users, status[v] = "pending"
               PROVE  \E j \in UnusedOf(v)' : invitation'[j].expiry \in {"valid", "lapsed"}
    BY <1>1 DEF NeverStranded
  <2>1. CASE v = u
    BY <1>4, <2>1 DEF UnusedOf, Unused
  <2>2. CASE v # u
    <3>1. PICK j \in UnusedOf(v) : invitation[j].expiry \in {"valid", "lapsed"}
      BY DEF LifecycleInv, NeverStranded
    <3>2. j # i /\ j \notin req[r].targets
      BY <1>3, <1>4, <2>2, <3>1 DEF UnusedOf, Unused
    <3>3. invitation'[j] = invitation[j] /\ j \in UnusedOf(v)'
      BY <1>4, <3>1, <3>2 DEF UnusedOf, Unused
    <3>4. QED
      BY <3>1, <3>3
  <2>3. QED
    BY <2>1, <2>2
<1>10. PasswordsOK'
  <2>1. \A v \in Users, j \in Invitations : UsedFor(j, v)' <=> UsedFor(j, v)
    BY <1>4 DEF UsedFor
  <2>2. QED
    BY <1>1, <2>1 DEF LifecycleInv, PasswordsOK
<1>11. QED
  BY <1>6, <1>7, <1>8, <1>9, <1>10 DEF LifecycleInv

\* Time takes an invitation's validity, not the invitation.
LEMMA LapseStep ==
  ASSUME LifecycleInv, NEW i \in Invitations, Lapse(i)
  PROVE  LifecycleInv'
<1>1. TypeOK /\ UNCHANGED <<status, credential, req>>
  BY DEF LifecycleInv, Lapse
<1>2. /\ invitation' \in [Invitations -> SaInvitation \cup {None}]
      /\ \A j \in Invitations :
           /\ invitation[j] = None <=> invitation'[j] = None
           /\ invitation[j] # None =>
                /\ invitation'[j].user = invitation[j].user
                /\ invitation'[j].used = invitation[j].used
                /\ invitation'[j].expiry = invitation[j].expiry
                   \/ invitation'[j].expiry = "lapsed"
  BY <1>1, LapseRows
<1>3. TypeOK'
  BY <1>1, <1>2 DEF TypeOK
<1>4. ASSUME NEW r \in Requests PROVE HandlerOK(r)'
  <2>1. HandlerOK(r) /\ req[r].targets \subseteq Invitations
    BY <1>1 DEF LifecycleInv, TypeOK, Request
  <2>2. QED
    BY <1>1, <1>2, <2>1 DEF HandlerOK, Exists
<1>5. RowsOK'
  BY <1>1, <1>2 DEF LifecycleInv, RowsOK, Exists
<1>6. NeverStranded'
  BY <1>1, <1>2 DEF LifecycleInv, NeverStranded, UnusedOf, Unused
<1>7. PasswordsOK'
  <2>1. \A v \in Users, j \in Invitations : UsedFor(j, v)' <=> UsedFor(j, v)
    BY <1>2 DEF UsedFor
  <2>2. QED
    BY <1>1, <2>1 DEF LifecycleInv, PasswordsOK
<1>8. QED
  BY <1>3, <1>4, <1>5, <1>6, <1>7 DEF LifecycleInv

LEMMA LifecycleInductive == LifecycleInv /\ [Next]_vars => LifecycleInv'
<1> SUFFICES ASSUME LifecycleInv, [Next]_vars PROVE LifecycleInv'
  OBVIOUS
<1>1. TypeOK
  BY DEF LifecycleInv
<1>2. ASSUME NEW r \in Requests, Arrive(r) PROVE LifecycleInv'
  <2>1. ASSUME NEW u \in Users, NEW want \in {"active", "inactive"}, ReadUser(r, u, want)
        PROVE  LifecycleInv'
    <3> DEFINE rec == [IdleRequest EXCEPT !.phase = "updating", !.user = u, !.want = want]
    <3>1. rec \in Request /\ rec.phase = "updating" /\ rec.user = u /\ rec.want = want
      BY DEF IdleRequest, Request, Phases, Status
    <3>2. req' = [req EXCEPT ![r] = rec] /\ UNCHANGED <<status, credential, invitation>>
      BY <2>1 DEF ReadUser, Begin
    <3> HIDE DEF rec
    <3>3. QED
      BY <3>1, <3>2, RequestStep
  <2>2. ASSUME NEW i \in Invitations, ReadInvitation(r, i) PROVE LifecycleInv'
    <3> DEFINE rec == [IdleRequest EXCEPT !.phase = "accepting", !.inv = i]
    <3>1. rec \in Request /\ rec.phase = "accepting" /\ rec.inv = i
      BY DEF IdleRequest, Request, Phases
    <3>2. req' = [req EXCEPT ![r] = rec] /\ UNCHANGED <<status, credential, invitation>>
      BY <2>2 DEF ReadInvitation, Begin
    <3> HIDE DEF rec
    <3>3. QED
      BY <3>1, <3>2, RequestStep
  <2>3. ASSUME NEW u \in Users, ReadPending(r, u) PROVE LifecycleInv'
    <3> DEFINE rec == [IdleRequest EXCEPT !.phase = "resending", !.user = u]
    <3>1. rec \in Request /\ rec.phase = "resending" /\ rec.user = u
      BY DEF IdleRequest, Request, Phases
    <3>2. /\ req' = [req EXCEPT ![r] = rec] /\ UNCHANGED <<status, credential, invitation>>
          /\ status[u] # "absent"
      BY <2>3 DEF ReadPending, Begin
    <3> HIDE DEF rec
    <3>3. QED
      BY <3>1, <3>2, RequestStep
  <2>4. QED
    BY <1>2, <2>1, <2>2, <2>3 DEF Arrive
<1>3. ASSUME NEW r \in Requests, Serve(r) PROVE LifecycleInv'
  <2>1. ASSUME RollBackAcceptance(r) PROVE LifecycleInv'
    BY <2>1, RequestStep, IdleTyped DEF RollBackAcceptance, Finish, IdleRequest
  <2>2. ASSUME StartReplacing(r) PROVE LifecycleInv'
    <3> DEFINE rec == [req[r] EXCEPT !.phase = "replacing",
                                     !.targets = UnusedOf(req[r].user)]
    <3>1. req[r] \in Request /\ HandlerOK(r) /\ UnusedOf(req[r].user) \subseteq Invitations
      BY <1>1 DEF LifecycleInv, TypeOK, UnusedOf
    <3>2. /\ rec \in Request /\ rec.phase = "replacing" /\ rec.user = req[r].user
          /\ rec.targets = UnusedOf(req[r].user)
      BY <3>1 DEF Request, Phases
    <3>3. req' = [req EXCEPT ![r] = rec] /\ UNCHANGED <<status, credential, invitation>>
      BY <1>1, <2>2 DEF StartReplacing, TypeOK
    <3>4. req[r].user \in Users /\ status[req[r].user] # "absent"
      BY <2>2, <3>1 DEF StartReplacing, HandlerOK
    <3>5. \A i \in UnusedOf(req[r].user) :
            invitation[i] # None /\ invitation[i].user = req[r].user
      BY DEF UnusedOf, Unused
    <3> HIDE DEF rec
    <3>6. QED
      BY <3>2, <3>3, <3>4, <3>5, RequestStep
  <2>3. QED
    BY <1>3, <2>1, <2>2, WriteStep, AcceptStep, ReplaceStep DEF Serve
<1>4. ASSUME NEW r \in Requests, Abandon(r) PROVE LifecycleInv'
  BY <1>4, RequestStep, IdleTyped DEF Abandon, Finish, IdleRequest
<1>5. CASE UNCHANGED vars
  <2>1. \A r \in Requests : HandlerOK(r)'
    BY <1>5 DEF vars, LifecycleInv, HandlerOK, Exists
  <2>2. QED
    BY <1>1, <1>5, <2>1, TablesUntouched DEF vars, TypeOK
<1>6. QED
  BY <1>2, <1>3, <1>4, <1>5, DeleteUserStep, InviteStep, LapseStep DEF Next

LEMMA LifecycleInvariance == Spec => []LifecycleInv
BY LifecycleInitInv, LifecycleInductive, PTL DEF Spec

-----------------------------------------------------------------------------
(* The theorems *)

\* The statuses, the passwords, the invitations and the handlers stay well typed.
THEOREM LifecycleTypeCorrect == Spec => []TypeOK
<1>1. LifecycleInv => TypeOK
  BY DEF LifecycleInv
<1>2. QED
  BY LifecycleInvariance, <1>1, PTL

\* However resends, acceptances, changes of status and failures interleave, a pending
\* user holds an invitation that only time can take away.
THEOREM NobodyIsStranded == Spec => []NeverStranded
<1>1. LifecycleInv => NeverStranded
  BY DEF LifecycleInv
<1>2. QED
  BY LifecycleInvariance, <1>1, PTL

\* Of all the acceptances that race with each other, with resends and with admins, one
\* sets the password, and its invitation is the only one used up.
THEOREM AcceptedOnce == Spec => []OneAcceptance
<1>1. ASSUME LifecycleInv PROVE OneAcceptance
  <2> DEFINE UsedBy(u) == {i \in Invitations :
                 invitation[i] # None /\ invitation[i].user = u /\ invitation[i].used}
  <2>1. ASSUME NEW u \in Users, u \notin credential PROVE Cardinality(UsedBy(u)) = 0
    <3>1. UsedBy(u) = {}
      BY <1>1, <2>1 DEF LifecycleInv, PasswordsOK, UsedFor
    <3>2. QED
      BY <3>1, FS_EmptySet
  <2>2. ASSUME NEW u \in Users, u \in credential PROVE Cardinality(UsedBy(u)) = 1
    <3>1. PICK i \in Invitations :
            UsedFor(i, u) /\ \A j \in Invitations : UsedFor(j, u) => j = i
      BY <1>1, <2>2 DEF LifecycleInv, PasswordsOK
    <3>2. UsedBy(u) = {i}
      BY <3>1 DEF UsedFor
    <3>3. QED
      BY <3>2, FS_Singleton
  <2>3. QED
    BY <2>1, <2>2 DEF OneAcceptance
<1>2. QED
  BY LifecycleInvariance, <1>1, PTL

-----------------------------------------------------------------------------
(* Registry *)

\* What a handler relies on when it writes.
KeeperOK(c) ==
  /\ c.doing = "create" =>
       /\ c.name \in AllNames
       /\ topic = "app" <=> c.id = Absent
       /\ topic = "permission" => ~IsPlatform(c.name)
       /\ topic = "org" /\ There(c.id) => ~registry[c.id].platform
  /\ c.doing = "rename" =>
       /\ c.id \in RowIds \ SeededIds /\ c.name \in AllNames
       /\ topic = "permission" => ~IsPlatform(c.name)
       /\ There(c.id) => registry[c.id].kind = topic
  /\ c.doing = "delete" => c.id \in RowIds \ SeededIds

IdsOK == \A id \in NewIds \ spent : ~There(id)

RegistryInv ==
  /\ RegistryTypeOK
  /\ IdsOK
  /\ \A k \in Keepers : KeeperOK(keeper[k])
  /\ PlatformIsTheSeeds

\* The two names that are picked are of their sets, so no permission is reserved by both
\* its name and isSystem.
LEMMA Names ==
  /\ SomeName \in PlainNames /\ SeedName \in ReservedNames
  /\ ~IsPlatform(SomeName) /\ IsPlatform(SeedName)
BY RegistryAssumption DEF SomeName, SeedName, IsPlatform

LEMMA SeedRows ==
  /\ \A id \in SeededIds : SeedRow(id) \in RegistryRow /\ SeedRow(id) # Absent
  /\ \A id \in SeededIds : SeedRow(id).kind # "role" /\ SeedRow(id).app = "platformApp"
  /\ \A id \in SeededIds :
       \/ SeedRow(id).platform
       \/ SeedRow(id).kind = "permission" /\ IsPlatform(SeedRow(id).name)
<1> USE DEF NewRegistryRow
<1>1. SeedRow("platformApp") = NewRegistryRow("app", "platformApp", SeedName, TRUE)
  BY DEF SeedRow
<1>2. SeedRow("platformOrg") = NewRegistryRow("org", "platformApp", SeedName, TRUE)
  BY DEF SeedRow
<1>3. SeedRow("platformPermission") = NewRegistryRow("permission", "platformApp", SeedName, FALSE)
  BY DEF SeedRow
<1>4. SeedRow("systemPermission") = NewRegistryRow("permission", "platformApp", SomeName, TRUE)
  BY DEF SeedRow
<1>5. /\ "platformApp" \in RowIds /\ SomeName \in AllNames /\ SeedName \in AllNames
      /\ "app" \in RegistryKinds /\ "org" \in RegistryKinds /\ "permission" \in RegistryKinds
  <2>1. SomeName \in AllNames /\ SeedName \in AllNames
    BY Names DEF AllNames
  <2>2. QED
    BY <2>1 DEF RowIds, SeededIds, RegistryKinds
<1>6. ASSUME NEW id \in SeededIds
      PROVE  /\ SeedRow(id) \in RegistryRow /\ SeedRow(id) # Absent
             /\ SeedRow(id).kind # "role" /\ SeedRow(id).app = "platformApp"
             /\ \/ SeedRow(id).platform
                \/ SeedRow(id).kind = "permission" /\ IsPlatform(SeedRow(id).name)
  <2>1. SeedRow(id) \in RegistryRow
    <3>1. ASSUME NEW kind \in RegistryKinds, NEW name \in AllNames, NEW platform \in BOOLEAN
          PROVE  NewRegistryRow(kind, "platformApp", name, platform) \in RegistryRow
      BY <1>5 DEF RegistryRow
    <3>2. \/ SeedRow(id) = NewRegistryRow("app", "platformApp", SeedName, TRUE)
          \/ SeedRow(id) = NewRegistryRow("org", "platformApp", SeedName, TRUE)
          \/ SeedRow(id) = NewRegistryRow("permission", "platformApp", SeedName, FALSE)
          \/ SeedRow(id) = NewRegistryRow("permission", "platformApp", SomeName, TRUE)
      BY <1>1, <1>2, <1>3, <1>4 DEF SeededIds
    <3> HIDE DEF NewRegistryRow
    <3>3. QED
      BY <1>5, <3>1, <3>2
  <2>2. SeedRow(id) # Absent
    BY <2>1, RegistryAssumption
  <2>3. SeedRow(id).kind # "role" /\ SeedRow(id).app = "platformApp"
    BY <1>1, <1>2, <1>3, <1>4 DEF SeededIds
  <2>4. \/ SeedRow(id).platform
        \/ SeedRow(id).kind = "permission" /\ IsPlatform(SeedRow(id).name)
    <3>1. CASE id = "platformPermission"
      BY <1>3, <3>1, Names
    <3>2. CASE id # "platformPermission"
      BY <1>1, <1>2, <1>4, <3>2 DEF SeededIds
    <3>3. QED
      BY <3>1, <3>2
  <2>5. QED
    BY <2>1, <2>2, <2>3, <2>4
<1>7. QED
  BY <1>6

LEMMA RegistryInitInv == RegistryInit => RegistryInv
<1> SUFFICES ASSUME RegistryInit PROVE RegistryInv
  OBVIOUS
<1> DEFINE tenant == NewRegistryRow("app", TenantApp, SomeName, FALSE)
<1>1. /\ tenant \in RegistryRow /\ tenant # Absent /\ tenant.app = TenantApp
      /\ tenant.kind = "app" /\ ~tenant.platform
  <2>1. tenant \in RegistryRow
    BY Names DEF NewRegistryRow, RegistryRow, RegistryKinds, RowIds, AllNames
  <2>2. QED
    BY <2>1, RegistryAssumption DEF NewRegistryRow
<1>2. /\ \A id \in SeededIds : registry[id] = SeedRow(id)
      /\ registry[TenantApp] = tenant
      /\ \A id \in NewIds : registry[id] = Absent
      /\ registry \in [RowIds -> RegistryRow \cup {Absent}]
  BY <1>1, SeedRows, RegistryAssumption DEF RegistryInit, RowIds
<1> HIDE DEF tenant
<1>3. RegistryTypeOK
  BY <1>2 DEF RegistryTypeOK, RegistryInit, Keeper, AtRest
<1>4. IdsOK
  BY <1>2 DEF IdsOK, There
<1>5. \A k \in Keepers : KeeperOK(keeper[k])
  BY DEF RegistryInit, AtRest, KeeperOK
<1>6. PlatformIsTheSeeds
  <2>1. \A id \in RowIds : There(id) => id \in SeededIds \/ id = TenantApp
    BY <1>2 DEF There, RowIds
  <2>2. There(TenantApp) /\ "platformApp" \in SeededIds /\ \A id \in SeededIds : There(id)
    BY <1>1, <1>2, SeedRows DEF There, SeededIds
  <2>3. ~Reserved(registry[TenantApp])
    BY <1>1, <1>2 DEF Reserved
  <2>4. QED
    BY <1>1, <1>2, <2>1, <2>2, <2>3, SeedRows DEF PlatformIsTheSeeds
<1>7. QED
  BY <1>3, <1>4, <1>5, <1>6 DEF RegistryInv

-----------------------------------------------------------------------------
(* The invariant is inductive *)

\* A step that writes no row, and of the handlers only k's.
LEMMA KeeperStep ==
  ASSUME RegistryInv, NEW k \in Keepers, NEW c \in Keeper, KeeperOK(c),
         keeper' = [keeper EXCEPT ![k] = c], UNCHANGED <<topic, registry, spent>>,
         used' \subseteq RowIds
  PROVE  RegistryInv'
<1>1. RegistryTypeOK'
  BY DEF RegistryInv, RegistryTypeOK
<1>2. keeper'[k] = c /\ \A q \in Keepers : q # k => keeper'[q] = keeper[q]
  BY DEF RegistryInv, RegistryTypeOK
<1>3. \A q \in Keepers : KeeperOK(keeper[q])'
  BY <1>2 DEF RegistryInv, KeeperOK, There
<1>4. IdsOK' /\ PlatformIsTheSeeds'
  BY DEF RegistryInv, IdsOK, PlatformIsTheSeeds, There, Reserved
<1>5. QED
  BY <1>1, <1>3, <1>4 DEF RegistryInv

LEMMA RestOK == AtRest \in Keeper /\ KeeperOK(AtRest)
BY DEF AtRest, Keeper, KeeperOK

\* The other handlers keep what they rely on when a row is written: topic stays, and no
\* row that is there changes its kind or whether it is the platform's.
LEMMA OthersKept ==
  ASSUME RegistryInv, NEW k \in Keepers, keeper' = [keeper EXCEPT ![k] = AtRest], topic' = topic,
         \A id \in RowIds : There(id)' /\ id \notin NewIds \ spent =>
           /\ There(id) /\ registry'[id].kind = registry[id].kind
           /\ registry'[id].platform = registry[id].platform,
         \A id \in NewIds \ spent : There(id)' =>
           registry'[id].kind = topic /\ ~registry'[id].platform
  PROVE  \A q \in Keepers : KeeperOK(keeper[q])'
<1> SUFFICES ASSUME NEW q \in Keepers PROVE KeeperOK(keeper[q])'
  OBVIOUS
<1>1. RegistryTypeOK /\ KeeperOK(keeper[q]) /\ keeper[q] \in Keeper
  BY DEF RegistryInv, RegistryTypeOK
<1>2. CASE q = k
  BY <1>1, <1>2 DEF RegistryTypeOK, KeeperOK, AtRest
<1>3. CASE q # k
  <2>1. keeper'[q] = keeper[q]
    BY <1>1, <1>3 DEF RegistryTypeOK
  <2>2. keeper[q].id # Absent => keeper[q].id \in RowIds
    BY <1>1 DEF Keeper
  <2>3. QED
    BY <1>1, <2>1, <2>2 DEF KeeperOK
<1>4. QED
  BY <1>2, <1>3

\* A new row is not one of those the code takes for the platform's: its name is not
\* reserved, and its app was not the platform's when that was looked at.
LEMMA CreateStep ==
  ASSUME RegistryInv, NEW k \in Keepers, WriteCreate(k)
  PROVE  RegistryInv'
<1> DEFINE c == keeper[k]
<1>1. /\ RegistryTypeOK /\ KeeperOK(c) /\ c \in Keeper /\ c.doing = "create"
      /\ c.id # Absent => There(c.id)
  BY DEF RegistryInv, RegistryTypeOK, WriteCreate
<1>2. PICK id \in NewIds \ spent :
        /\ registry' = [registry EXCEPT ![id] =
             NewRegistryRow(topic, IF c.id = Absent THEN id ELSE c.id, c.name, FALSE)]
        /\ spent' = spent \cup {id}
        /\ keeper' = [keeper EXCEPT ![k] = AtRest]
        /\ UNCHANGED <<topic, used>>
  <2>1. (CHOOSE free \in NewIds \ spent : TRUE) \in NewIds \ spent
    BY DEF WriteCreate
  <2>2. QED
    BY <2>1 DEF WriteCreate, Put
<1>3. PICK row : row = NewRegistryRow(topic, IF c.id = Absent THEN id ELSE c.id, c.name, FALSE)
  OBVIOUS
<1>4. /\ row = NewRegistryRow(topic, IF c.id = Absent THEN id ELSE c.id, c.name, FALSE)
      /\ registry' = [registry EXCEPT ![id] = row]
      /\ spent' = spent \cup {id}
      /\ keeper' = [keeper EXCEPT ![k] = AtRest]
      /\ UNCHANGED <<topic, used>>
      /\ id \in NewIds \ spent
  BY <1>2, <1>3
<1>5. /\ row.kind = topic /\ row.name = c.name /\ row.platform = FALSE
      /\ row.app = IF c.id = Absent THEN id ELSE c.id
  BY <1>4 DEF NewRegistryRow
<1>6. /\ id \in RowIds \ SeededIds /\ registry[id] = Absent
      /\ c.id \in RowIds \cup {Absent} /\ c.name \in AllNames
  BY <1>1, <1>4, RegistryAssumption DEF RegistryInv, IdsOK, There, RowIds, Keeper, KeeperOK
<1>7. row \in RegistryRow
  BY <1>1, <1>4, <1>6 DEF NewRegistryRow, RegistryRow, RegistryTypeOK
<1>8. row # Absent
  BY <1>7, RegistryAssumption
<1>9. /\ registry' \in [RowIds -> RegistryRow \cup {Absent}] /\ registry'[id] = row
      /\ \A x \in RowIds : x # id => registry'[x] = registry[x]
  BY <1>1, <1>4, <1>6, <1>7 DEF RegistryTypeOK
<1>10. RegistryTypeOK'
  BY <1>1, <1>4, <1>9, RestOK DEF RegistryTypeOK
<1>11. IdsOK'
  BY <1>4, <1>9 DEF RegistryInv, IdsOK, There, RowIds
<1>12. \A q \in Keepers : KeeperOK(keeper[q])'
  <2>1. \A x \in RowIds : There(x)' /\ x \notin NewIds \ spent =>
          /\ There(x) /\ registry'[x].kind = registry[x].kind
          /\ registry'[x].platform = registry[x].platform
    BY <1>9 DEF There
  <2>2. \A x \in NewIds \ spent : There(x)' =>
          registry'[x].kind = topic /\ ~registry'[x].platform
    BY <1>5, <1>9 DEF There, RowIds, RegistryInv, IdsOK
  <2>3. keeper' = [keeper EXCEPT ![k] = AtRest] /\ topic' = topic
    BY <1>4
  <2>4. QED
    BY <2>1, <2>2, <2>3, OthersKept
<1>13. /\ c.id # Absent => c.id # id /\ There(c.id)
       /\ topic = "permission" => ~IsPlatform(row.name)
       /\ topic = "org" => c.id # Absent /\ ~registry[c.id].platform
  BY <1>1, <1>5, <1>6 DEF KeeperOK, There
<1> HIDE DEF c
<1>14. ASSUME NEW x \in RowIds, There(x), x # id
       PROVE  registry[x].app \in RowIds /\ There(registry[x].app) /\ registry[x].app # id
  <2>1. registry[x] \in RegistryRow
    BY <1>1, <1>14 DEF RegistryTypeOK, There
  <2>2. registry[x].app \in RowIds
    BY <2>1 DEF RegistryRow
  <2>3. There(registry[x].app)
    BY <1>14 DEF RegistryInv, PlatformIsTheSeeds
  <2>4. QED
    BY <1>6, <2>2, <2>3 DEF There
<1>15. PlatformIsTheSeeds'
  <2>1. ASSUME NEW x \in RowIds, registry'[x] # Absent
        PROVE  registry'[registry'[x].app] # Absent
    <3>1. CASE x = id /\ c.id = Absent
      BY <1>5, <1>8, <1>9, <3>1
    <3>2. CASE x = id /\ c.id # Absent
      <4>1. registry'[x].app = c.id /\ c.id \in RowIds /\ c.id # id /\ registry[c.id] # Absent
        BY <1>5, <1>6, <1>9, <1>13, <3>2 DEF There
      <4>2. QED
        BY <1>9, <4>1
    <3>3. CASE x # id
      <4>1. registry'[x] = registry[x] /\ There(x)
        BY <1>9, <2>1, <3>3 DEF There
      <4>2. registry[x].app \in RowIds /\ There(registry[x].app) /\ registry[x].app # id
        BY <1>14, <3>3, <4>1
      <4>3. QED
        BY <1>9, <4>1, <4>2 DEF There
    <3>4. QED
      BY <3>1, <3>2, <3>3
  <2>2. \A x \in SeededIds : registry'[x] = SeedRow(x)
    BY <1>6, <1>9 DEF RegistryInv, PlatformIsTheSeeds, RowIds
  <2>3. ASSUME NEW x \in RowIds, There(x)', Reserved(registry[x])' PROVE x \in SeededIds
    <3>1. CASE x = id
      BY <1>4, <1>5, <1>6, <1>9, <1>13, <2>3, <3>1 DEF Reserved
    <3>2. CASE x # id
      <4>1. There(x) /\ registry'[x] = registry[x]
        BY <1>9, <2>3, <3>2 DEF There
      <4>2. registry'[registry[x].app] = registry[registry[x].app]
        BY <1>9, <1>14, <3>2, <4>1
      <4>3. Reserved(registry[x])
        BY <2>3, <4>1, <4>2 DEF Reserved
      <4>4. QED
        BY <4>1, <4>3 DEF RegistryInv, PlatformIsTheSeeds
    <3>3. QED
      BY <3>1, <3>2
  <2>4. QED
    BY <2>1, <2>2, <2>3 DEF PlatformIsTheSeeds, There
<1>16. QED
  BY <1>10, <1>11, <1>12, <1>15 DEF RegistryInv

\* A name is changed of a row that is not the seed's, and not to a reserved one.
LEMMA RenameStep ==
  ASSUME RegistryInv, NEW k \in Keepers, WriteRename(k)
  PROVE  RegistryInv'
<1>1. PICK id \in RowIds \ SeededIds, row \in RegistryRow :
        /\ row = [registry[id] EXCEPT !.name = keeper[k].name]
        /\ id = keeper[k].id /\ There(id)
        /\ registry' = [registry EXCEPT ![id] = row]
        /\ keeper' = [keeper EXCEPT ![k] = AtRest]
        /\ UNCHANGED <<topic, spent, used>>
  <2>1. /\ KeeperOK(keeper[k]) /\ keeper[k].doing = "rename" /\ There(keeper[k].id)
        /\ RegistryTypeOK
    BY DEF RegistryInv, WriteRename
  <2>2. /\ keeper[k].id \in RowIds \ SeededIds /\ keeper[k].name \in AllNames
        /\ registry[keeper[k].id] \in RegistryRow
    BY <2>1 DEF KeeperOK, RegistryTypeOK, There
  <2>3. [registry[keeper[k].id] EXCEPT !.name = keeper[k].name] \in RegistryRow
    BY <2>2 DEF RegistryRow
  <2>4. QED
    BY <2>1, <2>2, <2>3 DEF WriteRename, Put
<1>2. /\ KeeperOK(keeper[k]) /\ keeper[k].doing = "rename"
      /\ RegistryTypeOK /\ registry[id] \in RegistryRow
  BY <1>1 DEF RegistryInv, WriteRename, RegistryTypeOK, There
<1>3. /\ row.kind = topic /\ registry[id].kind = topic
      /\ row.platform = registry[id].platform /\ row.app = registry[id].app
      /\ topic = "permission" => ~IsPlatform(row.name)
      /\ row # Absent
  BY <1>1, <1>2, RegistryAssumption DEF KeeperOK, RegistryRow
<1>4. /\ registry' \in [RowIds -> RegistryRow \cup {Absent}] /\ registry'[id] = row
      /\ \A x \in RowIds : x # id => registry'[x] = registry[x]
  BY <1>1, <1>2 DEF RegistryTypeOK
<1>5. \A x \in RowIds : registry'[x] # Absent <=> registry[x] # Absent
  BY <1>1, <1>3, <1>4 DEF There
<1>6. \A x \in RowIds : registry[x] # Absent =>
        /\ registry'[x].kind = registry[x].kind /\ registry'[x].platform = registry[x].platform
        /\ registry'[x].app = registry[x].app
  BY <1>3, <1>4
<1>7. RegistryTypeOK'
  BY <1>1, <1>2, <1>4, RestOK DEF RegistryTypeOK
<1>8. IdsOK'
  BY <1>1, <1>5 DEF RegistryInv, IdsOK, There, RowIds
<1>9. \A q \in Keepers : KeeperOK(keeper[q])'
  <2>1. \A x \in RowIds : There(x)' /\ x \notin NewIds \ spent =>
          /\ There(x) /\ registry'[x].kind = registry[x].kind
          /\ registry'[x].platform = registry[x].platform
    BY <1>5, <1>6 DEF There
  <2>2. \A x \in NewIds \ spent : ~There(x)'
    BY <1>5 DEF RegistryInv, IdsOK, There, RowIds
  <2>3. keeper' = [keeper EXCEPT ![k] = AtRest] /\ topic' = topic
    BY <1>1
  <2>4. QED
    BY <2>1, <2>2, <2>3, OthersKept
<1>10. PlatformIsTheSeeds'
  <2>1. ASSUME NEW x \in RowIds, registry[x] # Absent
        PROVE  registry[x].app \in RowIds /\ registry[registry[x].app] # Absent
    <3>1. registry[x] \in RegistryRow
      BY <1>2, <2>1 DEF RegistryTypeOK
    <3>2. QED
      BY <2>1, <3>1 DEF RegistryInv, PlatformIsTheSeeds, There, RegistryRow
  <2>2. \A x \in RowIds : registry'[x] # Absent => registry'[registry'[x].app] # Absent
    BY <1>5, <1>6, <2>1
  <2>3. \A x \in SeededIds : registry'[x] = SeedRow(x)
    BY <1>1, <1>4 DEF RegistryInv, PlatformIsTheSeeds, RowIds
  <2>4. ASSUME NEW x \in RowIds, There(x)', Reserved(registry[x])' PROVE x \in SeededIds
    <3>1. registry[x] # Absent /\ registry[registry[x].app] # Absent /\ registry[x].app \in RowIds
      BY <1>5, <2>1, <2>4 DEF There
    <3>2. registry'[registry'[x].app].platform = registry[registry[x].app].platform
      BY <1>6, <3>1
    <3>3. Reserved(registry[x])
      <4>1. CASE x = id
        BY <1>3, <1>4, <1>6, <2>4, <3>1, <3>2, <4>1 DEF Reserved
      <4>2. CASE x # id
        BY <1>4, <2>4, <3>2, <4>2 DEF Reserved
      <4>3. QED
        BY <4>1, <4>2
    <3>4. QED
      BY <3>1, <3>3 DEF RegistryInv, PlatformIsTheSeeds, There
  <2>5. QED
    BY <2>2, <2>3, <2>4 DEF PlatformIsTheSeeds, There
<1>11. QED
  BY <1>7, <1>8, <1>9, <1>10 DEF RegistryInv

\* What goes is not the seed's, and nothing refers to it.
LEMMA DeleteStep ==
  ASSUME RegistryInv, NEW k \in Keepers, WriteDelete(k)
  PROVE  RegistryInv'
<1>1. PICK id \in RowIds \ SeededIds :
        /\ id = keeper[k].id /\ ~ReferredTo(id)
        /\ registry' = [registry EXCEPT ![id] = Absent]
        /\ keeper' = [keeper EXCEPT ![k] = AtRest]
        /\ UNCHANGED <<topic, spent, used>>
  BY DEF RegistryInv, WriteDelete, KeeperOK, Put
<1>2. RegistryTypeOK
  BY DEF RegistryInv
<1>3. /\ registry' \in [RowIds -> RegistryRow \cup {Absent}] /\ registry'[id] = Absent
      /\ \A x \in RowIds : x # id => registry'[x] = registry[x]
  BY <1>1, <1>2 DEF RegistryTypeOK
<1>4. \A x \in RowIds : registry'[x] # Absent => registry'[x] = registry[x] /\ x # id
  BY <1>3
<1>5. RegistryTypeOK'
  BY <1>1, <1>2, <1>3, RestOK DEF RegistryTypeOK
<1>6. IdsOK'
  BY <1>1, <1>4 DEF RegistryInv, IdsOK, There, RowIds
<1>7. \A q \in Keepers : KeeperOK(keeper[q])'
  <2>1. \A x \in RowIds : There(x)' /\ x \notin NewIds \ spent =>
          /\ There(x) /\ registry'[x].kind = registry[x].kind
          /\ registry'[x].platform = registry[x].platform
    BY <1>4 DEF There
  <2>2. \A x \in NewIds \ spent : ~There(x)'
    BY <1>4 DEF RegistryInv, IdsOK, There, RowIds
  <2>3. keeper' = [keeper EXCEPT ![k] = AtRest] /\ topic' = topic
    BY <1>1
  <2>4. QED
    BY <2>1, <2>2, <2>3, OthersKept
<1>8. PlatformIsTheSeeds'
  <2>1. ASSUME NEW x \in RowIds, registry'[x] # Absent
        PROVE  /\ registry'[x] = registry[x] /\ registry[x].app \in RowIds
               /\ registry'[registry[x].app] = registry[registry[x].app]
               /\ registry[registry[x].app] # Absent
    <3>1. registry'[x] = registry[x] /\ x # id /\ registry[x] \in RegistryRow
      BY <1>2, <1>4, <2>1 DEF RegistryTypeOK
    <3>2. registry[x].app # id
      BY <1>1, <2>1, <3>1 DEF ReferredTo, There
    <3>3. registry[x].app \in RowIds /\ registry[registry[x].app] # Absent
      BY <2>1, <3>1 DEF RegistryInv, PlatformIsTheSeeds, There, RegistryRow
    <3>4. QED
      BY <1>3, <3>1, <3>2, <3>3
  <2>2. \A x \in RowIds : registry'[x] # Absent => registry'[registry'[x].app] # Absent
    BY <2>1
  <2>3. \A x \in SeededIds : registry'[x] = SeedRow(x)
    BY <1>1, <1>3 DEF RegistryInv, PlatformIsTheSeeds, RowIds
  <2>4. ASSUME NEW x \in RowIds, There(x)', Reserved(registry[x])' PROVE x \in SeededIds
    <3>1. There(x) /\ Reserved(registry[x])
      BY <2>1, <2>4 DEF There, Reserved
    <3>2. QED
      BY <3>1 DEF RegistryInv, PlatformIsTheSeeds
  <2>5. QED
    BY <2>2, <2>3, <2>4 DEF PlatformIsTheSeeds, There
<1>9. QED
  BY <1>5, <1>6, <1>7, <1>8 DEF RegistryInv

\* What a handler looks at before it renames or deletes a row shows that the row is not
\* the seed's: those are reserved by flag or by name, and none of them is a role.
LEMMA TakeStep ==
  ASSUME RegistryInv, NEW k \in Keepers, NEW doing \in {"create", "rename", "delete"},
         NEW id \in RowIds \cup {Absent}, NEW name \in AllNames \cup {Absent},
         KeeperOK([doing |-> doing, id |-> id, name |-> name]), Take(k, doing, id, name)
  PROVE  RegistryInv'
<1>1. [doing |-> doing, id |-> id, name |-> name] \in Keeper
  BY DEF Keeper
<1>2. used \subseteq RowIds
  BY DEF RegistryInv, RegistryTypeOK
<1>3. QED
  BY <1>1, <1>2, KeeperStep DEF Take

LEMMA NotTheSeeds ==
  ASSUME RegistryInv, NEW id \in RowIds,
         \/ IsA(id, "role")
         \/ /\ There(id) /\ ~registry[id].platform
            /\ registry[id].kind # "permission" \/ ~IsPlatform(registry[id].name)
  PROVE  id \notin SeededIds
BY SeedRows DEF RegistryInv, PlatformIsTheSeeds, IsA

LEMMA BeginStep ==
  ASSUME RegistryInv, NEW k \in Keepers, NEW id \in RowIds, NEW name \in AllNames,
         \/ BeginCreateApp(k, name) \/ BeginCreateOrg(k, id, name)
         \/ BeginCreateRole(k, id, name) \/ BeginCreatePermission(k, id, name)
         \/ BeginUpdatePermission(k, id, name) \/ BeginUpdateOrg(k, id, name)
         \/ BeginUpdateRole(k, id, name) \/ BeginUpdateApp(k, id, name)
  PROVE  RegistryInv'
<1>1. id # Absent /\ name # Absent
  BY RegistryAssumption
<1>2. CASE BeginCreateApp(k, name)
  <2>1. KeeperOK([doing |-> "create", id |-> Absent, name |-> name])
    BY <1>2 DEF BeginCreateApp, KeeperOK
  <2>2. QED
    BY <1>2, <2>1, TakeStep DEF BeginCreateApp
<1>3. CASE \/ BeginCreateOrg(k, id, name) \/ BeginCreateRole(k, id, name)
           \/ BeginCreatePermission(k, id, name)
  <2>1. KeeperOK([doing |-> "create", id |-> id, name |-> name])
    BY <1>1, <1>3 DEF BeginCreateOrg, BeginCreateRole, BeginCreatePermission, KeeperOK
  <2>2. QED
    BY <1>3, <2>1, TakeStep DEF BeginCreateOrg, BeginCreateRole, BeginCreatePermission
<1>4. CASE \/ BeginUpdatePermission(k, id, name) \/ BeginUpdateOrg(k, id, name)
           \/ BeginUpdateRole(k, id, name) \/ BeginUpdateApp(k, id, name)
  <2>1. id \notin SeededIds
    BY <1>4, NotTheSeeds DEF BeginUpdatePermission, BeginUpdateOrg, BeginUpdateRole,
                             BeginUpdateApp, MayRename, IsA
  <2>2. KeeperOK([doing |-> "rename", id |-> id, name |-> name])
    BY <1>4, <2>1 DEF BeginUpdatePermission, BeginUpdateOrg, BeginUpdateRole,
                      BeginUpdateApp, MayRename, IsA, KeeperOK
  <2>3. QED
    BY <1>4, <2>2, TakeStep DEF BeginUpdatePermission, BeginUpdateOrg, BeginUpdateRole,
                                BeginUpdateApp
<1>5. QED
  BY <1>2, <1>3, <1>4

LEMMA BeginDeleteStep ==
  ASSUME RegistryInv, NEW k \in Keepers, NEW id \in RowIds,
         \/ BeginDeletePermission(k, id) \/ BeginDeleteRole(k, id)
         \/ BeginDeleteOrg(k, id) \/ BeginDeleteApp(k, id)
  PROVE  RegistryInv'
<1>1. id \notin SeededIds
  BY NotTheSeeds DEF BeginDeletePermission, BeginDeleteRole, BeginDeleteOrg, BeginDeleteApp, IsA
<1>2. KeeperOK([doing |-> "delete", id |-> id, name |-> Absent])
  BY <1>1 DEF KeeperOK
<1>3. QED
  BY <1>2, TakeStep DEF BeginDeletePermission, BeginDeleteRole, BeginDeleteOrg, BeginDeleteApp

LEMMA RegistryInductive == RegistryInv /\ [RegistryNext]_registryVars => RegistryInv'
<1> SUFFICES ASSUME RegistryInv, [RegistryNext]_registryVars PROVE RegistryInv'
  OBVIOUS
<1>1. CASE UNCHANGED registryVars
  BY <1>1 DEF registryVars, RegistryInv, RegistryTypeOK, IdsOK, KeeperOK, PlatformIsTheSeeds,
              There, Reserved
<1>2. ASSUME NEW k \in Keepers, GiveUp(k) PROVE RegistryInv'
  <2>1. used \subseteq RowIds
    BY DEF RegistryInv, RegistryTypeOK
  <2>2. QED
    BY <1>2, <2>1, KeeperStep, RestOK DEF GiveUp
<1>3. ASSUME NEW id \in RowIds, Use(id) PROVE RegistryInv'
  <2>1. used' \subseteq RowIds
    BY <1>3 DEF Use, RegistryInv, RegistryTypeOK
  <2>2. QED
    BY <1>3, <2>1 DEF Use, RegistryInv, RegistryTypeOK, IdsOK, KeeperOK, PlatformIsTheSeeds,
                      There, Reserved
<1>4. ASSUME NEW k \in Keepers, NEW name \in AllNames, BeginCreateApp(k, name) PROVE RegistryInv'
  <2>1. TenantApp \in RowIds
    BY DEF RowIds
  <2>2. QED
    BY <1>4, <2>1, BeginStep
<1>5. QED
  BY <1>1, <1>2, <1>3, <1>4, BeginStep, BeginDeleteStep, CreateStep, RenameStep, DeleteStep
     DEF RegistryNext

LEMMA RegistryInvariance == RegistrySpec => []RegistryInv
BY RegistryInitInv, RegistryInductive, PTL DEF RegistrySpec

\* The rows that the services of apps, orgs, roles and permissions keep are well-formed.
THEOREM RegistryTypeCorrect == RegistrySpec => []RegistryTypeOK
<1>1. RegistryInv => RegistryTypeOK
  BY DEF RegistryInv
<1>2. QED
  BY <1>1, RegistryInvariance, PTL

\* Whatever is made, renamed and deleted at the same time: the rows that isPlatform,
\* isSystem and the reserved names protect are those of the seed, unchanged, and no row
\* points to one that is gone.
THEOREM ThePlatformStays == RegistrySpec => []PlatformIsTheSeeds
<1>1. RegistryInv => PlatformIsTheSeeds
  BY DEF RegistryInv
<1>2. QED
  BY <1>1, RegistryInvariance, PTL

-----------------------------------------------------------------------------
(* Rate limits *)

\* The requests of the window that stands, and those before it.
Young(k) == {x \in admitted[k] : x[1] <= Age(k)}

Old(k) == {x \in admitted[k] : x[1] > Age(k)}

\* A window that stands counts what passed in it, and at most a budget of the window
\* before it is still remembered; in one that is over, everything remembered passed.
Counted(k) ==
  /\ store[k].count <= Limit[k[1]]
  /\ Age(k) < Window =>
       Cardinality(Young(k)) = store[k].count /\ Cardinality(Old(k)) <= Limit[k[1]]
  /\ Age(k) >= Window =>
       /\ Cardinality(admitted[k]) <= Limit[k[1]]
       /\ \A x \in admitted[k] : x[1] + Window > Age(k)

KeyOK(k) ==
  /\ IsFiniteSet(admitted[k])
  /\ \A x \in Now(k) : x[2] <= Cardinality(Now(k))
  /\ IF store[k] = NoWindow THEN admitted[k] = {} ELSE Counted(k)

RatesInv ==
  /\ RatesTypeOK
  /\ \A k \in Keys : KeyOK(k)

LEMMA RatesInitInv == RatesInit => RatesInv
<1> SUFFICES ASSUME RatesInit PROVE RatesInv
  OBVIOUS
<1>1. RatesTypeOK
  BY DEF RatesInit, RatesTypeOK
<1>2. ASSUME NEW k \in Keys PROVE KeyOK(k)
  <2>1. store[k] = NoWindow /\ admitted[k] = {} /\ Now(k) = {}
    BY DEF RatesInit, Now
  <2>2. QED
    BY <2>1, FS_EmptySet DEF KeyOK
<1>3. QED
  BY <1>1, <1>2 DEF RatesInv

\* What a tick makes of a set of requests.
Ticked(S) == {<<x[1] + 1, x[2]>> : x \in {y \in S : y[1] + 1 < Window}}

LEMMA TickedSet ==
  ASSUME NEW S \in SUBSET (Span \X Nat), IsFiniteSet(S)
  PROVE  /\ Ticked(S) \in SUBSET (Span \X Nat) /\ IsFiniteSet(Ticked(S))
         /\ Cardinality(Ticked(S)) <= Cardinality(S)
         /\ Cardinality(Ticked(S)) \in Nat /\ Cardinality(S) \in Nat
         /\ (\A x \in S : x[1] + 1 < Window) => Cardinality(Ticked(S)) = Cardinality(S)
<1> DEFINE L == {y \in S : y[1] + 1 < Window}
           f == [x \in L |-> <<x[1] + 1, x[2]>>]
<1>1. Window \in Nat /\ \A x \in S : x \in (0 .. Window - 1) \X Nat
  BY RateAssumption DEF Span
<1>2. IsFiniteSet(L) /\ Cardinality(L) <= Cardinality(S) /\ Cardinality(L) \in Nat
      /\ Cardinality(S) \in Nat
  BY FS_Subset, FS_CardinalityType
<1>3. Ticked(S) = {<<x[1] + 1, x[2]>> : x \in L}
  BY DEF Ticked
<1>4. f \in Surjection(L, Ticked(S)) /\ f \in Injection(L, Ticked(S))
  <2>1. f \in [L -> Ticked(S)] /\ \A y \in Ticked(S) : \E x \in L : f[x] = y
    BY <1>3
  <2>2. ASSUME NEW x \in L, NEW y \in L, f[x] = f[y] PROVE x = y
    <3>1. x[1] + 1 = y[1] + 1 /\ x[2] = y[2]
      BY <2>2
    <3>2. QED
      BY <1>1, <3>1
  <2>3. QED
    BY <2>1, <2>2 DEF Surjection, Injection, IsInjective
<1>5. IsFiniteSet(Ticked(S)) /\ Cardinality(Ticked(S)) = Cardinality(L)
  BY <1>2, <1>4, FS_Surjection
<1>6. Ticked(S) \in SUBSET (Span \X Nat)
  BY <1>1, <1>3 DEF Span
<1>7. (\A x \in S : x[1] + 1 < Window) => L = S
  OBVIOUS
<1>8. QED
  BY <1>2, <1>5, <1>6, <1>7

\* A window that is not too old is left by evictExpired.
LEMMA Evicted ==
  ASSUME RatesInv, NEW b \in Budgets, NEW k \in Keys
  PROVE  /\ AfterEvict(b)[k] \in {store[k], NoWindow}
         /\ AfterEvict(b)[k] = NoWindow => admitted[k] = {}
         /\ AfterEvict(b) \in [Keys -> [count : Nat, age : 0..(2 * Window)] \cup {NoWindow}]
<1>1. AfterEvict(b) \in [Keys -> [count : Nat, age : 0..(2 * Window)] \cup {NoWindow}]
      /\ AfterEvict(b)[k] \in {store[k], NoWindow}
  BY DEF AfterEvict, RatesInv, RatesTypeOK
<1>2. ASSUME AfterEvict(b)[k] = NoWindow, store[k] # NoWindow PROVE admitted[k] = {}
  <2>1. Age(k) >= 2 * Window /\ Counted(k) /\ admitted[k] \in SUBSET (Span \X Nat)
        /\ store[k] \in [count : Nat, age : 0..(2 * Window)]
    BY <1>2 DEF AfterEvict, RatesInv, KeyOK, RatesTypeOK
  <2>2. \A x \in admitted[k] : x[1] + Window > Age(k) /\ x[1] \in 0 .. Window - 1
    BY <2>1, RateAssumption DEF Counted, Age, Span
  <2>3. QED
    BY <2>1, <2>2, RateAssumption DEF Age
<1>3. QED
  BY <1>1, <1>2 DEF RatesInv, KeyOK

\* The other keys of a step that touches one, or none.
LEMMA OtherKeys ==
  ASSUME RatesInv, NEW b \in Budgets, NEW x \in Keys, store'[x] = AfterEvict(b)[x],
         admitted'[x] = admitted[x]
  PROVE  KeyOK(x)'
<1>1. KeyOK(x) /\ store'[x] \in {store[x], NoWindow}
      /\ (store'[x] = NoWindow => admitted[x] = {})
  BY Evicted DEF RatesInv
<1>2. QED
  BY <1>1 DEF KeyOK, Counted, Age, Young, Old, Now

\* A request passes: it is the youngest.
LEMMA LetInv ==
  ASSUME RatesInv, NEW k \in Keys, NEW window \in [count : Nat, age : 0..(2 * Window)],
         Count(k, window), Let(k), window.age < Window, window.count <= Limit[k[1]],
         \/ /\ store[k] # NoWindow /\ Age(k) = window.age /\ window.count = store[k].count + 1
         \/ /\ window.age = 0 /\ window.count = 1
            /\ store[k] # NoWindow => Age(k) >= Window
  PROVE  RatesInv'
<1> DEFINE n == Cardinality(Now(k))
           e == <<0, n + 1>>
<1>1. /\ k[1] \in Budgets /\ k[2] \in Clients /\ KeyOK(k) /\ admitted[k] \in SUBSET (Span \X Nat)
      /\ store \in [Keys -> [count : Nat, age : 0..(2 * Window)] \cup {NoWindow}]
      /\ admitted \in [Keys -> SUBSET (Span \X Nat)] /\ Limit[k[1]] \in Nat /\ Window \in Nat
      /\ 0 \in Span
  BY RateAssumption DEF Keys, RatesInv, RatesTypeOK, Span
<1>2. /\ store' \in [Keys -> [count : Nat, age : 0..(2 * Window)] \cup {NoWindow}]
      /\ store'[k] = window /\ \A x \in Keys \ {k} : store'[x] = AfterEvict(k[1])[x]
  BY <1>1, Evicted DEF Count, Charged
<1>3. /\ IsFiniteSet(admitted[k]) /\ IsFiniteSet(Now(k)) /\ n \in Nat
      /\ Cardinality(admitted[k]) \in Nat
  BY <1>1, FS_Subset, FS_CardinalityType DEF KeyOK, Now
<1>4. e \in Span \X Nat /\ e \notin admitted[k]
  <2>1. e \in Span \X Nat
    BY <1>1, <1>3
  <2>2. ASSUME e \in admitted[k] PROVE FALSE
    <3>1. e \in Now(k)
      BY <2>2 DEF Now
    <3>2. n + 1 <= n
      BY <1>1, <3>1 DEF KeyOK
    <3>3. QED
      BY <1>3, <3>2
  <2>3. QED
    BY <2>1, <2>2
<1>5. /\ admitted' \in [Keys -> SUBSET (Span \X Nat)]
      /\ admitted'[k] = admitted[k] \cup {e}
      /\ \A x \in Keys \ {k} : admitted'[x] = admitted[x]
  BY <1>1, <1>4 DEF Let
<1>6. \A x \in Keys \ {k} : KeyOK(x)'
  BY <1>1, <1>2, <1>5, OtherKeys
<1>7. IsFiniteSet(admitted'[k])
  <2>1. IsFiniteSet(admitted[k] \cup {e})
    BY ONLY <1>3, FS_AddElement
  <2>2. QED
    BY <1>5, <2>1
<1>8. \A x \in Now(k)' : x[2] <= Cardinality(Now(k)')
  <2>1. Now(k)' = Now(k) \cup {e} /\ e \notin Now(k)
    BY <1>4, <1>5 DEF Now
  <2>2. Cardinality(Now(k)') = n + 1
    BY <1>3, <2>1, FS_AddElement
  <2>3. \A x \in Now(k) : x[2] <= n /\ x[2] \in Nat
    BY <1>1 DEF KeyOK, Now
  <2>4. QED
    BY <1>3, <2>1, <2>2, <2>3
<1>9. store[k] # NoWindow => Counted(k) /\ store[k] \in [count : Nat, age : 0..(2 * Window)]
  BY <1>1 DEF KeyOK
<1>10. window # NoWindow
  BY RateAssumption
<1>11. /\ Cardinality(Young(k)') = window.count /\ Cardinality(Old(k)') <= Limit[k[1]]
  <2>1. CASE /\ store[k] # NoWindow /\ Age(k) = window.age /\ window.count = store[k].count + 1
    <3>1. Young(k)' = Young(k) \cup {e} /\ e \notin Young(k) /\ Old(k)' = Old(k)
      BY <1>2, <1>4, <1>5, <2>1 DEF Young, Old, Age
    <3>2. IsFiniteSet(Young(k))
      BY <1>3, FS_Subset DEF Young
    <3>3. Cardinality(Young(k)') = Cardinality(Young(k)) + 1
      BY <3>1, <3>2, FS_AddElement
    <3>4. QED
      BY <1>9, <2>1, <3>1, <3>3 DEF Counted
  <2>2. CASE /\ window.age = 0 /\ window.count = 1 /\ (store[k] # NoWindow => Age(k) >= Window)
    <3>1. \A x \in admitted[k] : x[1] > 0
      BY <1>1, <1>9, <2>2 DEF KeyOK, Counted, Age, Span
    <3>2. Young(k)' = {e} /\ Old(k)' = admitted[k]
      BY <1>1, <1>2, <1>4, <1>5, <2>2, <3>1 DEF Young, Old, Age, Span
    <3>3. Cardinality(admitted[k]) <= Limit[k[1]]
      BY <1>1, <1>9, <2>2, FS_EmptySet DEF KeyOK, Counted
    <3>4. QED
      BY <2>2, <3>2, <3>3, FS_Singleton
  <2>3. QED
    BY <2>1, <2>2
<1>12. KeyOK(k)'
  BY <1>1, <1>2, <1>7, <1>8, <1>10, <1>11 DEF KeyOK, Counted, Age
<1>13. QED
  BY <1>2, <1>5, <1>6, <1>12 DEF RatesInv, RatesTypeOK

LEMMA OpenInv == ASSUME RatesInv, NEW k \in Keys, OpenWindow(k) PROVE RatesInv'
<1>1. [count |-> 1, age |-> 0] \in [count : Nat, age : 0..(2 * Window)]
      /\ 0 < Window /\ 1 <= Limit[k[1]] /\ k[1] \in Budgets
  BY RateAssumption DEF OpenWindow, Keys
<1>2. store[k] # NoWindow => Age(k) >= Window
  <2>1. AfterEvict(k[1])[k] = store[k] \/ Age(k) >= 2 * Window
    BY DEF AfterEvict
  <2>2. store[k] # NoWindow => Age(k) \in Nat
    BY DEF RatesInv, RatesTypeOK, Age
  <2>3. QED
    BY <2>1, <2>2, RateAssumption DEF OpenWindow, Over, Age
<1>3. Count(k, [count |-> 1, age |-> 0]) /\ Let(k)
  BY DEF OpenWindow
<1>4. QED
  BY <1>1, <1>2, <1>3, LetInv

LEMMA CountInv == ASSUME RatesInv, NEW k \in Keys, CountRequest(k) PROVE RatesInv'
<1>1. k[1] \in Budgets /\ Limit[k[1]] \in Nat
  BY RateAssumption DEF Keys
<1>2. PICK window : window = AfterEvict(k[1])[k]
  OBVIOUS
<1>3. window # NoWindow /\ window.age < Window /\ window.count < Limit[k[1]]
      /\ Count(k, [window EXCEPT !.count = window.count + 1]) /\ Let(k)
      /\ window = store[k] /\ window \in [count : Nat, age : 0..(2 * Window)]
  <2>1. window # NoWindow /\ window.count < Limit[k[1]]
        /\ Count(k, [window EXCEPT !.count = window.count + 1]) /\ Let(k) /\ ~(window.age >= Window)
    BY <1>2 DEF CountRequest, Over
  <2>2. window = store[k] /\ window \in [count : Nat, age : 0..(2 * Window)]
    BY <1>1, <1>2, <2>1, Evicted
  <2>3. QED
    BY <2>1, <2>2, RateAssumption
<1>4. PICK next : /\ next = [window EXCEPT !.count = window.count + 1]
                  /\ next \in [count : Nat, age : 0..(2 * Window)]
                  /\ next.count = window.count + 1 /\ next.age = window.age
  BY <1>3
<1>5. QED
  BY <1>1, <1>3, <1>4, LetInv DEF Age

LEMMA RefuseInv == ASSUME RatesInv, NEW k \in Keys, RefuseRequest(k) PROVE RatesInv'
<1>1. k[1] \in Budgets /\ store' = AfterEvict(k[1]) /\ admitted' = admitted
  BY DEF RefuseRequest, Keys
<1>2. \A x \in Keys : KeyOK(x)'
  BY <1>1, OtherKeys
<1>3. RatesTypeOK'
  BY <1>1, Evicted DEF RatesInv, RatesTypeOK
<1>4. QED
  BY <1>2, <1>3 DEF RatesInv

LEMMA TickInv == ASSUME RatesInv, TimePasses PROVE RatesInv'
<1>1. /\ Window \in Nat \ {0} /\ RatesTypeOK
      /\ store \in [Keys -> [count : Nat, age : 0..(2 * Window)] \cup {NoWindow}]
      /\ admitted \in [Keys -> SUBSET (Span \X Nat)]
  BY RateAssumption DEF RatesInv, RatesTypeOK
<1>2. ASSUME NEW k \in Keys
      PROVE  /\ store'[k] \in [count : Nat, age : 0..(2 * Window)] \cup {NoWindow}
             /\ store[k] = NoWindow => store'[k] = NoWindow
             /\ store[k] # NoWindow =>
                  /\ store'[k] # NoWindow /\ store'[k].count = store[k].count
                  /\ store'[k].age = IF store[k].age = 2 * Window THEN store[k].age
                                     ELSE store[k].age + 1
  <2>1. store'[k] = Aging(store[k])
    BY DEF TimePasses
  <2>2. CASE store[k] # NoWindow
    <3>1. store[k] \in [count : Nat, age : 0..(2 * Window)]
      BY <1>1, <2>2
    <3>2. PICK age \in 0..(2 * Window) :
            age = IF store[k].age = 2 * Window THEN store[k].age ELSE store[k].age + 1
      BY <1>1, <3>1
    <3>3. store'[k] = [store[k] EXCEPT !.age = age]
      BY <2>1, <2>2, <3>1, <3>2 DEF Aging
    <3>4. store'[k] \in [count : Nat, age : 0..(2 * Window)]
          /\ store'[k].count = store[k].count /\ store'[k].age = age
      BY <3>1, <3>3
    <3>5. store'[k] # NoWindow
      BY <1>1, <3>4, RateAssumption
    <3>6. QED
      BY <2>2, <3>2, <3>4, <3>5
  <2>3. QED
    BY <2>1, <2>2 DEF Aging
<1>3. \A k \in Keys : admitted'[k] = Ticked(admitted[k])
  BY DEF TimePasses, Ticked, Lasting
<1>4. ASSUME NEW k \in Keys PROVE KeyOK(k)'
  <2>1. /\ KeyOK(k) /\ IsFiniteSet(admitted[k]) /\ admitted[k] \in SUBSET (Span \X Nat)
        /\ k[1] \in Budgets /\ Limit[k[1]] \in Nat
    BY <1>1, RateAssumption DEF RatesInv, KeyOK, Keys
  <2>2. IsFiniteSet(admitted'[k]) /\ Cardinality(admitted'[k]) <= Cardinality(admitted[k])
        /\ Cardinality(admitted'[k]) \in Nat /\ Cardinality(admitted[k]) \in Nat
        /\ admitted'[k] \in SUBSET (Span \X Nat)
    BY <1>3, <2>1, TickedSet
  <2>3. \A y \in admitted'[k] : \E x \in admitted[k] : y[1] = x[1] + 1
    BY <1>3 DEF Ticked
  <2>4. \A x \in admitted[k] : x[1] \in 0 .. Window - 1
    BY <2>1 DEF Span
  <2>5. Now(k)' = {}
    BY <2>3, <2>4, <1>1 DEF Now
  <2>6. CASE store[k] = NoWindow
    <3>1. admitted'[k] = {}
      BY <2>1, <2>3, <2>6 DEF KeyOK
    <3>2. QED
      BY <1>2, <2>2, <2>5, <2>6, <3>1 DEF KeyOK
  <2>7. CASE store[k] # NoWindow
    <3>1. /\ Counted(k) /\ store[k] \in [count : Nat, age : 0..(2 * Window)]
          /\ store'[k] # NoWindow /\ store'[k].count = store[k].count
          /\ store'[k].age = IF store[k].age = 2 * Window THEN store[k].age
                             ELSE store[k].age + 1
      BY <1>1, <1>2, <2>1, <2>7 DEF KeyOK
    <3>2. CASE Age(k) >= Window
      <4>1. \A x \in admitted[k] : x[1] + Window > Age(k) /\ x[1] < Window
        BY <2>4, <3>1, <3>2, <1>1 DEF Counted
      <4>2. \A y \in admitted'[k] : y[1] + Window > Age(k)'
        BY <1>1, <2>3, <2>4, <3>1, <4>1 DEF Age
      <4>3. Age(k)' >= Window
        BY <1>1, <3>1, <3>2 DEF Age
      <4>4. Cardinality(admitted'[k]) <= Limit[k[1]]
        BY <2>1, <2>2, <3>1, <3>2 DEF Counted
      <4>5. store'[k].count <= Limit[k[1]] /\ ~(Age(k)' < Window)
        BY <1>1, <3>1, <3>2, <4>3 DEF Counted, Age
      <4>6. Counted(k)'
        BY <1>1, <4>2, <4>3, <4>4, <4>5 DEF Counted
      <4>7. QED
        BY <2>2, <2>5, <3>1, <4>6 DEF KeyOK
    <3>3. CASE Age(k) < Window
      <4>1. Age(k)' = Age(k) + 1 /\ Age(k) \in Nat
        BY <1>1, <3>1, <3>3 DEF Age
      <4>2. Young(k) \in SUBSET (Span \X Nat) /\ IsFiniteSet(Young(k))
            /\ Old(k) \in SUBSET (Span \X Nat) /\ IsFiniteSet(Old(k))
        BY <2>1, FS_Subset DEF Young, Old
      <4>3. Young(k)' = Ticked(Young(k)) /\ Old(k)' = Ticked(Old(k))
        BY <1>1, <1>3, <2>4, <4>1 DEF Young, Old, Ticked
      <4>4. Cardinality(Young(k)) = store[k].count /\ Cardinality(Old(k)) <= Limit[k[1]]
            /\ store[k].count <= Limit[k[1]]
        BY <3>1, <3>3 DEF Counted
      <4>5. Cardinality(Young(k)') <= store[k].count /\ Cardinality(Old(k)') <= Limit[k[1]]
        BY <2>1, <4>2, <4>3, <4>4, TickedSet
      <4>6. CASE Age(k) + 1 < Window
        <5>1. \A x \in Young(k) : x[1] + 1 < Window
          BY <1>1, <2>4, <4>1, <4>6 DEF Young
        <5>2. Cardinality(Young(k)') = store[k].count
          BY <4>2, <4>3, <4>4, <5>1, TickedSet
        <5>3. QED
          BY <1>1, <2>2, <2>5, <3>1, <4>1, <4>4, <4>5, <4>6, <5>2 DEF KeyOK, Counted
      <4>7. CASE Age(k) + 1 = Window
        <5>1. Young(k) = admitted[k]
          BY <1>1, <2>4, <4>1, <4>7 DEF Young
        <5>2. Cardinality(admitted'[k]) <= Limit[k[1]]
          BY <2>1, <2>2, <3>1, <4>4, <5>1
        <5>3. \A y \in admitted'[k] : y[1] + Window > Age(k)'
          BY <1>1, <2>3, <2>4, <4>1, <4>7
        <5>4. QED
          BY <1>1, <2>2, <2>5, <3>1, <4>1, <4>4, <4>7, <5>2, <5>3 DEF KeyOK, Counted
      <4>8. QED
        BY <1>1, <3>3, <4>1, <4>6, <4>7
    <3>4. QED
      BY <1>1, <3>1, <3>2, <3>3 DEF Age
  <2>8. QED
    BY <2>6, <2>7
<1>5. RatesTypeOK'
  <2>1. store' \in [Keys -> [count : Nat, age : 0..(2 * Window)] \cup {NoWindow}]
    BY <1>2 DEF TimePasses
  <2>2. \A k \in Keys : admitted'[k] \in SUBSET (Span \X Nat)
    BY <1>1, <1>3, TickedSet DEF RatesInv, KeyOK
  <2>3. QED
    BY <2>1, <2>2 DEF TimePasses, RatesTypeOK
<1>6. QED
  BY <1>4, <1>5 DEF RatesInv

LEMMA RatesNextInv == RatesInv /\ [RatesNext]_rateVars => RatesInv'
<1> SUFFICES ASSUME RatesInv, [RatesNext]_rateVars PROVE RatesInv'
  OBVIOUS
<1>1. CASE UNCHANGED <<store, admitted>>
  BY <1>1 DEF RatesInv, RatesTypeOK, KeyOK, Counted, Age, Young, Old, Now
<1>2. QED
  BY <1>1, OpenInv, CountInv, RefuseInv, TickInv DEF RatesNext, Unlimited, rateVars

\* Each variable of the limiters' model has its type.
THEOREM RatesTypeCorrect == RatesSpec => []RatesTypeOK
<1>1. RatesInv => RatesTypeOK
  BY DEF RatesInv
<1>2. QED
  BY RatesInitInv, RatesNextInv, <1>1, PTL DEF RatesSpec

\* For any limiters, clients, budgets and length of the window.
THEOREM BudgetsAreHeld == RatesSpec => []BudgetHeld
<1>1. ASSUME RatesInv, NEW k \in Keys
      PROVE  /\ Limit[k[1]] > 0 => Cardinality(admitted[k]) <= 2 * Limit[k[1]]
             /\ Spent(k) => Cardinality(admitted[k]) >= Limit[k[1]]
  <2>1. /\ KeyOK(k) /\ IsFiniteSet(admitted[k]) /\ k[1] \in Budgets /\ Limit[k[1]] \in Nat
        /\ admitted[k] \in SUBSET (Span \X Nat) /\ Window \in Nat
        /\ store[k] \in [count : Nat, age : 0..(2 * Window)] \cup {NoWindow}
    BY <1>1, RateAssumption DEF RatesInv, RatesTypeOK, KeyOK, Keys
  <2>2. CASE store[k] = NoWindow
    <3>1. admitted[k] = {} /\ ~Spent(k)
      BY <1>1, <2>1, <2>2, Evicted DEF KeyOK, Spent, Over
    <3>2. QED
      BY <2>1, <3>1, FS_EmptySet
  <2>3. CASE store[k] # NoWindow
    <3>1. Counted(k) /\ Age(k) \in Nat
      BY <2>1, <2>3 DEF KeyOK, Age
    <3>2. /\ IsFiniteSet(Young(k)) /\ IsFiniteSet(Old(k))
          /\ Cardinality(Young(k)) \in Nat /\ Cardinality(Old(k)) \in Nat
          /\ Cardinality(Young(k)) <= Cardinality(admitted[k])
          /\ Cardinality(admitted[k]) \in Nat
      BY <2>1, FS_Subset, FS_CardinalityType DEF Young, Old
    <3>3. Cardinality(admitted[k]) = Cardinality(Young(k)) + Cardinality(Old(k))
      <4>1. admitted[k] = Young(k) \cup Old(k) /\ Young(k) \cap Old(k) = {}
        BY <2>1, <3>1 DEF Young, Old, Span
      <4>2. /\ IsFiniteSet(Young(k) \cup Old(k))
            /\ Cardinality(Young(k) \cup Old(k)) =
                 Cardinality(Young(k)) + Cardinality(Old(k)) - Cardinality(Young(k) \cap Old(k))
        BY <3>2, FS_Union
      <4>3. Cardinality(Young(k) \cap Old(k)) = 0
        BY <4>1, FS_EmptySet
      <4>4. QED
        BY <3>2, <4>1, <4>2, <4>3
    <3>4. Cardinality(admitted[k]) <= 2 * Limit[k[1]]
      BY <2>1, <2>3, <3>1, <3>2, <3>3 DEF Counted
    <3>5. ASSUME Spent(k) PROVE Cardinality(admitted[k]) >= Limit[k[1]]
      <4>1. AfterEvict(k[1])[k] = store[k]
        BY <1>1, <2>1, <3>5, Evicted DEF Spent, Over
      <4>2. store[k].count >= Limit[k[1]] /\ ~(Age(k) >= Window)
        BY <2>3, <3>5, <4>1 DEF Spent, Over, Age
      <4>3. QED
        BY <2>1, <2>3, <3>1, <3>2, <4>2 DEF Counted
    <3>6. QED
      BY <3>4, <3>5
  <2>4. QED
    BY <2>2, <2>3
<1>2. RatesInv => BudgetHeld
  BY <1>1 DEF BudgetHeld
<1>3. QED
  BY RatesInitInv, RatesNextInv, <1>2, PTL DEF RatesSpec

-----------------------------------------------------------------------------
(* Roles and permissions *)

Replacing == {"deleting", "deleted", "inserted"}

\* What a replacement may leave beside what it asked for.
Later(c) == IF c.named THEN c.loose ELSE c.swapped \cup c.loose

\* Whatever a replacement under way will not delete came after its DELETE started.
LeavesLater(c) == c.phase \in Replacing => links[c.table] \ c.targets \subseteq Later(c)

\* It has the row of its owner.
HoldsOwner(c) == c.named /\ c.phase \in Replacing \cup {"locked"}

Exclusive(c, d) == HoldsOwner(c) /\ HoldsOwner(d) => c.table # d.table

\* An erasure is of a role or permission, and once it holds the row, not of the default.
ErasesOK(c) ==
  /\ c.op = "erase" => c.kind # "org" /\ ~c.named
  /\ c.phase = "erased" => c.op = "erase" /\ (c.kind = "role" => defaults["role"] \notin c.wanted)

\* c links to rows that exist, d erases others.
Apart(c, d) ==
  c.phase = "inserted" /\ d.phase = "erased" /\ d.kind \in Target(c.table) =>
    c.wanted \cap d.wanted = {}

CallOK(c) ==
  /\ LeavesLater(c) /\ ErasesOK(c)
  /\ c.phase = "inserted" => Known(c.table, c.wanted)

AccessInv ==
  /\ AccessTypeOK
  /\ \A h \in Handlers : CallOK(call[h])
  /\ \A g, h \in Handlers : g # h =>
       Apart(call[g], call[h]) /\ Exclusive(call[g], call[h])

LEMMA AccessInitInv == AccessInit => AccessInv
<1> SUFFICES ASSUME AccessInit PROVE AccessInv
  OBVIOUS
<1>1. NoCall \in Call
  BY DEF NoCall, Call, CallPhases, Tables, RowKinds
<1>2. call \in [Handlers -> Call] /\ \A h \in Handlers : call[h] = NoCall
  BY <1>1 DEF AccessInit
<1>3. /\ rows \in [RowKinds -> SUBSET Ids] /\ links \in [Tables -> SUBSET Ids]
      /\ defaults \in [{"role", "org"} -> Ids \cup {NoItem}]
      /\ \A k \in {"role", "org"} : defaults[k] \in rows[k] \cup {NoItem}
  BY AccessAssumption DEF AccessInit
<1>4. ASSUME NEW t \in Tables PROVE Known(t, links[t])
  <2>1. links[t] \in {{}, {EditedRole}}
    BY DEF AccessInit
  <2>2. \A k \in Target(t) : EditedRole \in rows[k]
    BY AccessAssumption DEF AccessInit, Target, RowKinds
  <2>3. QED
    BY <2>1, <2>2 DEF Known
<1>5. \A h \in Handlers : call[h].phase = "rest" /\ call[h].op = "replace"
  BY <1>2 DEF NoCall
<1>6. QED
  BY <1>2, <1>3, <1>4, <1>5
     DEF AccessInv, AccessTypeOK, CallOK, LeavesLater, ErasesOK, Apart, Exclusive, HoldsOwner, Replacing

-----------------------------------------------------------------------------
\* A step of one handler that touches nothing but its own call.
LEMMA GoInv ==
  ASSUME AccessInv, NEW h \in Handlers, NEW c \in Call, Go(h, c),
         UNCHANGED <<focus, links, rows, defaults>>, CallOK(c),
         \A g \in Handlers \ {h} :
           /\ Apart(call[g], c) /\ Apart(c, call[g]) /\ Exclusive(call[g], c)
  PROVE  AccessInv'
<1>1. /\ call' \in [Handlers -> Call] /\ call'[h] = c
      /\ \A g \in Handlers \ {h} : call'[g] = call[g]
  BY DEF Go, AccessInv, AccessTypeOK
<1>2. AccessTypeOK'
  BY <1>1 DEF AccessInv, AccessTypeOK, Known
<1>3. ASSUME NEW g \in Handlers PROVE CallOK(call[g])'
  <2>1. CallOK(call'[g])
    BY <1>1 DEF AccessInv
  <2>2. QED
    BY <2>1 DEF CallOK, LeavesLater, ErasesOK, Known
<1>4. ASSUME NEW f \in Handlers, NEW g \in Handlers, f # g
      PROVE  Apart(call'[f], call'[g]) /\ Exclusive(call'[f], call'[g])
  BY <1>1, <1>4 DEF AccessInv, Exclusive
<1>5. QED
  BY <1>2, <1>3, <1>4 DEF AccessInv, Apart, Exclusive, HoldsOwner

LEMMA HandlerAtRest ==
  /\ NoCall \in Call /\ CallOK(NoCall) /\ ~HoldsOwner(NoCall)
  /\ \A c : Apart(c, NoCall) /\ Apart(NoCall, c)
BY DEF NoCall, Call, CallPhases, Tables, RowKinds, CallOK, LeavesLater, ErasesOK, HoldsOwner,
       Apart, Replacing

\* A handler that gives up leaves nothing behind.
LEMMA GiveUpInv ==
  ASSUME AccessInv, NEW h \in Handlers, Go(h, NoCall),
         UNCHANGED <<focus, links, rows, defaults>>
  PROVE  AccessInv'
BY HandlerAtRest, GoInv DEF Exclusive

LEMMA ResolveInv ==
  ASSUME AccessInv, NEW h \in Handlers, NEW t \in Tables, NEW W \in SUBSET Ids,
         NEW named \in BOOLEAN, Resolve(h, t, W, named)
  PROVE  AccessInv'
<1>1. PICK c : c = [NoCall EXCEPT !.phase = "resolved", !.table = t, !.wanted = W, !.named = named]
  OBVIOUS
<1>2. c \in Call /\ c.phase = "resolved" /\ c.op = "replace"
  BY <1>1 DEF NoCall, Call, CallPhases, Tables, RowKinds
<1>3. QED
  BY <1>1, <1>2, GoInv
     DEF Resolve, CallOK, LeavesLater, ErasesOK, Exclusive, HoldsOwner, Apart, Replacing

LEMMA ReadRoleInv ==
  ASSUME AccessInv, NEW h \in Handlers, NEW op \in {"assign", "remove"}, NEW x \in Ids,
         ReadRole(h, op, x)
  PROVE  AccessInv'
<1>1. PICK c : c = [NoCall EXCEPT !.phase = "resolved", !.op = op, !.wanted = {x}]
  OBVIOUS
<1>2. c \in Call /\ c.phase = "resolved" /\ c.op # "erase"
  BY <1>1 DEF NoCall, Call, CallPhases, Tables, RowKinds
<1>3. QED
  BY <1>1, <1>2, GoInv
     DEF ReadRole, CallOK, LeavesLater, ErasesOK, Exclusive, HoldsOwner, Apart, Replacing

LEMMA StartEraseInv ==
  ASSUME AccessInv, NEW h \in Handlers, NEW k \in RowKinds, NEW x \in Ids, StartErase(h, k, x)
  PROVE  AccessInv'
<1>1. PICK c : c = [NoCall EXCEPT !.phase = "resolved", !.op = "erase", !.kind = k, !.wanted = {x},
                      !.table = IF k = "role" THEN "SaRolePermission" ELSE NoCall.table]
  OBVIOUS
<1>2. c \in Call /\ c.phase = "resolved" /\ c.kind = k /\ ~c.named
  BY <1>1 DEF NoCall, Call, CallPhases, Tables, RowKinds
<1>3. Go(h, c) /\ UNCHANGED <<focus, links, rows, defaults>> /\ k # "org"
  BY <1>1 DEF StartErase
<1>4. QED
  BY <1>2, <1>3, GoInv DEF CallOK, LeavesLater, ErasesOK, Exclusive, HoldsOwner, Apart, Replacing

\* The call of a handler after a step that advances its phase only.
LEMMA Advanced ==
  ASSUME NEW c \in Call, NEW phase \in CallPhases, NEW targets \in SUBSET Ids, NEW d,
         d = [c EXCEPT !.phase = phase, !.targets = targets] \/ d = [c EXCEPT !.phase = phase],
         targets = c.targets \/ d = [c EXCEPT !.phase = phase, !.targets = targets]
  PROVE  /\ d \in Call /\ d.phase = phase /\ d.targets = targets
         /\ d.op = c.op /\ d.table = c.table /\ d.kind = c.kind /\ d.wanted = c.wanted
         /\ d.swapped = c.swapped /\ d.loose = c.loose /\ d.named = c.named
BY DEF Call

LEMMA UpdateOwnerInv ==
  ASSUME AccessInv, NEW h \in Handlers, UpdateOwner(h) PROVE AccessInv'
<1>1. call[h] \in Call /\ CallOK(call[h])
  BY DEF AccessInv, AccessTypeOK
<1>2. PICK d : d = [call[h] EXCEPT !.phase = "locked"]
  OBVIOUS
<1>3. /\ d \in Call /\ d.phase = "locked" /\ d.op = call[h].op /\ d.table = call[h].table
      /\ d.kind = call[h].kind /\ d.named = call[h].named
  BY <1>1, <1>2, Advanced DEF Call, CallPhases
<1>4. CallOK(d)
  BY <1>1, <1>3 DEF CallOK, LeavesLater, ErasesOK, Replacing
<1>5. ASSUME NEW g \in Handlers \ {h}
      PROVE  Apart(call[g], d) /\ Apart(d, call[g]) /\ Exclusive(call[g], d)
  <2>1. Exclusive(call[g], d)
    BY <1>3 DEF UpdateOwner, OwnerLocked, OwnerLockedBy, LocksOwner, Others, Exclusive, HoldsOwner, Replacing
  <2>2. QED
    BY <1>3, <2>1 DEF Apart
<1>6. QED
  BY <1>2, <1>3, <1>4, <1>5, GoInv DEF UpdateOwner

LEMMA StartDeleteInv ==
  ASSUME AccessInv, NEW h \in Handlers, StartDelete(h) PROVE AccessInv'
<1>1. /\ call[h] \in Call /\ CallOK(call[h]) /\ call[h].table \in Tables
      /\ links[call[h].table] \in SUBSET Ids
  BY DEF AccessInv, AccessTypeOK, Call
<1>2. PICK d : d = [call[h] EXCEPT !.phase = "deleting", !.targets = links[call[h].table]]
  OBVIOUS
<1>3. /\ d \in Call /\ d.phase = "deleting" /\ d.op = call[h].op /\ d.table = call[h].table
      /\ d.kind = call[h].kind /\ d.named = call[h].named /\ d.targets = links[call[h].table]
  BY <1>1, <1>2 DEF Call, CallPhases
<1>4. CallOK(d)
  BY <1>1, <1>3 DEF CallOK, LeavesLater, ErasesOK, Later
<1>5. HoldsOwner(d) => HoldsOwner(call[h])
  BY <1>1, <1>3 DEF StartDelete, HoldsOwner, LocksOwner, At, CallOK, ErasesOK, Replacing
<1>6. ASSUME NEW g \in Handlers \ {h}
      PROVE  Apart(call[g], d) /\ Apart(d, call[g]) /\ Exclusive(call[g], d)
  BY <1>3, <1>5 DEF Apart, Exclusive, AccessInv
<1>7. QED
  BY <1>2, <1>3, <1>4, <1>6, GoInv DEF StartDelete

LEMMA FinishDeleteInv ==
  ASSUME AccessInv, NEW h \in Handlers, FinishDelete(h) PROVE AccessInv'
<1>1. call[h] \in Call /\ CallOK(call[h]) /\ call[h].phase = "deleting"
  BY DEF AccessInv, AccessTypeOK, FinishDelete, At
<1>2. PICK d : d = [call[h] EXCEPT !.phase = "deleted"]
  OBVIOUS
<1>3. /\ d \in Call /\ d.phase = "deleted" /\ d.op = call[h].op /\ d.table = call[h].table
      /\ d.kind = call[h].kind /\ d.targets = call[h].targets
      /\ d.swapped = call[h].swapped /\ d.loose = call[h].loose /\ d.named = call[h].named
  BY <1>1, <1>2, Advanced DEF Call, CallPhases
<1>4. CallOK(d) /\ (HoldsOwner(d) => HoldsOwner(call[h]))
  BY <1>1, <1>3 DEF CallOK, LeavesLater, ErasesOK, Later, HoldsOwner, Replacing
<1>5. ASSUME NEW g \in Handlers \ {h}
      PROVE  Apart(call[g], d) /\ Apart(d, call[g]) /\ Exclusive(call[g], d)
  BY <1>3, <1>4 DEF Apart, Exclusive, AccessInv
<1>6. QED
  BY <1>2, <1>3, <1>4, <1>5, GoInv DEF FinishDelete

LEMMA InsertLinksInv ==
  ASSUME AccessInv, NEW h \in Handlers, InsertLinks(h) PROVE AccessInv'
<1>1. call[h] \in Call /\ CallOK(call[h]) /\ call[h].phase = "deleted" /\ call[h].op = "replace"
  BY DEF AccessInv, AccessTypeOK, InsertLinks, At
<1>2. PICK d : d = [call[h] EXCEPT !.phase = "inserted"]
  OBVIOUS
<1>3. /\ d \in Call /\ d.phase = "inserted" /\ d.op = call[h].op /\ d.table = call[h].table
      /\ d.kind = call[h].kind /\ d.targets = call[h].targets /\ d.wanted = call[h].wanted
      /\ d.swapped = call[h].swapped /\ d.loose = call[h].loose /\ d.named = call[h].named
  BY <1>1, <1>2, Advanced DEF Call, CallPhases
<1>4. CASE call[h].wanted # {} /\ (Collides(call[h]) \/ Dangles(h))
  BY <1>4, GiveUpInv DEF InsertLinks
<1>5. CASE ~(call[h].wanted # {} /\ (Collides(call[h]) \/ Dangles(h)))
  <2>1. Known(d.table, d.wanted)
    BY <1>3, <1>5 DEF Dangles, Known
  <2>2. CallOK(d) /\ (HoldsOwner(d) => HoldsOwner(call[h]))
    BY <1>1, <1>3, <2>1 DEF CallOK, LeavesLater, ErasesOK, Later, HoldsOwner, Replacing
  <2>3. ASSUME NEW g \in Handlers \ {h} PROVE Apart(d, call[g])
    <3>1. SUFFICES ASSUME call[g].phase = "erased", call[g].kind \in Target(d.table)
                   PROVE  d.wanted \cap call[g].wanted = {}
      BY DEF Apart
    <3>2. call[g].wanted \subseteq RowsErased(h, call[g].kind)
      BY <3>1 DEF RowsErased, ErasedBy, Others
    <3>3. QED
      BY <1>3, <3>1, <3>2 DEF InsertLinks
  <2>4. \A g \in Handlers \ {h} : Apart(call[g], d) /\ Exclusive(call[g], d)
    BY <1>3, <2>2 DEF Apart, Exclusive, AccessInv
  <2>5. QED
    BY <1>2, <1>3, <1>5, <2>2, <2>3, <2>4, GoInv DEF InsertLinks
<1>6. QED
  BY <1>4, <1>5

LEMMA EraseRowInv ==
  ASSUME AccessInv, NEW h \in Handlers, EraseRow(h) PROVE AccessInv'
<1>1. call[h] \in Call /\ CallOK(call[h]) /\ call[h].op = "erase"
  BY DEF AccessInv, AccessTypeOK, EraseRow
<1>2. PICK d : d = [call[h] EXCEPT !.phase = "erased"]
  OBVIOUS
<1>3. /\ d \in Call /\ d.phase = "erased" /\ d.op = call[h].op /\ d.table = call[h].table
      /\ d.kind = call[h].kind /\ d.named = call[h].named /\ d.wanted = call[h].wanted
  BY <1>1, <1>2, Advanced DEF Call, CallPhases
<1>4. CASE call[h].wanted \subseteq rows[call[h].kind]
           /\ (call[h].kind = "role" => defaults["role"] \notin call[h].wanted)
  <2>1. CallOK(d) /\ ~HoldsOwner(d)
    BY <1>1, <1>3, <1>4 DEF CallOK, LeavesLater, ErasesOK, HoldsOwner, Replacing
  <2>2. ASSUME NEW g \in Handlers \ {h} PROVE Apart(call[g], d)
    <3>1. SUFFICES ASSUME call[g].phase = "inserted", d.kind \in Target(call[g].table)
                   PROVE  call[g].wanted \cap d.wanted = {}
      BY DEF Apart
    <3>2. call[g].wanted \subseteq RowsShared(h, d.kind)
      BY <3>1 DEF RowsShared, Others
    <3>3. QED
      BY <1>3, <3>2 DEF EraseRow
  <2>3. \A g \in Handlers \ {h} : Apart(d, call[g])
    BY <1>3 DEF Apart
  <2>4. QED
    BY <1>2, <1>3, <1>4, <2>1, <2>2, <2>3, GoInv DEF EraseRow, Exclusive
<1>5. CASE ~(call[h].wanted \subseteq rows[call[h].kind]
             /\ (call[h].kind = "role" => defaults["role"] \notin call[h].wanted))
  BY <1>5, GiveUpInv DEF EraseRow
<1>6. QED
  BY <1>4, <1>5

-----------------------------------------------------------------------------
\* Links that come and go at once, as the other handlers find them.
LEMMA TellInv ==
  ASSUME AccessInv, NEW h \in Handlers, NEW t \in Tables, NEW S \in SUBSET Ids,
         NEW A \in SUBSET Ids, NEW R \in SUBSET Ids,
         links' = [links EXCEPT ![t] = (links[t] \ R) \cup (S \cup A)], Tell(h, t, S, A, R),
         UNCHANGED <<focus, rows, defaults>>, Known(t, S \cup A),
         S \subseteq A \/ \A g \in Handlers \ {h} : HoldsOwner(call[g]) => call[g].table # t
  PROVE  AccessInv'
<1>1. /\ links \in [Tables -> SUBSET Ids] /\ call \in [Handlers -> Call]
      /\ \A x \in Tables : Known(x, links[x]) /\ NoCall \in Call
  BY HandlerAtRest DEF AccessInv, AccessTypeOK
<1>2. /\ links' \in [Tables -> SUBSET Ids] /\ links'[t] = (links[t] \ R) \cup (S \cup A)
      /\ \A x \in Tables \ {t} : links'[x] = links[x]
  BY <1>1
<1>3. \A x \in Tables : Known(x, links'[x])
  BY <1>1, <1>2 DEF Known
<1>4. ASSUME NEW g \in Handlers, g # h
      PROVE  \/ call'[g] = call[g] /\ (call[g].table # t \/ call[g].phase \notin Replacing)
             \/ /\ call[g].table = t /\ call[g].phase \in Replacing
                /\ call'[g] = [call[g] EXCEPT !.targets = call[g].targets \ R,
                                 !.swapped = call[g].swapped \cup S,
                                 !.loose = call[g].loose \cup A]
  BY <1>4 DEF Tell, Replacing
<1>5. ASSUME NEW g \in Handlers, g # h, call[g].table = t, call[g].phase \in Replacing
      PROVE  /\ call'[g] \in Call /\ call'[g].targets = call[g].targets \ R
             /\ call'[g].swapped = call[g].swapped \cup S
             /\ call'[g].loose = call[g].loose \cup A
             /\ call'[g].phase = call[g].phase /\ call'[g].table = call[g].table
             /\ call'[g].op = call[g].op /\ call'[g].kind = call[g].kind
             /\ call'[g].wanted = call[g].wanted /\ call'[g].named = call[g].named
  <2>1. call'[g] = [call[g] EXCEPT !.targets = call[g].targets \ R,
                      !.swapped = call[g].swapped \cup S, !.loose = call[g].loose \cup A]
    BY <1>4, <1>5
  <2>2. call[g] \in Call
    BY <1>1
  <2>3. /\ call[g].targets \ R \in SUBSET Ids /\ call[g].swapped \cup S \in SUBSET Ids
        /\ call[g].loose \cup A \in SUBSET Ids
    BY <2>2 DEF Call
  <2> DEFINE T == call[g].targets \ R
             W == call[g].swapped \cup S
             L == call[g].loose \cup A
             d == call'[g]
  <2>4. d = [call[g] EXCEPT !.targets = T, !.swapped = W, !.loose = L]
    BY <2>1
  <2> HIDE DEF T, W, L, d
  <2>5. /\ d \in Call /\ d.targets = T /\ d.swapped = W /\ d.loose = L
        /\ d.phase = call[g].phase /\ d.table = call[g].table /\ d.op = call[g].op
        /\ d.kind = call[g].kind /\ d.wanted = call[g].wanted /\ d.named = call[g].named
    <3>1. T \in SUBSET Ids /\ W \in SUBSET Ids /\ L \in SUBSET Ids
      BY <2>3 DEF T, W, L
    <3>2. QED
      BY <2>2, <2>4, <3>1 DEF Call
  <2>6. QED
    BY <2>5 DEF T, W, L, d
<1>6. call'[h] = NoCall /\ DOMAIN call' = Handlers /\ call' = [g \in Handlers |-> call'[g]]
  BY DEF Tell
<1>7. \A g \in Handlers : call'[g] \in Call
  BY <1>1, <1>4, <1>5, <1>6
<1>8. AccessTypeOK'
  <2>1. call' \in [Handlers -> Call]
    BY <1>6, <1>7
  <2>2. QED
    BY <1>2, <1>3, <2>1 DEF AccessInv, AccessTypeOK, Known
<1>9. ASSUME NEW g \in Handlers PROVE CallOK(call[g])'
  <2>1. CASE g = h
    <3>1. call'[g].phase = "rest" /\ call'[g].op = "replace"
      BY <1>6, <2>1 DEF NoCall
    <3>2. QED
      BY <3>1 DEF CallOK, LeavesLater, ErasesOK, Replacing
  <2>2. CASE g # h /\ call[g].table = t /\ call[g].phase \in Replacing
    <3>1. /\ CallOK(call[g]) /\ call[g] \in Call
          /\ S \subseteq A \/ ~call[g].named
      BY <1>1, <2>2 DEF AccessInv, HoldsOwner
    <3>2. call'[g].named = call[g].named
      BY <1>5, <2>2
    <3>3. links[t] \ call[g].targets \subseteq Later(call[g])
      BY <2>2, <3>1 DEF CallOK, LeavesLater
    <3>6. Later(call'[g]) = IF call[g].named THEN call[g].loose \cup A
                            ELSE (call[g].swapped \cup S) \cup (call[g].loose \cup A)
      BY <1>5, <2>2, <3>2 DEF Later
    <3>7. ((links[t] \ R) \cup (S \cup A)) \ (call[g].targets \ R) \subseteq Later(call'[g])
      BY <3>1, <3>3, <3>6 DEF Later
    <3>4. LeavesLater(call[g])'
      BY <1>2, <1>5, <2>2, <3>7 DEF LeavesLater, Later
    <3>5. QED
      BY <1>5, <2>2, <3>1, <3>4 DEF CallOK, ErasesOK, Known
  <2>3. CASE g # h /\ (call[g].table # t \/ call[g].phase \notin Replacing)
    <3>1. call'[g] = call[g] /\ CallOK(call[g]) /\ call[g].table \in Tables
      BY <1>1, <1>4, <2>3 DEF AccessInv, Call
    <3>2. LeavesLater(call[g])'
      BY <1>2, <2>3, <3>1 DEF LeavesLater, CallOK, Later
    <3>3. QED
      BY <3>1, <3>2 DEF CallOK, ErasesOK, Known
  <2>4. QED
    BY <2>1, <2>2, <2>3
<1>10. ASSUME NEW g \in Handlers
       PROVE  \/ call'[g].phase = "rest"
              \/ /\ call'[g].phase = call[g].phase /\ call'[g].table = call[g].table
                 /\ call'[g].kind = call[g].kind /\ call'[g].wanted = call[g].wanted
                 /\ call'[g].named = call[g].named
  <2>1. CASE g = h
    BY <1>6, <2>1 DEF NoCall
  <2>2. CASE g # h /\ call'[g] = call[g]
    BY <2>2
  <2>3. CASE g # h /\ call[g].table = t /\ call[g].phase \in Replacing
    BY <1>5, <2>3
  <2>4. QED
    BY <1>4, <2>1, <2>2, <2>3
<1>11. ASSUME NEW f \in Handlers, NEW g \in Handlers, f # g
       PROVE  Apart(call'[f], call'[g]) /\ Exclusive(call'[f], call'[g])
  <2>1. Apart(call[f], call[g]) /\ Exclusive(call[f], call[g])
    BY <1>11 DEF AccessInv
  <2>2. QED
    BY <1>10, <2>1 DEF Apart, Exclusive, HoldsOwner, Replacing
<1>12. QED
  BY <1>8, <1>9, <1>11 DEF AccessInv, Apart, Exclusive, HoldsOwner

LEMMA CommitLinksInv ==
  ASSUME AccessInv, NEW h \in Handlers, CommitLinks(h) PROVE AccessInv'
<1>1. /\ call[h] \in Call /\ CallOK(call[h]) /\ call[h].phase = "inserted"
      /\ links \in [Tables -> SUBSET Ids]
  BY DEF AccessInv, AccessTypeOK, CommitLinks, At
<1>2. PICK t \in Tables, S \in SUBSET Ids, R \in SUBSET Ids :
        t = call[h].table /\ S = call[h].wanted /\ R = call[h].targets
  BY <1>1 DEF Call
<1>7. PICK A \in SUBSET Ids : A = IF call[h].named THEN {} ELSE S
  OBVIOUS
<1>3. links' = [links EXCEPT ![t] = (links[t] \ R) \cup (S \cup A)] /\ Tell(h, t, S, A, R)
  <2>1. S \cup A = S
    BY <1>7
  <2>2. Tell(h, t, S, A, R)
    BY <1>2, <1>7 DEF CommitLinks
  <2>3. QED
    BY <1>1, <1>2, <2>1, <2>2 DEF CommitLinks
<1>4. Known(t, S \cup A)
  BY <1>1, <1>2, <1>7 DEF CallOK, Known
<1>5. S \subseteq A \/ \A g \in Handlers \ {h} : HoldsOwner(call[g]) => call[g].table # t
  BY <1>1, <1>2, <1>7 DEF HoldsOwner, Exclusive, Replacing, AccessInv
<1>6. QED
  BY <1>3, <1>4, <1>5, TellInv DEF CommitLinks

LEMMA AssignRoleInv ==
  ASSUME AccessInv, NEW h \in Handlers, AssignRole(h) PROVE AccessInv'
<1>1. call[h] \in Call /\ links \in [Tables -> SUBSET Ids] /\ "SaUserRole" \in Tables
  BY DEF AccessInv, AccessTypeOK, Tables
<1>2. PICK A \in SUBSET Ids : A = call[h].wanted
  BY <1>1 DEF Call
<1>3. CASE A \subseteq rows["role"]
  <2>1. /\ links' = [links EXCEPT !["SaUserRole"] = (links["SaUserRole"] \ {}) \cup ({} \cup A)]
        /\ Tell(h, "SaUserRole", {}, A, {})
    BY <1>1, <1>2, <1>3 DEF AssignRole
  <2>2. Known("SaUserRole", {} \cup A) /\ {} \in SUBSET Ids
    BY <1>3 DEF Known, Target
  <2>3. QED
    BY <1>1, <2>1, <2>2, TellInv DEF AssignRole
<1>4. CASE ~(A \subseteq rows["role"])
  BY <1>2, <1>4, GiveUpInv DEF AssignRole
<1>5. QED
  BY <1>3, <1>4

LEMMA RemoveRoleInv ==
  ASSUME AccessInv, NEW h \in Handlers, RemoveRole(h) PROVE AccessInv'
<1>1. call[h] \in Call /\ links \in [Tables -> SUBSET Ids] /\ "SaUserRole" \in Tables
  BY DEF AccessInv, AccessTypeOK, Tables
<1>2. PICK R \in SUBSET Ids : R = call[h].wanted
  BY <1>1 DEF Call
<1>3. /\ links' = [links EXCEPT !["SaUserRole"] = (links["SaUserRole"] \ R) \cup ({} \cup {})]
      /\ Tell(h, "SaUserRole", {}, {}, R)
  BY <1>1, <1>2 DEF RemoveRole
<1>4. Known("SaUserRole", {} \cup {})
  BY DEF Known
<1>5. QED
  BY <1>1, <1>3, <1>4, TellInv DEF RemoveRole

\* A row goes with all that refers to it.
LEMMA CommitEraseInv ==
  ASSUME AccessInv, NEW h \in Handlers, CommitErase(h) PROVE AccessInv'
<1>1. /\ call[h] \in Call /\ CallOK(call[h]) /\ call[h].phase = "erased"
      /\ links \in [Tables -> SUBSET Ids] /\ rows \in [RowKinds -> SUBSET Ids]
      /\ call \in [Handlers -> Call] /\ \A t \in Tables : Known(t, links[t])
  BY DEF AccessInv, AccessTypeOK, CommitErase, At
<1> DEFINE kd == call[h].kind
           W == call[h].wanted
           C(t) == Cascaded(call[h], t)
<1>2. kd \in RowKinds \ {"org"} /\ W \in SUBSET Ids /\ (kd = "role" => defaults["role"] \notin W)
  BY <1>1 DEF CallOK, ErasesOK, Call, RowKinds
<1>3. \A t \in Tables : C(t) \in SUBSET Ids /\ (kd \in Target(t) => C(t) = W)
  BY <1>2 DEF Cascaded
<1>4. /\ C("SaAppRedirectUri") = {}
  BY <1>1 DEF Cascaded, Target
<1>5. /\ links' \in [Tables -> SUBSET Ids]
      /\ \A t \in Tables : links'[t] = links[t] \ C(t)
  BY <1>1 DEF CommitErase
<1>6. /\ rows' \in [RowKinds -> SUBSET Ids] /\ rows'[kd] = rows[kd] \ W
      /\ \A k \in RowKinds \ {kd} : rows'[k] = rows[k]
  BY <1>1, <1>2 DEF CommitErase
<1>7. ASSUME NEW t \in Tables, NEW k \in Target(t) PROVE links'[t] \subseteq rows'[k]
  <2>1. links[t] \subseteq rows[k] /\ k \in RowKinds
    BY <1>1 DEF Known, Target, RowKinds
  <2>2. QED
    BY <1>3, <1>5, <1>6, <2>1
<1>8. ASSUME NEW g \in Handlers, g # h
      PROVE  /\ call'[g] \in Call /\ call'[g].targets = call[g].targets \ C(call[g].table)
             /\ call'[g].swapped = call[g].swapped /\ call'[g].loose = call[g].loose
             /\ call'[g].phase = call[g].phase /\ call'[g].table = call[g].table
             /\ call'[g].op = call[g].op /\ call'[g].kind = call[g].kind
             /\ call'[g].wanted = call[g].wanted /\ call'[g].named = call[g].named
  <2>1. call'[g] = [call[g] EXCEPT !.targets = call[g].targets \ C(call[g].table)]
    BY <1>8 DEF CommitErase
  <2>2. call[g] \in Call
    BY <1>1
  <2>3. QED
    BY <2>1, <2>2 DEF Call
<1>9. call'[h] = NoCall /\ call' = [g \in Handlers |-> call'[g]]
  BY DEF CommitErase
<1>10. call' \in [Handlers -> Call]
  BY <1>8, <1>9, HandlerAtRest
<1>11. /\ defaults' \in [{"role", "org"} -> Ids \cup {NoItem}]
       /\ \A k \in {"role", "org"} : defaults'[k] \in rows'[k] \cup {NoItem}
  <2>1. /\ defaults' = defaults /\ defaults \in [{"role", "org"} -> Ids \cup {NoItem}]
        /\ \A k \in {"role", "org"} : defaults[k] \in rows[k] \cup {NoItem}
    BY DEF CommitErase, AccessInv, AccessTypeOK
  <2>2. QED
    BY <1>2, <1>6, <2>1 DEF RowKinds
<1>12. ASSUME NEW g \in Handlers PROVE CallOK(call[g])'
  <2>1. CASE g = h
    <3>1. call'[g].phase = "rest" /\ call'[g].op = "replace"
      BY <1>9, <2>1 DEF NoCall
    <3>2. QED
      BY <3>1 DEF CallOK, LeavesLater, ErasesOK, Replacing
  <2>2. CASE g # h
    <3>1. /\ CallOK(call[g]) /\ Apart(call[g], call[h]) /\ call[g].table \in Tables
      BY <1>1, <2>2 DEF AccessInv, Call
    <3>2. LeavesLater(call[g])'
      BY <1>5, <1>8, <2>2, <3>1 DEF LeavesLater, CallOK, Later
    <3>3. ErasesOK(call[g])'
      BY <1>8, <2>2, <3>1 DEF ErasesOK, CallOK, CommitErase
    <3>4. ASSUME call[g].phase = "inserted", NEW k \in Target(call[g].table)
          PROVE  call[g].wanted \subseteq rows'[k]
      <4>1. call[g].wanted \subseteq rows[k] /\ (k = kd => call[g].wanted \cap W = {}) /\ k \in RowKinds
        BY <1>1, <3>1, <3>4 DEF CallOK, Known, Apart, Target, RowKinds
      <4>2. QED
        BY <1>6, <4>1
    <3>5. QED
      BY <1>8, <2>2, <3>2, <3>3, <3>4 DEF CallOK, Known
  <2>3. QED
    BY <2>1, <2>2
<1>13. ASSUME NEW f \in Handlers, NEW g \in Handlers, f # g
       PROVE  Apart(call'[f], call'[g]) /\ Exclusive(call'[f], call'[g])
  <2>1. Apart(call[f], call[g]) /\ Exclusive(call[f], call[g])
    BY <1>13 DEF AccessInv
  <2>2. call'[h].phase = "rest"
    BY <1>9 DEF NoCall
  <2>3. QED
    BY <1>8, <2>1, <2>2 DEF Apart, Exclusive, HoldsOwner, Replacing
<1>14. QED
  BY <1>5, <1>6, <1>7, <1>10, <1>11, <1>12, <1>13 DEF AccessInv, AccessTypeOK, Apart, Exclusive, HoldsOwner, Known

-----------------------------------------------------------------------------
\* A change of the rows, or of the defaults, beside the calls.
LEMMA RowsInv ==
  ASSUME AccessInv, UNCHANGED <<focus, links, call>>,
         rows' \in [RowKinds -> SUBSET Ids],
         \A k \in RowKinds \ {"org"} : rows[k] \subseteq rows'[k],
         defaults' \in [{"role", "org"} -> Ids \cup {NoItem}],
         \A k \in {"role", "org"} : defaults'[k] \in rows'[k] \cup {NoItem},
         \A h \in Handlers : call[h].phase = "erased" /\ call[h].kind = "role" =>
           defaults'["role"] \notin call[h].wanted
  PROVE  AccessInv'
<1>1. ASSUME NEW t \in Tables, NEW k \in Target(t) PROVE rows[k] \subseteq rows'[k]
  BY DEF Target, RowKinds
<1>2. AccessTypeOK'
  BY <1>1 DEF AccessInv, AccessTypeOK, Known
<1>3. ASSUME NEW h \in Handlers PROVE CallOK(call[h])'
  <2>1. CallOK(call[h]) /\ call[h].table \in Tables
    BY DEF AccessInv, AccessTypeOK, Call
  <2>2. ErasesOK(call[h])'
    BY <2>1 DEF CallOK, ErasesOK
  <2>3. QED
    BY <1>1, <2>1, <2>2 DEF CallOK, LeavesLater, Known
<1>4. QED
  BY <1>2, <1>3 DEF AccessInv, Apart, Exclusive, HoldsOwner

LEMMA CreateRowInv ==
  ASSUME AccessInv, NEW k \in RowKinds, NEW x \in Ids, CreateRow(k, x) PROVE AccessInv'
<1>1. /\ rows \in [RowKinds -> SUBSET Ids] /\ defaults \in [{"role", "org"} -> Ids \cup {NoItem}]
      /\ \A j \in {"role", "org"} : defaults[j] \in rows[j] \cup {NoItem}
  BY DEF AccessInv, AccessTypeOK
<1>2. rows' \in [RowKinds -> SUBSET Ids] /\ \A j \in RowKinds : rows[j] \subseteq rows'[j]
  BY <1>1 DEF CreateRow
<1>3. defaults' = defaults /\ \A j \in {"role", "org"} : defaults'[j] \in rows'[j] \cup {NoItem}
  BY <1>1, <1>2 DEF CreateRow, RowKinds
<1>4. QED
  BY <1>1, <1>2, <1>3, RowsInv DEF CreateRow, AccessInv, CallOK, ErasesOK

LEMMA DeleteOrgInv ==
  ASSUME AccessInv, NEW x \in Ids, DeleteOrg(x) PROVE AccessInv'
<1>1. /\ rows \in [RowKinds -> SUBSET Ids] /\ defaults \in [{"role", "org"} -> Ids \cup {NoItem}]
      /\ \A j \in {"role", "org"} : defaults[j] \in rows[j] \cup {NoItem}
      /\ {"role", "org"} \subseteq RowKinds
  BY DEF AccessInv, AccessTypeOK, RowKinds
<1>2. /\ rows' \in [RowKinds -> SUBSET Ids] /\ \A j \in RowKinds \ {"org"} : rows[j] \subseteq rows'[j]
      /\ rows'["org"] = rows["org"] \ {x} /\ rows'["role"] = rows["role"]
  BY <1>1 DEF DeleteOrg
<1>3. defaults' = defaults /\ \A j \in {"role", "org"} : defaults'[j] \in rows'[j] \cup {NoItem}
  BY <1>1, <1>2 DEF DeleteOrg
<1>4. QED
  BY <1>1, <1>2, <1>3, RowsInv DEF DeleteOrg, AccessInv, CallOK, ErasesOK

LEMMA SetDefaultInv ==
  ASSUME AccessInv, NEW k \in {"role", "org"}, NEW x \in Ids \cup {NoItem}, SetDefault(k, x)
  PROVE  AccessInv'
<1>1. /\ rows \in [RowKinds -> SUBSET Ids] /\ defaults \in [{"role", "org"} -> Ids \cup {NoItem}]
      /\ \A j \in {"role", "org"} : defaults[j] \in rows[j] \cup {NoItem}
      /\ call \in [Handlers -> Call]
  BY DEF AccessInv, AccessTypeOK
<1>2. /\ defaults' \in [{"role", "org"} -> Ids \cup {NoItem}] /\ defaults'[k] = x
      /\ \A j \in {"role", "org"} \ {k} : defaults'[j] = defaults[j]
      /\ x \in rows[k] \cup {NoItem} /\ rows' = rows
  BY <1>1 DEF SetDefault
<1>3. \A j \in {"role", "org"} : defaults'[j] \in rows'[j] \cup {NoItem}
  BY <1>1, <1>2
<1>4. ASSUME NEW h \in Handlers, call[h].phase = "erased", call[h].kind = "role"
      PROVE  defaults'["role"] \notin call[h].wanted
  <2>1. CallOK(call[h]) /\ call[h].wanted \subseteq Ids /\ NoItem \notin Ids
    BY <1>1, AccessAssumption DEF AccessInv, Call
  <2>2. CASE k = "role"
    <3>1. x = NoItem \/ x \notin call[h].wanted
      BY <1>4, <2>2 DEF SetDefault, ErasedBy
    <3>2. QED
      BY <1>2, <2>1, <2>2, <3>1
  <2>3. CASE k # "role"
    BY <1>2, <1>4, <2>1, <2>3 DEF CallOK, ErasesOK
  <2>4. QED
    BY <2>2, <2>3
<1>5. QED
  BY <1>1, <1>2, <1>3, <1>4, RowsInv DEF SetDefault

LEMMA AccessNextInv == AccessInv /\ [AccessNext]_accessVars => AccessInv'
<1> SUFFICES ASSUME AccessInv, [AccessNext]_accessVars PROVE AccessInv'
  OBVIOUS
<1>1. CASE UNCHANGED accessVars
  BY <1>1 DEF accessVars, AccessInv, AccessTypeOK, CallOK, LeavesLater, ErasesOK, Known, Apart,
              Exclusive, HoldsOwner
<1>2. ASSUME NEW h \in Handlers, HandlerStep(h) PROVE AccessInv'
  <2>1. CASE UpdateOwner(h) \/ StartDelete(h) \/ FinishDelete(h) \/ InsertLinks(h) \/ CommitLinks(h)
    BY <2>1, UpdateOwnerInv, StartDeleteInv, FinishDeleteInv, InsertLinksInv, CommitLinksInv
  <2>2. CASE AssignRole(h) \/ RemoveRole(h) \/ EraseRow(h) \/ CommitErase(h)
    BY <2>2, AssignRoleInv, RemoveRoleInv, EraseRowInv, CommitEraseInv
  <2>3. CASE RollBack(h)
    BY <2>3, GiveUpInv DEF RollBack
  <2>4. ASSUME NEW t \in Tables, NEW W \in SUBSET Ids, NEW named \in BOOLEAN, Resolve(h, t, W, named)
        PROVE  AccessInv'
    BY <2>4, ResolveInv
  <2>5. ASSUME NEW op \in {"assign", "remove"}, NEW x \in Ids, ReadRole(h, op, x) PROVE AccessInv'
    BY <2>5, ReadRoleInv
  <2>6. ASSUME NEW k \in RowKinds, NEW x \in Ids, StartErase(h, k, x) PROVE AccessInv'
    BY <2>6, StartEraseInv
  <2>7. QED
    BY <1>2, <2>1, <2>2, <2>3, <2>4, <2>5, <2>6 DEF HandlerStep
<1>3. QED
  BY <1>1, <1>2, CreateRowInv, DeleteOrgInv, SetDefaultInv DEF AccessNext

\* A link never points to a row that is gone, nor does a default of the app, however
\* the deletions of deleteRole, deletePermission and deleteOrg meet those that link.
THEOREM AccessTypeCorrect == AccessSpec => []AccessTypeOK
<1>1. AccessInv => AccessTypeOK
  BY DEF AccessInv
<1>2. QED
  BY AccessInitInv, AccessNextInv, <1>1, PTL DEF AccessSpec

\* A replacement that commits leaves what was asked for and, beside it, only what others
\* have linked since its DELETE started; one that has locked its owner's row (a
\* role's with a name in the body, an app's with a column of its own) leaves of that
\* only what was linked without the lock.
THEOREM ReplacementsHold == AccessSpec => ReplacementHolds
<1>1. ASSUME AccessInv, NEW h \in Handlers, CommitLinks(h)
      PROVE  /\ call[h].wanted \subseteq links'[call[h].table]
             /\ links'[call[h].table] \ call[h].wanted \subseteq
                  IF call[h].named THEN call[h].loose
                  ELSE call[h].swapped \cup call[h].loose
  <2>1. /\ call[h] \in Call /\ LeavesLater(call[h]) /\ call[h].phase = "inserted"
        /\ links \in [Tables -> SUBSET Ids] /\ call[h].table \in Tables
    BY <1>1 DEF AccessInv, AccessTypeOK, CallOK, CommitLinks, At, Call
  <2>2. links'[call[h].table] = (links[call[h].table] \ call[h].targets) \cup call[h].wanted
    BY <1>1, <2>1 DEF CommitLinks
  <2>3. links[call[h].table] \ call[h].targets \subseteq Later(call[h])
    BY <2>1 DEF LeavesLater, Replacing
  <2>4. QED
    BY <2>2, <2>3 DEF Later
<1>2. AccessInv /\ [AccessNext]_accessVars =>
        [\A h \in Handlers :
           CommitLinks(h) =>
             /\ call[h].wanted \subseteq links'[call[h].table]
             /\ links'[call[h].table] \ call[h].wanted \subseteq
                  IF call[h].named THEN call[h].loose
                  ELSE call[h].swapped \cup call[h].loose]_accessVars
  BY <1>1
<1>3. QED
  BY AccessInitInv, AccessNextInv, <1>2, PTL DEF AccessSpec, ReplacementHolds

-----------------------------------------------------------------------------
(* List pages *)

\* A call fits the filters f in force, the row v in the view drawer and the row e in the
\* edit drawer: as long as it is heard it was asked for them, and a save that has
\* permissions was meant to have them.
CallFits(c, f, v, e) ==
  /\ c.kind \in {"detail", "form", "update", "delete"} => c.row \in Entries
  /\ c.kind = "create" => c.grants \in SUBSET Grants
  /\ c.kind = "update" /\ c.grants # NoRow => c.meant
  /\ c.live /\ c.kind = "search" => c.asked = f
  /\ c.live /\ c.kind = "detail" => c.row = v
  /\ c.live /\ c.kind = "form" => c.row = e

TabFits(t, v, e) ==
  /\ \A i \in 1..Len(t.queue) : CallFits(t.queue[i], t.filter, v, e)
  /\ t.detail # NoRow => t.detail.id = v
  /\ t.form.rows # t.form.initial => t.form.touched
  /\ t.data.total <= Cardinality(Entries)

ListInv ==
  /\ ListTypeOK
  /\ TabFits(tab, ShownIn(tab, "view"), ShownIn(tab, "edit"))

Kinds == {"search", "refresh", "detail", "form", "update", "delete", "create"}

LEMMA EntriesCounted == Cardinality(Entries) \in Nat /\ Cardinality(Entries) >= 1
<1>1. Cardinality(Entries) \in Nat /\ Cardinality(Entries) # 0
  BY ListAssumption, FS_CardinalityType, FS_EmptySet
<1>2. QED
  BY <1>1

LEMMA ListOfType ==
  ASSUME stored \in [Entries -> Stored], NEW f \in Filter
  PROVE  /\ ListOf(f) \in [items : SUBSET EntryRow, total : Nat]
         /\ ListOf(f).total <= Cardinality(Entries)
         /\ \A row \in ListOf(f).items : row \in EntryRow
<1>1. Matching(f) \subseteq Entries /\ OnPage(f) \subseteq Entries
  BY DEF Matching, OnPage
<1>2. Cardinality(Matching(f)) \in Nat /\ Cardinality(Matching(f)) <= Cardinality(Entries)
  BY <1>1, ListAssumption, FS_Subset, FS_CardinalityType
<1>3. \A r \in Entries : RowOf(r) \in EntryRow
  BY DEF RowOf, EntryRow, Stored
<1>4. {RowOf(r) : r \in OnPage(f)} \subseteq EntryRow
  BY <1>1, <1>3
<1>5. QED
  BY <1>2, <1>4 DEF ListOf

LEMMA ListCallType ==
  ASSUME NEW kind \in Kinds, NEW row \in Entries \cup {NoRow}, NEW f \in Filter
  PROVE  ListCall(kind, row, f) \in ServerCall
<1> DEFINE c == ListCall(kind, row, f)
<1>1. c = [kind |-> kind, row |-> row, asked |-> f, live |-> TRUE, grants |-> NoRow, meant |-> FALSE]
  BY DEF ListCall
<1>2. NoRow \in (SUBSET Grants) \cup {NoRow}
  OBVIOUS
<1>3. QED
  BY <1>1, <1>2 DEF ServerCall, Kinds

LEMMA DroppedType ==
  ASSUME NEW q \in Seq(ServerCall), NEW kind \in Kinds
  PROVE  /\ Dropped(q, kind) \in Seq(ServerCall) /\ Len(Dropped(q, kind)) = Len(q)
         /\ \A i \in 1..Len(q) :
              /\ Dropped(q, kind)[i] \in ServerCall
              /\ Dropped(q, kind)[i].kind = q[i].kind /\ Dropped(q, kind)[i].row = q[i].row
              /\ Dropped(q, kind)[i].asked = q[i].asked /\ Dropped(q, kind)[i].grants = q[i].grants
              /\ Dropped(q, kind)[i].meant = q[i].meant
              /\ Dropped(q, kind)[i].live => q[i].live /\ q[i].kind # kind
<1>1. Len(q) \in Nat /\ DOMAIN q = 1..Len(q) /\ \A i \in 1..Len(q) : q[i] \in ServerCall
  OBVIOUS
<1> DEFINE drop(i) == IF q[i].kind = kind THEN [q[i] EXCEPT !.live = FALSE] ELSE q[i]
<1>2. ASSUME NEW i \in 1..Len(q)
      PROVE  /\ drop(i) \in ServerCall /\ drop(i).kind = q[i].kind /\ drop(i).row = q[i].row
             /\ drop(i).asked = q[i].asked /\ drop(i).grants = q[i].grants
             /\ drop(i).meant = q[i].meant
             /\ drop(i).live => q[i].live /\ q[i].kind # kind
  <2>1. q[i] \in ServerCall
    BY <1>1
  <2>2. CASE q[i].kind = kind
    BY <2>1, <2>2 DEF ServerCall
  <2>3. CASE q[i].kind # kind
    BY <2>1, <2>3
  <2>4. QED
    BY <2>2, <2>3
<1>3. Dropped(q, kind) = [i \in 1..Len(q) |-> drop(i)]
  BY <1>1 DEF Dropped
<1> HIDE DEF drop
<1>4. Dropped(q, kind) \in Seq(ServerCall) /\ Len(Dropped(q, kind)) = Len(q)
  BY <1>1, <1>2, <1>3
<1>5. \A i \in 1..Len(q) : Dropped(q, kind)[i] = drop(i)
  BY <1>3
<1>6. QED
  BY <1>2, <1>4, <1>5

LEMMA TabType ==
  ASSUME NEW t \in ListTab
  PROVE  /\ t.queue \in Seq(ServerCall) /\ t.filter \in Filter /\ t.form \in EditForm
         /\ t.selected \in EntryRow \cup {NoRow} /\ t.detail \in EntryRow \cup {NoRow}
         /\ t.open \in SUBSET {"view", "edit", "create", "delete"}
         /\ t.pending \in SUBSET {"edit", "create", "delete"}
         /\ t.data \in [items : SUBSET EntryRow, total : Nat]
BY DEF ListTab

LEMMA ShownType ==
  ASSUME NEW t \in ListTab, NEW what \in {"view", "edit"}, ShownIn(t, what) # NoRow
  PROVE  t.selected \in EntryRow /\ t.selected.id \in Entries /\ ShownIn(t, what) = t.selected.id
         /\ t.selected # NoRow
BY TabType DEF ShownIn, Visible, EntryRow

\* A call more in the queue.
LEMMA Queued ==
  ASSUME NEW t \in ListTab, NEW c \in ServerCall, NEW v, NEW e, TabFits(t, v, e),
         CallFits(c, t.filter, v, e), NEW r, r = [t EXCEPT !.queue = Append(t.queue, c)]
  PROVE  /\ r \in ListTab /\ TabFits(r, v, e) /\ r.data = t.data
         /\ r.filter = t.filter /\ r.selected = t.selected /\ r.open = t.open
         /\ r.pending = t.pending /\ r.form = t.form /\ r.detail = t.detail
<1>1. /\ Append(t.queue, c) \in Seq(ServerCall) /\ Len(Append(t.queue, c)) = Len(t.queue) + 1
      /\ Append(t.queue, c)[Len(t.queue) + 1] = c /\ Len(t.queue) \in Nat
      /\ \A i \in 1..Len(t.queue) : Append(t.queue, c)[i] = t.queue[i]
  BY TabType
<1>2. PICK queue \in Seq(ServerCall) : queue = Append(t.queue, c)
  BY <1>1
<1>3. r = [t EXCEPT !.queue = queue]
  BY <1>2
<1>4. /\ r \in ListTab /\ r.queue = queue
      /\ r.filter = t.filter /\ r.selected = t.selected /\ r.open = t.open /\ r.data = t.data
      /\ r.pending = t.pending /\ r.form = t.form /\ r.detail = t.detail
  BY <1>3 DEF ListTab
<1>5. TabFits(r, v, e)
  BY <1>1, <1>2, <1>4 DEF TabFits
<1>6. QED
  BY <1>4, <1>5

LEMMA DetailEffectFits ==
  ASSUME NEW t \in ListTab, NEW v, NEW e, TabFits(t, v, e)
  PROVE  /\ DetailEffect(t) \in ListTab /\ TabFits(DetailEffect(t), ShownIn(t, "view"), e)
         /\ DetailEffect(t).selected = t.selected /\ DetailEffect(t).open = t.open
         /\ DetailEffect(t).form = t.form /\ DetailEffect(t).data = t.data
         /\ DetailEffect(t).filter = t.filter
<1> DEFINE w == ShownIn(t, "view")
<1>1. PICK queue \in Seq(ServerCall) : queue = Dropped(t.queue, "detail")
  BY TabType, DroppedType DEF Kinds
<1>2. PICK c : c = [t EXCEPT !.queue = queue, !.detail = NoRow]
  OBVIOUS
<1>3. /\ c \in ListTab /\ c.queue = queue /\ c.filter = t.filter /\ c.selected = t.selected
      /\ c.open = t.open /\ c.form = t.form /\ c.data = t.data /\ c.detail = NoRow
  BY <1>1, <1>2 DEF ListTab
<1>4. ASSUME NEW i \in 1..Len(queue)
      PROVE  CallFits(queue[i], t.filter, w, e)
  <2>1. /\ queue[i].kind = t.queue[i].kind /\ queue[i].row = t.queue[i].row
        /\ queue[i].asked = t.queue[i].asked /\ queue[i].grants = t.queue[i].grants
        /\ queue[i].meant = t.queue[i].meant
        /\ queue[i].live => t.queue[i].live /\ t.queue[i].kind # "detail"
    BY <1>1, TabType, DroppedType DEF Kinds
  <2>2. CallFits(t.queue[i], t.filter, v, e)
    BY <1>1, TabType, DroppedType DEF TabFits, Kinds
  <2>3. QED
    BY <2>1, <2>2 DEF CallFits
<1>5. TabFits(c, w, e)
  BY <1>3, <1>4 DEF TabFits
<1>6. CASE w = NoRow \/ listing = "orgs"
  BY <1>1, <1>2, <1>3, <1>5, <1>6 DEF DetailEffect
<1>7. CASE w # NoRow /\ listing # "orgs"
  <2>1. t.selected.id \in Entries /\ w = t.selected.id
    BY <1>7, ShownType
  <2>2. PICK a \in ServerCall :
          /\ a = ListCall("detail", t.selected.id, c.filter)
          /\ a.kind = "detail" /\ a.row = w
    <3>1. c.filter \in Filter /\ t.selected.id \in Entries \cup {NoRow}
      BY <1>3, <2>1, TabType
    <3>2. "detail" \in Kinds
      BY DEF Kinds
    <3>3. ListCall("detail", t.selected.id, c.filter) \in ServerCall
      BY <3>1, <3>2, ListCallType
    <3>4. /\ ListCall("detail", t.selected.id, c.filter).kind = "detail"
          /\ ListCall("detail", t.selected.id, c.filter).row = t.selected.id
      BY DEF ListCall
    <3>5. QED
      BY <2>1, <3>3, <3>4, Zenon
  <2>3. CallFits(a, c.filter, w, e)
    BY <2>1, <2>2 DEF CallFits
  <2>4. DetailEffect(t) = [c EXCEPT !.queue = Append(c.queue, a)]
    BY <1>1, <1>2, <1>3, <1>7, <2>2 DEF DetailEffect, Ask
  <2>5. PICK r : r = [c EXCEPT !.queue = Append(c.queue, a)]
    OBVIOUS
  <2>6. r.data = c.data
    BY <1>3, <2>5 DEF ListTab
  <2>7. QED
    BY <1>3, <1>5, <2>3, <2>4, <2>5, <2>6, Queued
<1>8. QED
  BY <1>6, <1>7

LEMMA FormEffectFits ==
  ASSUME NEW t \in ListTab, NEW v, NEW e, TabFits(t, v, e)
  PROVE  /\ FormEffect(t) \in ListTab /\ TabFits(FormEffect(t), v, ShownIn(t, "edit"))
         /\ FormEffect(t).selected = t.selected /\ FormEffect(t).open = t.open
         /\ FormEffect(t).data = t.data /\ FormEffect(t).form.loaded = FALSE
<1> DEFINE w == ShownIn(t, "edit")
<1>1. PICK queue \in Seq(ServerCall) : queue = Dropped(t.queue, "form")
  BY TabType, DroppedType DEF Kinds
<1>2. PICK form : form = [t.form EXCEPT !.loaded = FALSE]
  OBVIOUS
<1>3. /\ form \in EditForm /\ form.rows = t.form.rows /\ form.initial = t.form.initial
      /\ form.loaded = FALSE /\ form.touched = t.form.touched
  BY <1>2, TabType DEF EditForm
<1>4. PICK c : c = [t EXCEPT !.queue = queue, !.form = form]
  OBVIOUS
<1>5. /\ c \in ListTab /\ c.queue = queue /\ c.filter = t.filter /\ c.selected = t.selected
      /\ c.open = t.open /\ c.form = form /\ c.data = t.data /\ c.detail = t.detail
  BY <1>1, <1>3, <1>4 DEF ListTab
<1>6. ASSUME NEW i \in 1..Len(queue)
      PROVE  CallFits(queue[i], t.filter, v, w)
  <2>1. /\ queue[i].kind = t.queue[i].kind /\ queue[i].row = t.queue[i].row
        /\ queue[i].asked = t.queue[i].asked /\ queue[i].grants = t.queue[i].grants
        /\ queue[i].meant = t.queue[i].meant
        /\ queue[i].live => t.queue[i].live /\ t.queue[i].kind # "form"
    BY <1>1, TabType, DroppedType DEF Kinds
  <2>2. CallFits(t.queue[i], t.filter, v, e)
    BY <1>1, TabType, DroppedType DEF TabFits, Kinds
  <2>3. QED
    BY <2>1, <2>2 DEF CallFits
<1>7. TabFits(c, v, w)
  BY <1>3, <1>5, <1>6 DEF TabFits
<1>8. c = [t EXCEPT !.queue = Dropped(t.queue, "form"), !.form.loaded = FALSE]
  BY <1>1, <1>2, <1>4, TabType DEF ListTab, EditForm
<1>9. CASE w = NoRow \/ listing # "roles"
  BY <1>5, <1>7, <1>8, <1>9 DEF FormEffect
<1>10. CASE w # NoRow /\ listing = "roles"
  <2>1. t.selected.id \in Entries /\ w = t.selected.id
    BY <1>10, ShownType
  <2>2. PICK a \in ServerCall :
          /\ a = ListCall("form", t.selected.id, c.filter)
          /\ a.kind = "form" /\ a.row = w
    <3>1. c.filter \in Filter /\ t.selected.id \in Entries \cup {NoRow}
      BY <1>5, <2>1, TabType
    <3>2. "form" \in Kinds
      BY DEF Kinds
    <3>3. ListCall("form", t.selected.id, c.filter) \in ServerCall
      BY <3>1, <3>2, ListCallType
    <3>4. /\ ListCall("form", t.selected.id, c.filter).kind = "form"
          /\ ListCall("form", t.selected.id, c.filter).row = t.selected.id
      BY DEF ListCall
    <3>5. QED
      BY <2>1, <3>3, <3>4, Zenon
  <2>3. CallFits(a, c.filter, v, w)
    BY <2>1, <2>2 DEF CallFits
  <2>4. PICK r : r = [c EXCEPT !.queue = Append(c.queue, a)]
    OBVIOUS
  <2>5. /\ r \in ListTab /\ TabFits(r, v, w) /\ r.selected = t.selected /\ r.open = t.open
        /\ r.form = form /\ r.data = t.data
    BY <1>5, <1>7, <2>3, <2>4, Queued
  <2>6. PICK loading : loading = [form EXCEPT !.loading = TRUE]
    OBVIOUS
  <2>7. /\ loading \in EditForm /\ loading.rows = form.rows /\ loading.initial = form.initial
        /\ loading.loaded = FALSE /\ loading.touched = form.touched
    BY <1>3, <2>6 DEF EditForm
  <2>8. PICK s : s = [r EXCEPT !.form = loading]
    OBVIOUS
  <2>9. /\ s \in ListTab /\ s.queue = r.queue /\ s.filter = r.filter /\ s.selected = t.selected
        /\ s.open = t.open /\ s.form = loading /\ s.data = r.data /\ s.detail = r.detail
    BY <2>5, <2>7, <2>8 DEF ListTab
  <2>10. TabFits(s, v, w)
    BY <2>5, <2>7, <2>9 DEF TabFits
  <2>11. FormEffect(t) = s
    BY <1>5, <1>8, <1>10, <2>2, <2>4, <2>5, <2>6, <2>8 DEF FormEffect, Ask
  <2>12. QED
    BY <2>5, <2>7, <2>9, <2>10, <2>11
<1>11. QED
  BY <1>9, <1>10

-----------------------------------------------------------------------------
(* Rendering *)

\* A tab's own rows in the drawers depend on what is selected and open.
LEMMA SameShown ==
  ASSUME NEW s, NEW t, s.selected = t.selected, s.open = t.open, NEW what
  PROVE  ShownIn(s, what) = ShownIn(t, what)
BY DEF ShownIn, Visible

\* Rendering makes a tab that fits the drawers as they were fit them as they are; a form
\* that has been loaded was not started over.
LEMMA Rendered ==
  ASSUME ListTypeOK, stored' \in [Entries -> Stored], NEW t \in ListTab, NEW fresh \in BOOLEAN,
         TabFits(t, ShownIn(tab, "view"), ShownIn(tab, "edit")), Render(t, fresh)
  PROVE  /\ ListInv' /\ tab'.data = t.data
         /\ tab'.form.loaded => /\ tab'.form.initial = t.form.initial
                                /\ ShownIn(tab, "edit") = ShownIn(tab', "edit")
<1> DEFINE v == ShownIn(tab, "view")
           e == ShownIn(tab, "edit")
           vv == ShownIn(t, "view")
           ee == ShownIn(t, "edit")
<1>1. PICK named : named = IF fresh \/ t.selected # tab.selected
                           THEN [t EXCEPT !.form.renamed = FALSE] ELSE t
  OBVIOUS
<1>2. /\ named \in ListTab /\ TabFits(named, v, e) /\ named.selected = t.selected
      /\ named.open = t.open /\ named.data = t.data
      /\ named.form.initial = t.form.initial
  <2>1. CASE fresh \/ t.selected # tab.selected
    <3>1. PICK form : form = [t.form EXCEPT !.renamed = FALSE]
      OBVIOUS
    <3>2. /\ form \in EditForm /\ form.rows = t.form.rows /\ form.initial = t.form.initial
          /\ form.touched = t.form.touched /\ form.loaded = t.form.loaded
      BY <3>1, TabType DEF EditForm
    <3>3. named = [t EXCEPT !.form = form]
      BY <1>1, <2>1, <3>1
    <3>4. /\ named \in ListTab /\ named.queue = t.queue /\ named.filter = t.filter
          /\ named.selected = t.selected /\ named.open = t.open /\ named.form = form
          /\ named.data = t.data /\ named.detail = t.detail
      BY <3>2, <3>3 DEF ListTab
    <3>5. TabFits(named, v, e)
      BY <3>2, <3>4 DEF TabFits
    <3>6. QED
      BY <3>2, <3>4, <3>5
  <2>2. CASE ~(fresh \/ t.selected # tab.selected)
    BY <1>1, <2>2
  <2>3. QED
    BY <2>1, <2>2
<1>3. ShownIn(named, "view") = vv /\ ShownIn(named, "edit") = ee
  BY <1>2, SameShown
<1>4. PICK viewed : viewed = IF vv # v \/ (fresh /\ listing = "apps")
                             THEN DetailEffect(named) ELSE named
  OBVIOUS
<1>5. /\ viewed \in ListTab /\ TabFits(viewed, vv, e) /\ viewed.selected = t.selected
      /\ viewed.open = t.open /\ viewed.data = t.data
      /\ viewed.form.initial = t.form.initial
  BY <1>2, <1>3, <1>4, DetailEffectFits
<1>6. ShownIn(viewed, "view") = vv /\ ShownIn(viewed, "edit") = ee
  BY <1>5, SameShown
<1>7. PICK edited : edited = IF ee # e THEN FormEffect(viewed) ELSE viewed
  OBVIOUS
<1>8. /\ edited \in ListTab /\ TabFits(edited, vv, ee) /\ edited.selected = t.selected
      /\ edited.open = t.open /\ edited.data = t.data
      /\ edited.form.loaded => edited.form.initial = t.form.initial /\ ee = e
  BY <1>5, <1>6, <1>7, FormEffectFits
<1>9. tab' = Unmounted(edited) /\ listing' = listing /\ chores' = chores
  BY <1>1, <1>4, <1>7 DEF Render
<1>10. /\ tab' \in ListTab /\ TabFits(tab', vv, ee) /\ tab'.selected = t.selected
       /\ tab'.open = t.open /\ tab'.data = t.data
       /\ tab'.form.loaded => tab'.form.initial = t.form.initial /\ ee = e
  <2>1. CASE edited.selected # NoRow
    BY <1>8, <1>9, <2>1 DEF Unmounted
  <2>2. CASE edited.selected = NoRow
    <3>1. PICK pending \in SUBSET {"edit", "create", "delete"} : pending = edited.pending \cap {"create"}
      BY <1>8, TabType
    <3>2. NewForm \in EditForm /\ NewForm.rows = NewForm.initial /\ NewForm.loaded = FALSE
      BY DEF NewForm, EditForm
    <3>3. tab' = [edited EXCEPT !.form = NewForm, !.pending = pending]
      BY <1>8, <1>9, <2>2, <3>1 DEF Unmounted, ListTab
    <3>4. /\ tab' \in ListTab /\ tab'.queue = edited.queue /\ tab'.filter = edited.filter
          /\ tab'.selected = edited.selected /\ tab'.open = edited.open /\ tab'.form = NewForm
          /\ tab'.data = edited.data /\ tab'.detail = edited.detail
      BY <1>8, <3>1, <3>2, <3>3 DEF ListTab
    <3>5. TabFits(tab', vv, ee)
      BY <1>8, <3>2, <3>4 DEF TabFits
    <3>6. QED
      BY <1>8, <3>2, <3>4, <3>5
  <2>3. QED
    BY <2>1, <2>2
<1>11. ShownIn(tab', "view") = vv /\ ShownIn(tab', "edit") = ee
  BY <1>10, SameShown
<1>12. ListInv'
  <2>1. ListTypeOK'
    BY <1>9, <1>10 DEF ListTypeOK
  <2>2. TabFits(tab', ShownIn(tab', "view"), ShownIn(tab', "edit"))
    BY <1>10, <1>11
  <2>3. QED
    BY <2>1, <2>2 DEF ListInv
<1>13. QED
  BY <1>10, <1>11, <1>12

-----------------------------------------------------------------------------
(* The admin *)

\* What every step but the answers of searches, refreshes and forms leaves of the tab.
Quiet == /\ ListInv' /\ tab'.data = tab.data
         /\ tab'.form.loaded => tab'.form.initial = tab.form.initial

\* The tab as it is, before the next rendering.
LEMMA TabHolds ==
  ASSUME ListInv
  PROVE  /\ ListTypeOK /\ tab \in ListTab /\ stored \in [Entries -> Stored]
         /\ TabFits(tab, ShownIn(tab, "view"), ShownIn(tab, "edit"))
BY DEF ListInv, ListTypeOK

\* Clicks that open, close or select change nothing that fits.
LEMMA OpenedQuiet ==
  ASSUME ListInv, NEW selected \in EntryRow \cup {NoRow},
         NEW shown \in SUBSET {"view", "edit", "create", "delete"},
         Render([tab EXCEPT !.selected = selected, !.open = shown], FALSE), UNCHANGED stored
  PROVE  Quiet
<1>1. PICK t : t = [tab EXCEPT !.selected = selected, !.open = shown]
  OBVIOUS
<1>2. /\ t \in ListTab /\ t.queue = tab.queue /\ t.filter = tab.filter /\ t.form = tab.form
      /\ t.detail = tab.detail /\ t.data = tab.data
  BY <1>1, TabHolds DEF ListTab
<1>3. TabFits(t, ShownIn(tab, "view"), ShownIn(tab, "edit"))
  BY <1>2, TabHolds DEF TabFits
<1>4. QED
  BY <1>1, <1>2, <1>3, TabHolds, Rendered DEF Quiet

\* A change of the drawer's form that is touched whenever its rows are not the first.
LEMMA TypedQuiet ==
  ASSUME ListInv, NEW form \in EditForm, form.initial = tab.form.initial,
         form.rows # form.initial => form.touched,
         Render([tab EXCEPT !.form = form], FALSE), UNCHANGED stored
  PROVE  Quiet
<1>1. PICK t : t = [tab EXCEPT !.form = form]
  OBVIOUS
<1>2. /\ t \in ListTab /\ t.queue = tab.queue /\ t.filter = tab.filter /\ t.form = form
      /\ t.detail = tab.detail /\ t.data = tab.data
  BY <1>1, TabHolds DEF ListTab
<1>3. TabFits(t, ShownIn(tab, "view"), ShownIn(tab, "edit"))
  BY <1>2, TabHolds DEF TabFits
<1>4. QED
  BY <1>1, <1>2, <1>3, TabHolds, Rendered DEF Quiet

\* A call more, of a drawer that waits for it or of none.
LEMMA AskedQuiet ==
  ASSUME ListInv, NEW c \in ServerCall,
         CallFits(c, tab.filter, ShownIn(tab, "view"), ShownIn(tab, "edit")),
         NEW timer \in BOOLEAN, NEW pending \in SUBSET {"edit", "create", "delete"},
         Render([tab EXCEPT !.timer = timer, !.queue = Append(tab.queue, c),
                            !.pending = pending], FALSE),
         UNCHANGED stored
  PROVE  Quiet
<1>1. PICK s : s = [tab EXCEPT !.timer = timer, !.pending = pending]
  OBVIOUS
<1>2. /\ s \in ListTab /\ s.queue = tab.queue /\ s.filter = tab.filter /\ s.form = tab.form
      /\ s.detail = tab.detail /\ s.data = tab.data
  BY <1>1, TabHolds DEF ListTab
<1>3. TabFits(s, ShownIn(tab, "view"), ShownIn(tab, "edit"))
  BY <1>2, TabHolds DEF TabFits
<1>4. PICK t : t = [s EXCEPT !.queue = Append(s.queue, c)]
  OBVIOUS
<1>5. /\ t \in ListTab /\ TabFits(t, ShownIn(tab, "view"), ShownIn(tab, "edit"))
      /\ t.data = tab.data /\ t.form = tab.form
  BY <1>2, <1>3, <1>4, Queued
<1>6. t = [tab EXCEPT !.timer = timer, !.queue = Append(tab.queue, c), !.pending = pending]
  BY <1>1, <1>2, <1>4, TabHolds DEF ListTab
<1>7. QED
  BY <1>5, <1>6, TabHolds, Rendered DEF Quiet

\* With other filters the searches under way are of no one.
LEMMA FilterByQuiet ==
  ASSUME ListInv, NEW f \in Filter, FilterBy(f)
  PROVE  Quiet
<1>1. PICK queue \in Seq(ServerCall) : queue = Dropped(tab.queue, "search")
  BY TabHolds, TabType, DroppedType DEF Kinds
<1>2. PICK t : t = [tab EXCEPT !.filter = f, !.timer = TRUE, !.queue = queue]
  OBVIOUS
<1>3. /\ t \in ListTab /\ t.queue = queue /\ t.filter = f /\ t.form = tab.form
      /\ t.detail = tab.detail /\ t.data = tab.data
  BY <1>1, <1>2, TabHolds DEF ListTab
<1>4. ASSUME NEW i \in 1..Len(queue)
      PROVE  CallFits(queue[i], f, ShownIn(tab, "view"), ShownIn(tab, "edit"))
  <2>1. /\ queue[i].kind = tab.queue[i].kind /\ queue[i].row = tab.queue[i].row
        /\ queue[i].grants = tab.queue[i].grants /\ queue[i].meant = tab.queue[i].meant
        /\ queue[i].live => tab.queue[i].live /\ tab.queue[i].kind # "search"
    BY <1>1, TabHolds, TabType, DroppedType DEF Kinds
  <2>2. CallFits(tab.queue[i], tab.filter, ShownIn(tab, "view"), ShownIn(tab, "edit"))
    BY <1>1, TabHolds, TabType, DroppedType DEF TabFits, Kinds
  <2>3. QED
    BY <2>1, <2>2 DEF CallFits
<1>5. TabFits(t, ShownIn(tab, "view"), ShownIn(tab, "edit"))
  BY <1>3, <1>4, TabHolds DEF TabFits
<1>6. Render(t, FALSE) /\ UNCHANGED stored
  BY <1>1, <1>2 DEF FilterBy
<1>7. QED
  BY <1>3, <1>5, <1>6, TabHolds, Rendered DEF Quiet

LEMMA SearchQuiet ==
  ASSUME ListInv, NEW text \in BOOLEAN, Search(text)
  PROVE  Quiet
<1>1. [tab.filter EXCEPT !.text = text, !.page = 1] \in Filter
  <2>1. 1 \in 1..Cardinality(Entries)
    BY EntriesCounted
  <2>2. tab.filter \in Filter
    BY TabHolds, TabType
  <2>3. QED
    BY <2>1, <2>2 DEF Filter
<1>2. QED
  BY <1>1, FilterByQuiet DEF Search

LEMMA SetPageSizeQuiet ==
  ASSUME ListInv, NEW n \in PageSizes, SetPageSize(n)
  PROVE  Quiet
<1>1. [tab.filter EXCEPT !.size = n, !.page = 1] \in Filter
  <2>1. 1 \in 1..Cardinality(Entries)
    BY EntriesCounted
  <2>2. tab.filter \in Filter
    BY TabHolds, TabType
  <2>3. QED
    BY <2>1, <2>2 DEF Filter
<1>2. QED
  BY <1>1, FilterByQuiet DEF SetPageSize

\* There is a next page only where the list is longer than the pages up to this one.
LEMMA TurnPageQuiet ==
  ASSUME ListInv, TurnPage
  PROVE  Quiet
<1> DEFINE f == tab.filter
<1>1. /\ f \in Filter /\ f.page \in 1..Cardinality(Entries) /\ f.size \in PageSizes
      /\ f.page \in Nat /\ f.size \in Nat /\ f.size >= 1
  <2>1. f \in Filter
    BY TabHolds, TabType
  <2>2. f.page \in 1..Cardinality(Entries) /\ f.size \in PageSizes
    BY <2>1 DEF Filter
  <2>3. f.page \in Nat
    BY <2>2, EntriesCounted
  <2>4. f.size \in Nat /\ f.size >= 1
    <3>1. \A n \in PageSizes : n \in Nat /\ n # 0
      BY ListAssumption
    <3>2. PICK n \in PageSizes : n = f.size
      BY <2>2
    <3>3. n \in Nat /\ n # 0
      BY <3>1
    <3>4. n >= 1
      BY <3>3
    <3>5. QED
      BY <3>2, <3>3, <3>4
  <2>5. QED
    BY <2>1, <2>2, <2>3, <2>4
<1>2. CASE f.page > 1 /\ FilterBy([f EXCEPT !.page = f.page - 1])
  <2>1. [f EXCEPT !.page = f.page - 1] \in Filter
    <3>1. f.page - 1 \in 1..Cardinality(Entries)
      BY <1>1, <1>2, EntriesCounted
    <3>2. QED
      BY <1>1, <3>1 DEF Filter
  <2>2. QED
    BY <1>2, <2>1, FilterByQuiet
<1>3. CASE f.page * f.size < tab.data.total /\ FilterBy([f EXCEPT !.page = f.page + 1])
  <2>1. tab.data.total \in Nat /\ tab.data.total <= Cardinality(Entries)
    BY TabHolds, TabType DEF TabFits
  <2>2. ASSUME NEW p \in Nat, NEW n \in Nat, n >= 1
        PROVE  p * n \in Nat /\ p * n >= p
    <3>1. PICK m \in Nat : n = m + 1
      BY <2>2
    <3>2. p * n = p * m + p /\ p * m \in Nat
      BY <3>1
    <3>3. QED
      BY <3>2
  <2>3. f.page * f.size \in Nat /\ f.page * f.size >= f.page
    BY <1>1, <2>2
  <2>4. f.page + 1 \in 1..Cardinality(Entries)
    BY <1>1, <1>3, <2>1, <2>3, EntriesCounted
  <2>5. [f EXCEPT !.page = f.page + 1] \in Filter
    BY <1>1, <2>4 DEF Filter
  <2>6. QED
    BY <1>3, <2>5, FilterByQuiet
<1>4. QED
  BY <1>2, <1>3 DEF TurnPage

LEMMA TimerFiresQuiet ==
  ASSUME ListInv, TimerFires
  PROVE  Quiet
<1>1. PICK c \in ServerCall : c = ListCall("search", NoRow, tab.filter)
  BY TabHolds, TabType, ListCallType DEF Kinds
<1>2. CallFits(c, tab.filter, ShownIn(tab, "view"), ShownIn(tab, "edit"))
  BY <1>1 DEF ListCall, CallFits
<1>3. tab.pending \in SUBSET {"edit", "create", "delete"}
  BY TabHolds, TabType
<1>4. Ask([tab EXCEPT !.timer = FALSE], "search", NoRow)
        = [tab EXCEPT !.timer = FALSE, !.queue = Append(tab.queue, c), !.pending = tab.pending]
  BY <1>1, TabHolds DEF Ask, ListTab
<1>5. QED
  BY <1>2, <1>3, <1>4, AskedQuiet DEF TimerFires

LEMMA ChooseQuiet ==
  ASSUME ListInv, NEW row \in tab.data.items, NEW what \in Anything, Choose(row, what)
  PROVE  Quiet
<1>1. tab.data \in [items : SUBSET EntryRow, total : Nat]
  BY TabHolds, TabType
<1>2. row \in EntryRow
  BY <1>1
<1>3. tab.open \cup {what} \in SUBSET {"view", "edit", "create", "delete"}
  BY TabHolds, TabType DEF Anything
<1>4. QED
  BY <1>2, <1>3, OpenedQuiet DEF Choose

LEMMA PressInViewQuiet ==
  ASSUME ListInv, NEW what \in {"edit", "delete"}, PressInView(what)
  PROVE  Quiet
<1>1. PICK shown \in SUBSET {"view", "edit", "create", "delete"} :
        shown = IF what = "edit" THEN (tab.open \ {"view"}) \cup {"edit"}
                ELSE tab.open \cup {"delete"}
  <2>1. tab.open \in SUBSET {"view", "edit", "create", "delete"}
    BY TabHolds, TabType
  <2>2. (tab.open \ {"view"}) \cup {"edit"} \in SUBSET {"view", "edit", "create", "delete"}
    BY <2>1
  <2>3. tab.open \cup {"delete"} \in SUBSET {"view", "edit", "create", "delete"}
    BY <2>1
  <2>4. QED
    BY <2>2, <2>3, Zenon
<1>2. [tab EXCEPT !.open = shown] = [tab EXCEPT !.selected = tab.selected, !.open = shown]
  BY TabHolds DEF ListTab
<1>3. tab.selected \in EntryRow \cup {NoRow}
  BY TabHolds, TabType
<1>4. Render([tab EXCEPT !.selected = tab.selected, !.open = shown], FALSE) /\ UNCHANGED stored
  BY <1>1, <1>2 DEF PressInView
<1>5. QED
  BY <1>3, <1>4, OpenedQuiet

LEMMA OpenCreateQuiet ==
  ASSUME ListInv, OpenCreate
  PROVE  Quiet
<1>1. tab.open \cup {"create"} \in SUBSET {"view", "edit", "create", "delete"}
      /\ tab.selected \in EntryRow \cup {NoRow}
  BY TabHolds, TabType
<1>2. [tab EXCEPT !.open = tab.open \cup {"create"}]
        = [tab EXCEPT !.selected = tab.selected, !.open = tab.open \cup {"create"}]
  BY TabHolds DEF ListTab
<1>3. QED
  BY <1>1, <1>2, OpenedQuiet DEF OpenCreate

LEMMA CloseSheetQuiet ==
  ASSUME ListInv, NEW what, CloseSheet(what)
  PROVE  Quiet
<1>1. tab.open \ {what} \in SUBSET {"view", "edit", "create", "delete"}
      /\ tab.selected \in EntryRow \cup {NoRow}
  BY TabHolds, TabType
<1>2. [tab EXCEPT !.open = tab.open \ {what}]
        = [tab EXCEPT !.selected = tab.selected, !.open = tab.open \ {what}]
  BY TabHolds DEF ListTab
<1>3. QED
  BY <1>1, <1>2, OpenedQuiet DEF CloseSheet

LEMMA TypeNameQuiet ==
  ASSUME ListInv, TypeName
  PROVE  Quiet
<1>1. PICK form : form = [tab.form EXCEPT !.renamed = ~tab.form.renamed]
  OBVIOUS
<1>2. /\ form \in EditForm /\ form.initial = tab.form.initial /\ form.rows = tab.form.rows
      /\ form.touched = tab.form.touched /\ form.loaded = tab.form.loaded
  BY <1>1, TabHolds, TabType DEF EditForm
<1>3. form.rows # form.initial => form.touched
  BY <1>2, TabHolds DEF TabFits
<1>4. Render([tab EXCEPT !.form = form], FALSE) /\ UNCHANGED stored
  BY <1>1 DEF TypeName
<1>5. QED
  BY <1>2, <1>3, <1>4, TypedQuiet

LEMMA ChangeGrantsQuiet ==
  ASSUME ListInv, NEW grants \in SUBSET Grants, ChangeGrants(grants)
  PROVE  Quiet
<1>1. PICK form : form = [tab.form EXCEPT !.rows = grants, !.touched = TRUE]
  OBVIOUS
<1>2. form \in EditForm /\ form.initial = tab.form.initial /\ form.touched
  BY <1>1, TabHolds, TabType DEF EditForm
<1>3. [tab EXCEPT !.form.rows = grants, !.form.touched = TRUE] = [tab EXCEPT !.form = form]
  BY <1>1, TabHolds DEF ListTab, EditForm
<1>4. QED
  BY <1>2, <1>3, TypedQuiet DEF ChangeGrants

\* The permissions go along only if they are not the first ones, and so were touched.
LEMMA SubmitEditQuiet ==
  ASSUME ListInv, SubmitEdit
  PROVE  Quiet
<1>1. tab.selected.id \in Entries
  <2>1. tab.open \in SUBSET {"view", "edit", "create", "delete"}
        /\ tab.selected \in EntryRow \cup {NoRow}
    BY TabHolds, TabType
  <2>2. tab.selected # NoRow
    BY <2>1 DEF SubmitEdit, Visible
  <2>3. QED
    BY <2>1, <2>2 DEF EntryRow
<1>2. /\ tab.filter \in Filter /\ tab.form \in EditForm /\ tab.form.rows \in SUBSET Grants
      /\ tab.form.touched \in BOOLEAN /\ tab.form.loaded \in BOOLEAN
      /\ tab.pending \in SUBSET {"edit", "create", "delete"} /\ tab.timer \in BOOLEAN
  BY TabHolds, TabType DEF ListTab, EditForm
<1>3. tab.form.rows # tab.form.initial => tab.form.touched
  BY TabHolds DEF TabFits
<1>4. PICK grants \in (SUBSET Grants) \cup {NoRow} :
        grants = IF GrantsDirty THEN tab.form.rows ELSE NoRow
  BY <1>2
<1>5. PICK meant \in BOOLEAN : meant = tab.form.touched
  BY <1>2
<1>6. grants # NoRow => meant
  BY <1>3, <1>4, <1>5 DEF GrantsDirty
<1>7. PICK b \in ServerCall : b = ListCall("update", tab.selected.id, tab.filter)
  BY <1>1, <1>2, ListCallType DEF Kinds
<1>8. PICK c : c = [b EXCEPT !.grants = grants, !.meant = meant]
  OBVIOUS
<1>9. c \in ServerCall /\ c.kind = "update" /\ c.row = tab.selected.id /\ c.grants = grants
      /\ c.meant = meant
  <2>1. b.kind = "update" /\ b.row = tab.selected.id
    BY <1>7 DEF ListCall
  <2>2. QED
    BY <1>8, <2>1 DEF ServerCall
<1>10. CallFits(c, tab.filter, ShownIn(tab, "view"), ShownIn(tab, "edit"))
  BY <1>1, <1>6, <1>9 DEF CallFits
<1>11. PICK pending \in SUBSET {"edit", "create", "delete"} : pending = tab.pending \cup {"edit"}
  BY <1>2
<1>12. [tab EXCEPT !.queue = Append(tab.queue, c), !.pending = tab.pending \cup {"edit"}]
         = [tab EXCEPT !.timer = tab.timer, !.queue = Append(tab.queue, c), !.pending = pending]
  BY <1>11, TabHolds DEF ListTab
<1>13. Render([tab EXCEPT !.queue = Append(tab.queue, c), !.pending = tab.pending \cup {"edit"}], FALSE)
       /\ UNCHANGED stored
  BY <1>4, <1>5, <1>7, <1>8 DEF SubmitEdit
<1>14. QED
  BY <1>2, <1>9, <1>10, <1>12, <1>13, AskedQuiet

LEMMA SubmitCreateQuiet ==
  ASSUME ListInv, NEW grants \in SUBSET Grants, SubmitCreate(grants)
  PROVE  Quiet
<1>1. /\ tab.filter \in Filter /\ tab.timer \in BOOLEAN
      /\ tab.pending \in SUBSET {"edit", "create", "delete"}
  BY TabHolds, TabType DEF ListTab
<1>2. PICK b \in ServerCall : b = ListCall("create", NoRow, tab.filter)
  BY <1>1, ListCallType DEF Kinds
<1>3. PICK c : c = [b EXCEPT !.grants = grants]
  OBVIOUS
<1>4. c \in ServerCall /\ c.kind = "create" /\ c.grants = grants
  <2>1. b.kind = "create"
    BY <1>2 DEF ListCall
  <2>2. QED
    BY <1>3, <2>1 DEF ServerCall
<1>5. CallFits(c, tab.filter, ShownIn(tab, "view"), ShownIn(tab, "edit"))
  BY <1>4 DEF CallFits
<1>6. PICK pending \in SUBSET {"edit", "create", "delete"} : pending = tab.pending \cup {"create"}
  BY <1>1
<1>7. [tab EXCEPT !.queue = Append(tab.queue, c), !.pending = tab.pending \cup {"create"}]
         = [tab EXCEPT !.timer = tab.timer, !.queue = Append(tab.queue, c), !.pending = pending]
  BY <1>6, TabHolds DEF ListTab
<1>8. Render([tab EXCEPT !.queue = Append(tab.queue, c), !.pending = tab.pending \cup {"create"}], FALSE)
       /\ UNCHANGED stored
  BY <1>2, <1>3 DEF SubmitCreate
<1>9. QED
  BY <1>1, <1>4, <1>5, <1>7, <1>8, AskedQuiet

LEMMA ConfirmDeleteQuiet ==
  ASSUME ListInv, ConfirmDelete
  PROVE  Quiet
<1>1. tab.selected.id \in Entries
  <2>1. tab.open \in SUBSET {"view", "edit", "create", "delete"}
        /\ tab.selected \in EntryRow \cup {NoRow}
    BY TabHolds, TabType
  <2>2. tab.selected # NoRow
    BY <2>1 DEF ConfirmDelete, Visible
  <2>3. QED
    BY <2>1, <2>2 DEF EntryRow
<1>2. /\ tab.filter \in Filter /\ tab.timer \in BOOLEAN
      /\ tab.pending \in SUBSET {"edit", "create", "delete"}
  BY TabHolds, TabType DEF ListTab
<1>3. PICK c \in ServerCall : c = ListCall("delete", tab.selected.id, tab.filter)
  BY <1>1, <1>2, ListCallType DEF Kinds
<1>4. CallFits(c, tab.filter, ShownIn(tab, "view"), ShownIn(tab, "edit"))
  BY <1>1, <1>3 DEF ListCall, CallFits
<1>5. PICK pending \in SUBSET {"edit", "create", "delete"} : pending = tab.pending \cup {"delete"}
  BY <1>2
<1>6. [Ask(tab, "delete", tab.selected.id) EXCEPT !.pending = @ \cup {"delete"}]
         = [tab EXCEPT !.timer = tab.timer, !.queue = Append(tab.queue, c), !.pending = pending]
  <2>1. Ask(tab, "delete", tab.selected.id) = [tab EXCEPT !.queue = Append(tab.queue, c)]
    BY <1>3 DEF Ask
  <2>2. [tab EXCEPT !.queue = Append(tab.queue, c)].pending = tab.pending
    BY TabHolds DEF ListTab
  <2>3. QED
    BY <1>5, <2>1, <2>2, TabHolds DEF ListTab
<1>7. QED
  BY <1>2, <1>4, <1>6, AskedQuiet DEF ConfirmDelete

-----------------------------------------------------------------------------
(* The answers *)

\* The call whose turn it is, and the tab without it.
LEMMA PoppedFits ==
  ASSUME ListInv, tab.queue # <<>>
  PROVE  /\ Front \in ServerCall
         /\ CallFits(Front, tab.filter, ShownIn(tab, "view"), ShownIn(tab, "edit"))
         /\ Popped \in ListTab
         /\ TabFits(Popped, ShownIn(tab, "view"), ShownIn(tab, "edit"))
         /\ Popped.filter = tab.filter /\ Popped.form = tab.form /\ Popped.data = tab.data
         /\ Popped.detail = tab.detail /\ Popped.selected = tab.selected
         /\ Popped.open = tab.open /\ Popped.pending = tab.pending
<1>1. tab.queue \in Seq(ServerCall)
  BY TabHolds, TabType
<1>2. /\ Len(tab.queue) \in Nat /\ Len(tab.queue) >= 1
      /\ Head(tab.queue) = tab.queue[1] /\ tab.queue[1] \in ServerCall
      /\ Tail(tab.queue) \in Seq(ServerCall) /\ Len(Tail(tab.queue)) = Len(tab.queue) - 1
      /\ \A i \in 1..Len(Tail(tab.queue)) : Tail(tab.queue)[i] = tab.queue[i + 1]
  BY <1>1
<1>3. Front \in ServerCall /\ CallFits(Front, tab.filter, ShownIn(tab, "view"), ShownIn(tab, "edit"))
  BY <1>2, TabHolds DEF Front, TabFits
<1>4. PICK queue \in Seq(ServerCall) : queue = Tail(tab.queue)
  BY <1>2
<1>5. Popped = [tab EXCEPT !.queue = queue]
  BY <1>4 DEF Popped
<1>6. /\ Popped \in ListTab /\ Popped.queue = queue
      /\ Popped.filter = tab.filter /\ Popped.form = tab.form /\ Popped.data = tab.data
      /\ Popped.detail = tab.detail /\ Popped.selected = tab.selected
      /\ Popped.open = tab.open /\ Popped.pending = tab.pending
  BY <1>5, TabHolds DEF ListTab
<1>7. \A i \in 1..Len(queue) : i + 1 \in 1..Len(tab.queue) /\ queue[i] = tab.queue[i + 1]
  BY <1>2, <1>4
<1>8. TabFits(Popped, ShownIn(tab, "view"), ShownIn(tab, "edit"))
  BY <1>6, <1>7, TabHolds DEF TabFits
<1>9. QED
  BY <1>3, <1>6, <1>8

\* An answer that changes nothing but what is waited for.
LEMMA MissedQuiet ==
  ASSUME ListInv, tab.queue # <<>>, NEW pending \in SUBSET {"edit", "create", "delete"},
         Render([Popped EXCEPT !.pending = pending], FALSE), UNCHANGED stored
  PROVE  Quiet
<1>1. PICK t : t = [Popped EXCEPT !.pending = pending]
  OBVIOUS
<1>2. /\ t \in ListTab /\ t.queue = Popped.queue /\ t.filter = tab.filter /\ t.form = tab.form
      /\ t.detail = tab.detail /\ t.data = tab.data
  BY <1>1, PoppedFits DEF ListTab
<1>3. TabFits(t, ShownIn(tab, "view"), ShownIn(tab, "edit"))
  BY <1>2, PoppedFits DEF TabFits
<1>4. QED
  BY <1>1, <1>2, <1>3, TabHolds, Rendered DEF Quiet

LEMMA IgnoredQuiet ==
  ASSUME ListInv, tab.queue # <<>>, Render(Popped, FALSE), UNCHANGED stored
  PROVE  Quiet
<1>1. Popped = [Popped EXCEPT !.pending = Popped.pending]
      /\ Popped.pending \in SUBSET {"edit", "create", "delete"}
  BY PoppedFits DEF ListTab
<1>2. QED
  BY <1>1, MissedQuiet

\* The end of a call that changed something.
LEMMA RefreshedQuiet ==
  ASSUME ListInv, tab.queue # <<>>, NEW pending \in SUBSET {"edit", "create", "delete"},
         NEW closing, stored' \in [Entries -> Stored],
         Render(Refreshed([Popped EXCEPT !.pending = pending], closing), FALSE)
  PROVE  Quiet
<1>1. PICK c \in ServerCall : c = ListCall("refresh", NoRow, Front.asked)
  <2>1. Front.asked \in Filter
    BY PoppedFits DEF ServerCall
  <2>2. QED
    BY <2>1, ListCallType DEF Kinds
<1>2. CallFits(c, tab.filter, ShownIn(tab, "view"), ShownIn(tab, "edit"))
  BY <1>1 DEF ListCall, CallFits
<1>3. PICK shown \in SUBSET {"view", "edit", "create", "delete"} : shown = tab.open \ closing
  BY TabHolds, TabType
<1>4. PICK s : s = [Popped EXCEPT !.pending = pending, !.open = shown]
  OBVIOUS
<1>5. /\ s \in ListTab /\ s.queue = Popped.queue /\ s.filter = tab.filter /\ s.form = tab.form
      /\ s.detail = tab.detail /\ s.data = tab.data
  BY <1>4, PoppedFits DEF ListTab
<1>6. TabFits(s, ShownIn(tab, "view"), ShownIn(tab, "edit"))
  BY <1>5, PoppedFits DEF TabFits
<1>7. PICK t : t = [s EXCEPT !.queue = Append(s.queue, c)]
  OBVIOUS
<1>8. /\ t \in ListTab /\ TabFits(t, ShownIn(tab, "view"), ShownIn(tab, "edit"))
      /\ t.data = tab.data /\ t.form = tab.form
  BY <1>2, <1>5, <1>6, <1>7, Queued
<1>9. Refreshed([Popped EXCEPT !.pending = pending], closing) = t
  <2>1. PICK p : p = [Popped EXCEPT !.pending = pending]
    OBVIOUS
  <2>2. p \in ListTab /\ p.open = tab.open /\ p.queue = Popped.queue
    BY <2>1, PoppedFits DEF ListTab
  <2>3. Refreshed(p, closing) = [p EXCEPT !.open = shown, !.queue = Append(Popped.queue, c)]
    BY <1>1, <1>3, <2>2 DEF Refreshed
  <2>4. t = [p EXCEPT !.open = shown, !.queue = Append(Popped.queue, c)]
    BY <1>4, <1>5, <1>7, <2>1, PoppedFits DEF ListTab
  <2>5. QED
    BY <2>1, <2>3, <2>4
<1>10. QED
  BY <1>8, <1>9, TabHolds, Rendered DEF Quiet

LEMMA HearSearchLands ==
  ASSUME ListInv, HearSearch
  PROVE  /\ ListInv'
         /\ tab'.data # tab.data => Front.asked = tab.filter
         /\ tab'.form.loaded => tab'.form.initial = tab.form.initial
<1>1. tab.queue # <<>> /\ Front.kind = "search" /\ UNCHANGED stored
  BY DEF HearSearch, AtTurn
<1>2. CASE Render(Popped, FALSE)
  BY <1>1, <1>2, IgnoredQuiet DEF Quiet
<1>3. CASE Front.live /\ Render([Popped EXCEPT !.data = ListOf(Front.asked)], FALSE)
  <2>1. Front.asked \in Filter
    BY <1>1, PoppedFits DEF ServerCall
  <2>2. PICK answer : answer = ListOf(Front.asked)
    OBVIOUS
  <2>3. answer \in [items : SUBSET EntryRow, total : Nat] /\ answer.total <= Cardinality(Entries)
    BY <2>1, <2>2, TabHolds, ListOfType
  <2>4. PICK t : t = [Popped EXCEPT !.data = answer]
    OBVIOUS
  <2>5. /\ t \in ListTab /\ t.queue = Popped.queue /\ t.filter = tab.filter
        /\ t.form = tab.form /\ t.detail = tab.detail /\ t.data = answer
    BY <1>1, <2>3, <2>4, PoppedFits DEF ListTab
  <2>6. TabFits(t, ShownIn(tab, "view"), ShownIn(tab, "edit"))
    BY <1>1, <2>3, <2>5, PoppedFits DEF TabFits
  <2>7. Front.asked = tab.filter
    BY <1>1, <1>3, PoppedFits DEF CallFits
  <2>8. Render(t, FALSE)
    BY <1>3, <2>2, <2>4
  <2>9. QED
    BY <1>1, <2>5, <2>6, <2>7, <2>8, TabHolds, Rendered
<1>4. QED
  BY <1>2, <1>3 DEF HearSearch

LEMMA HearRefreshLands ==
  ASSUME ListInv, HearRefresh
  PROVE  ListInv' /\ (tab'.form.loaded => tab'.form.initial = tab.form.initial)
<1> DEFINE answer == ListOf(Front.asked)
           again == {row \in answer.items : tab.selected # NoRow /\ row.id = tab.selected.id}
<1>1. tab.queue # <<>> /\ UNCHANGED stored
  BY DEF HearRefresh, AtTurn
<1>2. CASE Render(Popped, FALSE)
  BY <1>1, <1>2, IgnoredQuiet DEF Quiet
<1>3. CASE Render([Popped EXCEPT !.data = answer,
                     !.selected = IF again = {} THEN NoRow ELSE CHOOSE row \in again : TRUE], TRUE)
  <2>1. Front.asked \in Filter
    BY <1>1, PoppedFits DEF ServerCall
  <2>2. /\ answer \in [items : SUBSET EntryRow, total : Nat] /\ answer.total <= Cardinality(Entries)
        /\ \A row \in answer.items : row \in EntryRow
    BY <2>1, TabHolds, ListOfType
  <2>3. PICK list : list = answer
    OBVIOUS
  <2>4. PICK selected \in EntryRow \cup {NoRow} :
          selected = IF again = {} THEN NoRow ELSE CHOOSE row \in again : TRUE
    <3>1. CASE again = {}
      BY <3>1
    <3>2. CASE again # {}
      <4>1. (CHOOSE row \in again : TRUE) \in again
        BY <3>2
      <4>2. QED
        BY <3>2, <4>1, <2>2
    <3>3. QED
      BY <3>1, <3>2
  <2>5. PICK t : t = [Popped EXCEPT !.data = list, !.selected = selected]
    OBVIOUS
  <2>6. Render(t, TRUE)
    BY <1>3, <2>3, <2>4, <2>5
  <2> HIDE DEF answer, again
  <2>7. /\ t \in ListTab /\ t.queue = Popped.queue /\ t.filter = tab.filter
        /\ t.form = tab.form /\ t.detail = tab.detail /\ t.data = list
    BY <1>1, <2>2, <2>3, <2>4, <2>5, PoppedFits DEF ListTab
  <2>8. TabFits(t, ShownIn(tab, "view"), ShownIn(tab, "edit"))
    BY <1>1, <2>2, <2>3, <2>7, PoppedFits DEF TabFits
  <2>9. QED
    BY <1>1, <2>6, <2>7, <2>8, TabHolds, Rendered
<1>4. QED
  BY <1>2, <1>3 DEF HearRefresh

LEMMA HearDetailQuiet ==
  ASSUME ListInv, HearDetail
  PROVE  Quiet
<1>1. tab.queue # <<>> /\ Front.kind = "detail" /\ UNCHANGED stored
  BY DEF HearDetail, AtTurn
<1>2. CASE Render(Popped, FALSE)
  BY <1>1, <1>2, IgnoredQuiet
<1>3. CASE Front.live /\ Live(Front.row) /\ Render([Popped EXCEPT !.detail = RowOf(Front.row)], FALSE)
  <2>1. Front.row \in Entries /\ Front.row = ShownIn(tab, "view")
    BY <1>1, <1>3, PoppedFits DEF CallFits
  <2>2. PICK row \in EntryRow : row = RowOf(Front.row) /\ row.id = ShownIn(tab, "view")
    <3>1. stored[Front.row].used \in BOOLEAN
      BY <2>1, TabHolds DEF Stored
    <3>2. RowOf(Front.row) \in EntryRow
      BY <2>1, <3>1 DEF RowOf, EntryRow
    <3>3. RowOf(Front.row).id = ShownIn(tab, "view")
      BY <2>1 DEF RowOf
    <3>4. QED
      BY <3>2, <3>3
  <2>3. PICK t : t = [Popped EXCEPT !.detail = row]
    OBVIOUS
  <2>4. /\ t \in ListTab /\ t.queue = Popped.queue /\ t.filter = tab.filter
        /\ t.form = tab.form /\ t.detail = row /\ t.data = tab.data
    BY <1>1, <2>2, <2>3, PoppedFits DEF ListTab
  <2>5. TabFits(t, ShownIn(tab, "view"), ShownIn(tab, "edit"))
    BY <1>1, <2>2, <2>4, PoppedFits DEF TabFits
  <2>6. Render(t, FALSE)
    BY <1>3, <2>2, <2>3
  <2>7. QED
    BY <1>1, <2>4, <2>5, <2>6, TabHolds, Rendered DEF Quiet
<1>4. QED
  BY <1>2, <1>3 DEF HearDetail

\* A form is loaded with the permissions of the row that the edit drawer is open for.
LEMMA HearFormLands ==
  ASSUME ListInv, HearForm
  PROVE  /\ ListInv' /\ tab'.data = tab.data
         /\ tab'.form.loaded /\ tab'.form.initial # tab.form.initial
              => Front.row = ShownIn(tab', "edit")
<1>1. tab.queue # <<>> /\ Front.kind = "form" /\ UNCHANGED stored
  BY DEF HearForm, AtTurn
<1>2. PICK form : form = IF Front.live THEN [tab.form EXCEPT !.loading = FALSE] ELSE tab.form
  OBVIOUS
<1>3. /\ form \in EditForm /\ form.initial = tab.form.initial /\ form.rows = tab.form.rows
      /\ form.touched = tab.form.touched /\ form.loaded = tab.form.loaded
  <2>1. tab.form \in EditForm
    BY TabHolds, TabType
  <2>2. CASE Front.live
    BY <1>2, <2>1, <2>2 DEF EditForm
  <2>3. CASE ~Front.live
    BY <1>2, <2>1, <2>3
  <2>4. QED
    BY <2>2, <2>3
<1>4. PICK heard : heard = [Popped EXCEPT !.form = form]
  OBVIOUS
<1>5. /\ heard \in ListTab /\ heard.queue = Popped.queue /\ heard.filter = tab.filter
      /\ heard.form = form /\ heard.detail = tab.detail /\ heard.data = tab.data
  BY <1>1, <1>3, <1>4, PoppedFits DEF ListTab
<1>6. TabFits(heard, ShownIn(tab, "view"), ShownIn(tab, "edit"))
  BY <1>1, <1>3, <1>5, PoppedFits DEF TabFits
<1>7. heard = IF Front.live THEN [Popped EXCEPT !.form.loading = FALSE] ELSE Popped
  <2>1. Popped \in ListTab /\ Popped.form = tab.form
    BY <1>1, PoppedFits
  <2>2. CASE Front.live
    BY <1>2, <1>4, <2>1, <2>2 DEF ListTab, EditForm
  <2>3. CASE ~Front.live
    BY <1>2, <1>4, <2>1, <2>3 DEF ListTab
  <2>4. QED
    BY <2>2, <2>3
<1>8. CASE Render(heard, FALSE)
  BY <1>1, <1>3, <1>5, <1>6, <1>8, TabHolds, Rendered
<1>9. CASE /\ Front.live /\ Live(Front.row)
           /\ Render([heard EXCEPT !.form.initial = stored[Front.row].grants,
                                   !.form.rows = stored[Front.row].grants,
                                   !.form.touched = FALSE, !.form.loaded = TRUE], FALSE)
  <2>1. Front.row \in Entries /\ Front.row = ShownIn(tab, "edit")
    BY <1>1, <1>9, PoppedFits DEF CallFits
  <2>2. PICK grants \in SUBSET Grants : grants = stored[Front.row].grants
    BY <2>1, TabHolds DEF Stored
  <2>3. PICK full : full = [form EXCEPT !.initial = grants, !.rows = grants,
                                  !.touched = FALSE, !.loaded = TRUE]
    OBVIOUS
  <2>4. full \in EditForm /\ full.rows = full.initial
    BY <1>3, <2>2, <2>3 DEF EditForm
  <2>5. PICK t : t = [heard EXCEPT !.form = full]
    OBVIOUS
  <2>6. /\ t \in ListTab /\ t.queue = heard.queue /\ t.filter = tab.filter
        /\ t.form = full /\ t.detail = tab.detail /\ t.data = tab.data
    BY <1>5, <2>4, <2>5 DEF ListTab
  <2>7. TabFits(t, ShownIn(tab, "view"), ShownIn(tab, "edit"))
    BY <1>5, <1>6, <2>4, <2>6 DEF TabFits
  <2>8. t = [heard EXCEPT !.form.initial = stored[Front.row].grants,
                          !.form.rows = stored[Front.row].grants,
                          !.form.touched = FALSE, !.form.loaded = TRUE]
    BY <1>3, <1>5, <2>2, <2>3, <2>5 DEF ListTab, EditForm
  <2>9. Render(t, FALSE)
    BY <1>9, <2>8
  <2>10. QED
    BY <1>1, <2>1, <2>6, <2>7, <2>9, TabHolds, Rendered
<1>10. QED
  BY <1>7, <1>8, <1>9 DEF HearForm

LEMMA HearUpdateQuiet ==
  ASSUME ListInv, HearUpdate
  PROVE  Quiet
<1>1. tab.queue # <<>> /\ Front.kind = "update"
  BY DEF HearUpdate, AtTurn
<1>2. PICK pending \in SUBSET {"edit", "create", "delete"} : pending = tab.pending \ {"edit"}
  BY TabHolds, TabType
<1>3. [Popped EXCEPT !.pending = @ \ {"edit"}] = [Popped EXCEPT !.pending = pending]
  BY <1>1, <1>2, PoppedFits
<1>4. CASE Render([Popped EXCEPT !.pending = pending], FALSE) /\ UNCHANGED stored
  BY <1>1, <1>4, MissedQuiet
<1>5. CASE /\ stored' = [stored EXCEPT ![Front.row].grants =
                           IF Front.grants = NoRow THEN @ ELSE Front.grants]
           /\ Render(Refreshed([Popped EXCEPT !.pending = pending], {"edit"}), FALSE)
  <2>1. Front.row \in Entries /\ Front.grants \in (SUBSET Grants) \cup {NoRow}
    BY <1>1, PoppedFits DEF CallFits, ServerCall
  <2>2. PICK grants \in SUBSET Grants :
          grants = IF Front.grants = NoRow THEN stored[Front.row].grants ELSE Front.grants
    BY <2>1, TabHolds DEF Stored
  <2>3. [stored[Front.row] EXCEPT !.grants = grants] \in Stored
    BY <2>1, TabHolds DEF Stored
  <2>4. stored' \in [Entries -> Stored]
    BY <1>5, <2>1, <2>2, <2>3, TabHolds
  <2>5. QED
    BY <1>1, <1>5, <2>4, RefreshedQuiet
<1>6. QED
  BY <1>3, <1>4, <1>5 DEF HearUpdate

LEMMA HearCreateQuiet ==
  ASSUME ListInv, HearCreate
  PROVE  Quiet
<1>1. tab.queue # <<>> /\ Front.kind = "create"
  BY DEF HearCreate, AtTurn
<1>2. PICK pending \in SUBSET {"edit", "create", "delete"} : pending = tab.pending \ {"create"}
  BY TabHolds, TabType
<1>3. [Popped EXCEPT !.pending = @ \ {"create"}] = [Popped EXCEPT !.pending = pending]
  BY <1>1, <1>2, PoppedFits
<1>4. CASE Render([Popped EXCEPT !.pending = pending], FALSE) /\ UNCHANGED stored
  BY <1>1, <1>4, MissedQuiet
<1>5. ASSUME NEW r \in Entries,
             stored' = [stored EXCEPT ![r] = [state |-> "live", used |-> FALSE, grants |-> Front.grants]],
             Render(Refreshed([Popped EXCEPT !.pending = pending], {"create"}), FALSE)
      PROVE  Quiet
  <2>1. Front.grants \in SUBSET Grants
    BY <1>1, PoppedFits DEF CallFits
  <2>2. [state |-> "live", used |-> FALSE, grants |-> Front.grants] \in Stored
    BY <2>1 DEF Stored
  <2>3. stored' \in [Entries -> Stored]
    BY <1>5, <2>2, TabHolds
  <2>4. QED
    BY <1>1, <1>5, <2>3, RefreshedQuiet
<1>6. QED
  BY <1>3, <1>4, <1>5 DEF HearCreate

LEMMA HearDeleteQuiet ==
  ASSUME ListInv, HearDelete
  PROVE  Quiet
<1>1. tab.queue # <<>> /\ Front.kind = "delete"
  BY DEF HearDelete, AtTurn
<1>2. PICK pending \in SUBSET {"edit", "create", "delete"} : pending = tab.pending \ {"delete"}
  BY TabHolds, TabType
<1>3. [Popped EXCEPT !.pending = @ \ {"delete"}] = [Popped EXCEPT !.pending = pending]
  BY <1>1, <1>2, PoppedFits
<1>4. CASE Render([Popped EXCEPT !.pending = pending], FALSE) /\ UNCHANGED stored
  BY <1>1, <1>4, MissedQuiet
<1>5. CASE /\ stored' = [stored EXCEPT ![Front.row].state = "gone"]
           /\ Render(Refreshed([Popped EXCEPT !.pending = pending], {"delete", "view"}), FALSE)
  <2>1. Front.row \in Entries
    BY <1>1, PoppedFits DEF CallFits
  <2>2. [stored[Front.row] EXCEPT !.state = "gone"] \in Stored
    BY <2>1, TabHolds DEF Stored
  <2>3. stored' \in [Entries -> Stored]
    BY <1>5, <2>1, <2>2, TabHolds
  <2>4. QED
    BY <1>1, <1>5, <2>3, RefreshedQuiet
<1>6. QED
  BY <1>3, <1>4, <1>5 DEF HearDelete

LEMMA ChangedElsewhereQuiet ==
  ASSUME ListInv, NEW r \in Entries, ChangedElsewhere(r)
  PROVE  Quiet
<1>1. stored' \in [Entries -> Stored]
  <2>1. [stored[r] EXCEPT !.used = ~stored[r].used] \in Stored
        /\ [stored[r] EXCEPT !.state = "gone"] \in Stored
    BY TabHolds DEF Stored
  <2>2. \A grants \in SUBSET Grants : [stored[r] EXCEPT !.grants = grants] \in Stored
    BY TabHolds DEF Stored
  <2>3. QED
    BY <2>1, <2>2, TabHolds DEF ChangedElsewhere
<1>2. UNCHANGED <<listing, chores, tab>>
  BY DEF ChangedElsewhere
<1>3. QED
  BY <1>1, <1>2 DEF Quiet, ListInv, ListTypeOK, TabFits, CallFits, ShownIn, Visible

-----------------------------------------------------------------------------
(* The list pages *)

LEMMA ListInitInv ==
  ASSUME ListInit
  PROVE  ListInv
<1>1. listing \in DOMAIN Chores /\ chores \in Chores[listing]
  BY DEF ListInit
<1>2. stored \in [Entries -> Stored]
  BY DEF ListInit, Stored, NewRow
<1>3. PICK size \in PageSizes :
        LET f == [text |-> FALSE, page |-> 1, size |-> size] IN
        tab = [filter |-> f, timer |-> FALSE, queue |-> <<>>, data |-> ListOf(f),
               selected |-> NoRow, open |-> {}, pending |-> {}, detail |-> NoRow,
               form |-> NewForm]
  BY DEF ListInit
<1>4. PICK f \in Filter : f = [text |-> FALSE, page |-> 1, size |-> size]
  <2>1. 1 \in 1..Cardinality(Entries)
    BY EntriesCounted
  <2>2. QED
    BY <2>1 DEF Filter
<1>5. PICK list : list = ListOf(f)
  OBVIOUS
<1>6. list \in [items : SUBSET EntryRow, total : Nat] /\ list.total <= Cardinality(Entries)
  BY <1>2, <1>5, ListOfType
<1>7. tab = [filter |-> f, timer |-> FALSE, queue |-> <<>>, data |-> list,
             selected |-> NoRow, open |-> {}, pending |-> {}, detail |-> NoRow,
             form |-> NewForm]
  BY <1>3, <1>4, <1>5
<1>8. NewForm \in EditForm /\ NewForm.rows = NewForm.initial
  BY DEF NewForm, EditForm
<1>9. <<>> \in Seq(ServerCall) /\ Len(<<>>) = 0
  OBVIOUS
<1>10. tab \in ListTab
  BY <1>6, <1>7, <1>8, <1>9 DEF ListTab
<1>11. tab.queue = <<>> /\ tab.detail = NoRow /\ tab.form = NewForm /\ tab.data = list
  BY <1>7
<1>12. TabFits(tab, ShownIn(tab, "view"), ShownIn(tab, "edit"))
  BY <1>6, <1>8, <1>9, <1>11 DEF TabFits
<1>13. QED
  BY <1>1, <1>2, <1>10, <1>12 DEF ListInv, ListTypeOK

\* Nearly every step leaves the list and what the form was loaded with.
LEMMA ListNextLands ==
  ASSUME ListInv, [ListNext]_listVars
  PROVE  \/ Quiet \/ HearSearch \/ HearRefresh \/ HearForm
<1>1. CASE UNCHANGED listVars
  BY <1>1 DEF listVars, Quiet, ListInv, ListTypeOK, TabFits, CallFits, ShownIn, Visible
<1>2. ASSUME NEW text \in BOOLEAN, Search(text)
      PROVE  Quiet
  BY <1>2, SearchQuiet
<1>3. ASSUME NEW n \in PageSizes, SetPageSize(n)
      PROVE  Quiet
  BY <1>3, SetPageSizeQuiet
<1>4. CASE TurnPage
  BY <1>4, TurnPageQuiet
<1>5. CASE TimerFires
  BY <1>5, TimerFiresQuiet
<1>6. ASSUME NEW row \in tab.data.items, NEW what \in Anything, Choose(row, what)
      PROVE  Quiet
  BY <1>6, ChooseQuiet
<1>7. ASSUME NEW what \in {"edit", "delete"}, PressInView(what)
      PROVE  Quiet
  BY <1>7, PressInViewQuiet
<1>8. ASSUME NEW what \in {"view", "edit", "create", "delete"}, CloseSheet(what)
      PROVE  Quiet
  BY <1>8, CloseSheetQuiet
<1>9. ASSUME NEW grants \in SUBSET Grants, ChangeGrants(grants) \/ SubmitCreate(grants)
      PROVE  Quiet
  BY <1>9, ChangeGrantsQuiet, SubmitCreateQuiet
<1>10. CASE OpenCreate \/ TypeName \/ SubmitEdit \/ ConfirmDelete
  BY <1>10, OpenCreateQuiet, TypeNameQuiet, SubmitEditQuiet, ConfirmDeleteQuiet
<1>11. CASE HearDetail \/ HearUpdate \/ HearCreate \/ HearDelete
  BY <1>11, HearDetailQuiet, HearUpdateQuiet, HearCreateQuiet, HearDeleteQuiet
<1>12. ASSUME NEW r \in Entries, ChangedElsewhere(r)
       PROVE  Quiet
  BY <1>12, ChangedElsewhereQuiet
<1>13. QED
  BY <1>1, <1>2, <1>3, <1>4, <1>5, <1>6, <1>7, <1>8, <1>9, <1>10, <1>11, <1>12, Zenon DEF ListNext

LEMMA ListNextInv ==
  ASSUME ListInv, [ListNext]_listVars
  PROVE  ListInv'
BY ListNextLands, HearSearchLands, HearRefreshLands, HearFormLands DEF Quiet

LEMMA ListInvAlways == ListSpec => []ListInv
<1>1. ListInit => ListInv
  BY ListInitInv
<1>2. ListInv /\ [ListNext]_listVars => ListInv'
  BY ListNextInv
<1>3. QED
  BY <1>1, <1>2, PTL DEF ListSpec

\* The list pages' variables keep their types, whatever is clicked in whatever order and
\* however late the server's answers come.
THEOREM ListTypeCorrect == ListSpec => []ListTypeOK
<1>1. ListInv => ListTypeOK
  BY DEF ListInv
<1>2. QED
  BY <1>1, ListInvAlways, PTL

LEMMA AnswersLand ==
  ASSUME ListInv, [ListNext]_listVars
  PROVE  LET answered == tab.queue # <<>> /\ tab'.queue = Tail(tab.queue) IN
         /\ AtTurn("search") /\ answered /\ tab'.data # tab.data => Front.asked = tab.filter
         /\ tab'.detail \notin {NoRow, tab.detail} => tab'.detail.id = ShownIn(tab', "view")
         /\ tab'.form.initial # tab.form.initial /\ tab'.form.loaded
              => Front.row = ShownIn(tab', "edit")
<1>1. TabFits(tab, ShownIn(tab, "view"), ShownIn(tab, "edit"))'
  BY ListNextInv DEF ListInv
<1>2. tab'.detail # NoRow => tab'.detail.id = ShownIn(tab', "view")
  BY <1>1 DEF TabFits
<1>3. AtTurn("search") /\ tab'.data # tab.data => Front.asked = tab.filter
  <2>1. CASE Quiet
    BY <2>1 DEF Quiet
  <2>2. CASE HearSearch
    BY <2>2, HearSearchLands
  <2>3. CASE HearRefresh
    BY <2>3 DEF HearRefresh, AtTurn
  <2>4. CASE HearForm
    BY <2>4, HearFormLands
  <2>5. QED
    BY <2>1, <2>2, <2>3, <2>4, ListNextLands
<1>4. tab'.form.initial # tab.form.initial /\ tab'.form.loaded => Front.row = ShownIn(tab', "edit")
  <2>1. CASE Quiet
    BY <2>1 DEF Quiet
  <2>2. CASE HearSearch
    BY <2>2, HearSearchLands
  <2>3. CASE HearRefresh
    BY <2>3, HearRefreshLands
  <2>4. CASE HearForm
    BY <2>4, HearFormLands
  <2>5. QED
    BY <2>1, <2>2, <2>3, <2>4, ListNextLands
<1>5. QED
  BY <1>2, <1>3, <1>4

\* An answer lands only where it belongs: the rows of a search in the list whose filters
\* it was called with, the details of a row in the drawer that shows it, the permissions
\* of a role in the form that is open for it.
THEOREM AnswersAlwaysLandRight == ListSpec => AnswersLandRight
<1>1. ListInv /\ [ListNext]_listVars =>
        [LET answered == tab.queue # <<>> /\ tab'.queue = Tail(tab.queue) IN
         /\ AtTurn("search") /\ answered /\ tab'.data # tab.data => Front.asked = tab.filter
         /\ tab'.detail \notin {NoRow, tab.detail} => tab'.detail.id = ShownIn(tab', "view")
         /\ tab'.form.initial # tab.form.initial /\ tab'.form.loaded
              => Front.row = ShownIn(tab', "edit")]_listVars
  BY AnswersLand
<1>2. QED
  BY <1>1, ListInvAlways, PTL DEF ListSpec, AnswersLandRight

LEMMA SavesSpareGrants ==
  ASSUME ListInv, [ListNext]_listVars
  PROVE  [GrantsSpared]_listVars
<1>1. SUFFICES ASSUME NEW r \in Entries, stored'[r].grants # stored[r].grants, tab' # tab
               PROVE  Front.meant \/ Front.kind = "create"
  BY DEF GrantsSpared
<1>2. stored \in [Entries -> Stored] /\ ~UNCHANGED stored
  BY <1>1, TabHolds
<1>3. CASE HearUpdate
  <2>1. tab.queue # <<>> /\ Front.kind = "update"
    BY <1>3 DEF HearUpdate, AtTurn
  <2>2. Front.row \in Entries /\ (Front.grants # NoRow => Front.meant)
    BY <2>1, PoppedFits DEF CallFits
  <2>3. stored' = [stored EXCEPT ![Front.row].grants =
                     IF Front.grants = NoRow THEN @ ELSE Front.grants]
    BY <1>2, <1>3 DEF HearUpdate
  <2>4. Front.grants # NoRow
    BY <1>1, <1>2, <2>2, <2>3 DEF Stored
  <2>5. QED
    BY <2>2, <2>4
<1>4. CASE HearCreate
  BY <1>4 DEF HearCreate, AtTurn
<1>5. CASE HearDelete
  <2>1. tab.queue # <<>> /\ Front.kind = "delete"
    BY <1>5 DEF HearDelete, AtTurn
  <2>2. Front.row \in Entries
    BY <2>1, PoppedFits DEF CallFits
  <2>3. stored' = [stored EXCEPT ![Front.row].state = "gone"]
    BY <1>2, <1>5 DEF HearDelete
  <2>4. stored'[r].grants = stored[r].grants
    BY <1>2, <2>2, <2>3 DEF Stored
  <2>5. QED
    BY <1>1, <2>4
<1>6. ASSUME NEW q \in Entries, ChangedElsewhere(q)
      PROVE  FALSE
  BY <1>1, <1>6 DEF ChangedElsewhere
<1>7. QED
  BY <1>2, <1>3, <1>4, <1>5, <1>6
     DEF ListNext, listVars, Search, SetPageSize, FilterBy, TurnPage, TimerFires, Choose,
         PressInView, CloseSheet, ChangeGrants, SubmitCreate, OpenCreate, TypeName, SubmitEdit,
         ConfirmDelete, HearSearch, HearRefresh, HearDetail, HearForm

\* A save has permissions only if the admin changed rows that the drawer still shows, so
\* the edit of a name alone never puts back those that a role had when it was opened.
THEOREM GrantsAreSpared == ListSpec => [][GrantsSpared]_listVars
<1>1. ListInv /\ [ListNext]_listVars => [GrantsSpared]_listVars
  BY SavesSpareGrants
<1>2. QED
  BY <1>1, ListInvAlways, PTL DEF ListSpec

-----------------------------------------------------------------------------
(* The user's drawer *)

UserCalls == [call : {"load", "write", "refetch"}, user : People]

\* A save has one call under way: the writes while axes are left, then the refetch.
QueueFits(q, save) ==
  /\ \A i \in 1..Len(q) : q[i].call = "write" => save.left # {} /\ save.user \in People
  /\ \A i \in 1..Len(q) : q[i].call = "refetch" => save.left = {} /\ save.user \in People
  /\ \A i, j \in 1..Len(q) : q[i].call # "load" /\ q[j].call # "load" => i = j

LoadsOnly(q) == \A i \in 1..Len(q) : q[i].call = "load"

\* What is sent was edited.
SaveFits(save) ==
  /\ save.left \subseteq save.dirty /\ save.dirty \subseteq save.meant
  /\ save = NoSave \/ save.user \in People

\* What differs from its snapshot was edited, except between the last answer to a save
\* and the refetch, when another save cannot begin.
EditsKnown(v) ==
  \/ \A x \in Axes : v.rows[x] # v.snap[x] => x \in v.touched
  \/ v.save.left = {} /\ v.save.user \in People

ViewFits(v) ==
  /\ v.open \/ v.editing => v.user \in People
  /\ QueueFits(v.queue, v.save) /\ SaveFits(v.save) /\ EditsKnown(v)

UserDrawerInv ==
  /\ DrawerTypeOK
  /\ \A e \in Editors : ViewFits(view[e])

LEMMA LoadAppended ==
  ASSUME NEW q \in Seq(UserCalls), NEW c \in UserCalls, NEW save, c.call = "load",
         QueueFits(q, save)
  PROVE  Append(q, c) \in Seq(UserCalls) /\ QueueFits(Append(q, c), save)
<1>1. /\ Append(q, c) \in Seq(UserCalls) /\ Len(Append(q, c)) = Len(q) + 1
      /\ Append(q, c)[Len(q) + 1] = c /\ \A i \in 1..Len(q) : Append(q, c)[i] = q[i]
      /\ Len(q) \in Nat
  OBVIOUS
<1>2. QED
  BY <1>1 DEF QueueFits

LEMMA CallAppended ==
  ASSUME NEW q \in Seq(UserCalls), NEW c \in UserCalls, NEW save, LoadsOnly(q),
         c.call = "write" => save.left # {}, c.call = "refetch" => save.left = {},
         save.user \in People
  PROVE  Append(q, c) \in Seq(UserCalls) /\ QueueFits(Append(q, c), save)
<1>1. /\ Append(q, c) \in Seq(UserCalls) /\ Len(Append(q, c)) = Len(q) + 1
      /\ Append(q, c)[Len(q) + 1] = c /\ \A i \in 1..Len(q) : Append(q, c)[i] = q[i]
      /\ Len(q) \in Nat
  OBVIOUS
<1>2. QED
  BY <1>1 DEF QueueFits, LoadsOnly

LEMMA TailFits ==
  ASSUME NEW q \in Seq(UserCalls), q # <<>>, NEW save, QueueFits(q, save)
  PROVE  /\ Tail(q) \in Seq(UserCalls) /\ QueueFits(Tail(q), save)
         /\ Head(q) \in UserCalls /\ (Head(q).call # "load" => LoadsOnly(Tail(q)))
         /\ Head(q).call = "write" => save.left # {} /\ save.user \in People
         /\ Head(q).call = "refetch" => save.left = {} /\ save.user \in People
<1>1. /\ Tail(q) \in Seq(UserCalls) /\ Len(q) \in Nat /\ Len(q) > 0 /\ Len(Tail(q)) = Len(q) - 1
      /\ \A i \in 1..(Len(q) - 1) : Tail(q)[i] = q[i + 1] /\ i + 1 \in 1..Len(q)
      /\ Head(q) = q[1] /\ 1 \in 1..Len(q) /\ q[1] \in UserCalls
  BY HeadTailProperties
<1>2. QueueFits(Tail(q), save)
  BY <1>1 DEF QueueFits
<1>3. ASSUME Head(q).call # "load", NEW i \in 1..Len(Tail(q)) PROVE Tail(q)[i].call = "load"
  BY <1>1, <1>3 DEF QueueFits
<1>4. QED
  BY <1>1, <1>2, <1>3 DEF QueueFits, LoadsOnly

LEMMA NoSaveType ==
  NoSave \in Save /\ NoSave.left = {} /\ SaveFits(NoSave) /\ NoSave.user \notin People
BY DrawerAssumption DEF NoSave, Save, Sets, Axes, SaveFits

\* Between two saves there is nothing but loads.
LEMMA ViewAtRest ==
  ASSUME NEW q \in Seq(UserCalls), NEW save, QueueFits(q, save), save.user \notin People
  PROVE  LoadsOnly(q)
<1>1. \A i \in 1..Len(q) : q[i] \in UserCalls
  OBVIOUS
<1>2. \A i \in 1..Len(q) : q[i].call \in {"load", "write", "refetch"}
  BY <1>1 DEF UserCalls
<1>3. QED
  BY <1>2 DEF QueueFits, LoadsOnly

LEMMA NextAxisLeft ==
  ASSUME NEW save \in Save, save.left # {}
  PROVE  NextAxis(save) \in save.left /\ NextAxis(save) \in Axes
BY DrawerAssumption DEF NextAxis, Save, Axes

LEMMA SnapshotType ==
  ASSUME NEW v \in View, v.editing => v.user \in People
  PROVE  /\ Snapshot(v) \in View
         /\ Snapshot(v).user = v.user /\ Snapshot(v).open = v.open /\ Snapshot(v).editing = v.editing
         /\ Snapshot(v).queue = v.queue /\ Snapshot(v).save = v.save
         /\ Snapshot(v).rows = Snapshot(v).snap
<1>1. PICK known : known = [x \in Axes |-> IF ~v.editing THEN {}
                                           ELSE IF x \in Lists THEN v.lists[x] ELSE v.people[v.user]]
  OBVIOUS
<1>2. v.lists \in [Lists -> Sets] /\ v.people \in [People -> Sets] /\ {} \in Sets
  BY DEF View, Sets
<1>3. known \in [Axes -> Sets]
  BY <1>1, <1>2
<1>4. Snapshot(v) = [v EXCEPT !.rows = known, !.snap = known, !.touched = {}]
  BY <1>1 DEF Snapshot
<1>5. QED
  BY <1>3, <1>4 DEF View

LEMMA SnapshotFits ==
  ASSUME NEW v \in View, v.open \/ v.editing => v.user \in People,
         QueueFits(v.queue, v.save), SaveFits(v.save)
  PROVE  Snapshot(v) \in View /\ ViewFits(Snapshot(v))
BY SnapshotType DEF ViewFits, EditsKnown

LEMMA UserDrawerInitInv == DrawerInit => UserDrawerInv
<1> SUFFICES ASSUME DrawerInit PROVE UserDrawerInv
  OBVIOUS
<1>1. access \in [People -> [Axes -> Sets]]
  BY DEF DrawerInit, Sets
<1>2. Profiles \in [People -> Sets]
  BY <1>1 DEF Profiles, Axes
<1>3. PICK save \in Save : save = NoSave
  BY NoSaveType
<1>4. PICK nothing \in [Axes -> Sets] : nothing = Nothings
  BY DEF Nothings, Sets
<1>5. PICK lists \in [Lists -> Sets] : lists = [l \in Lists |-> {}]
  BY DEF Sets
<1>6. ASSUME NEW e \in Editors PROVE view[e] \in View /\ ViewFits(view[e])
  <2>1. view[e] = [user |-> Nobody, open |-> FALSE, people |-> Profiles, lists |-> lists,
                   editing |-> FALSE, rows |-> nothing, snap |-> nothing, touched |-> {},
                   save |-> save, queue |-> <<>>]
    BY <1>3, <1>4, <1>5 DEF DrawerInit
  <2>2. view[e] \in View
    BY <1>2, <2>1 DEF View
  <2>3. QueueFits(<<>>, save)
    BY DEF QueueFits
  <2>4. QED
    BY <1>3, <2>1, <2>2, <2>3, NoSaveType DEF ViewFits, EditsKnown
<1>7. view \in [Editors -> View]
  BY <1>6 DEF DrawerInit
<1>8. QED
  BY <1>1, <1>6, <1>7 DEF UserDrawerInv, DrawerTypeOK

-----------------------------------------------------------------------------
\* A step that gives one drawer a new state.
LEMMA ShowInv ==
  ASSUME UserDrawerInv, NEW e \in Editors, NEW v \in View, Show(e, v), ViewFits(v),
         access' \in [People -> [Axes -> Sets]]
  PROVE  UserDrawerInv'
<1>1. /\ view' \in [Editors -> View] /\ view'[e] = v
      /\ \A f \in Editors \ {e} : view'[f] = view[f]
  BY DEF Show, UserDrawerInv, DrawerTypeOK
<1>2. \A f \in Editors : ViewFits(view'[f])
  BY <1>1 DEF UserDrawerInv
<1>3. QED
  BY <1>1, <1>2 DEF UserDrawerInv, DrawerTypeOK

LEMMA ViewType ==
  ASSUME UserDrawerInv, NEW e \in Editors
  PROVE  /\ view[e] \in View /\ ViewFits(view[e]) /\ access \in [People -> [Axes -> Sets]]
         /\ view[e].queue \in Seq(UserCalls) /\ view[e].save \in Save
BY DEF UserDrawerInv, DrawerTypeOK, View, UserCalls

LEMMA OpenUserInv ==
  ASSUME UserDrawerInv, NEW e \in Editors, NEW p \in People, OpenUser(e, p)
  PROVE  UserDrawerInv'
<1>1. /\ view[e] \in View /\ ViewFits(view[e]) /\ view[e].queue \in Seq(UserCalls)
      /\ access' \in [People -> [Axes -> Sets]]
  BY ViewType DEF OpenUser
<1>2. PICK c \in UserCalls : c = [call |-> "load", user |-> p]
  BY DEF UserCalls
<1>3. PICK queue : queue = Append(view[e].queue, c)
  OBVIOUS
<1>4. queue \in Seq(UserCalls) /\ QueueFits(queue, view[e].save)
  BY <1>1, <1>2, <1>3, LoadAppended DEF ViewFits
<1>5. PICK v : v = [view[e] EXCEPT !.user = p, !.open = TRUE, !.editing = FALSE, !.queue = queue]
  OBVIOUS
<1>6. /\ v \in View /\ v.user = p /\ v.queue = queue /\ v.save = view[e].save
  BY <1>1, <1>4, <1>5 DEF View, UserCalls
<1>7. Snapshot(v) \in View /\ ViewFits(Snapshot(v))
  BY <1>1, <1>4, <1>6, SnapshotFits DEF ViewFits
<1>8. Show(e, Snapshot(v))
  BY <1>2, <1>3, <1>5 DEF OpenUser
<1>9. QED
  BY <1>1, <1>7, <1>8, ShowInv

LEMMA CloseUserInv ==
  ASSUME UserDrawerInv, NEW e \in Editors, CloseUser(e) PROVE UserDrawerInv'
<1>1. /\ view[e] \in View /\ ViewFits(view[e]) /\ access' \in [People -> [Axes -> Sets]]
  BY ViewType DEF CloseUser
<1>2. PICK v : v = [view[e] EXCEPT !.open = FALSE]
  OBVIOUS
<1>3. /\ v \in View /\ v.user = view[e].user /\ v.open = FALSE /\ v.editing = view[e].editing
      /\ v.queue = view[e].queue /\ v.save = view[e].save /\ v.rows = view[e].rows
      /\ v.snap = view[e].snap /\ v.touched = view[e].touched
  BY <1>1, <1>2 DEF View
<1>4. ViewFits(v)
  BY <1>1, <1>3 DEF ViewFits, EditsKnown
<1>5. QED
  BY <1>1, <1>2, <1>3, <1>4, ShowInv DEF CloseUser

LEMMA StartEditingInv ==
  ASSUME UserDrawerInv, NEW e \in Editors, StartEditing(e) PROVE UserDrawerInv'
<1>1. /\ view[e] \in View /\ ViewFits(view[e]) /\ access' \in [People -> [Axes -> Sets]]
      /\ view[e].open
  BY ViewType DEF StartEditing
<1>2. PICK v : v = [view[e] EXCEPT !.editing = TRUE]
  OBVIOUS
<1>3. /\ v \in View /\ v.user = view[e].user /\ v.queue = view[e].queue /\ v.save = view[e].save
  BY <1>1, <1>2 DEF View
<1>4. Snapshot(v) \in View /\ ViewFits(Snapshot(v))
  BY <1>1, <1>3, SnapshotFits DEF ViewFits
<1>5. QED
  BY <1>1, <1>2, <1>4, ShowInv DEF StartEditing

LEMMA HandleCancelInv ==
  ASSUME UserDrawerInv, NEW e \in Editors, HandleCancel(e) PROVE UserDrawerInv'
<1>1. /\ view[e] \in View /\ ViewFits(view[e]) /\ access' \in [People -> [Axes -> Sets]]
      /\ view[e].open
  BY ViewType DEF HandleCancel
<1>2. PICK v : v = [view[e] EXCEPT !.editing = FALSE]
  OBVIOUS
<1>3. /\ v \in View /\ v.user = view[e].user /\ v.queue = view[e].queue /\ v.save = view[e].save
  BY <1>1, <1>2 DEF View
<1>4. Snapshot(v) \in View /\ ViewFits(Snapshot(v))
  BY <1>1, <1>3, SnapshotFits DEF ViewFits
<1>5. QED
  BY <1>1, <1>2, <1>4, ShowInv DEF HandleCancel

LEMMA EditAxisInv ==
  ASSUME UserDrawerInv, NEW e \in Editors, NEW x \in Axes, NEW set \in Sets, EditAxis(e, x, set)
  PROVE  UserDrawerInv'
<1>1. /\ view[e] \in View /\ ViewFits(view[e]) /\ access' \in [People -> [Axes -> Sets]]
      /\ view[e].rows \in [Axes -> Sets] /\ view[e].touched \in SUBSET Axes
  BY ViewType DEF EditAxis, View
<1>2. PICK form : form = [view[e].rows EXCEPT ![x] = set]
  OBVIOUS
<1>3. form \in [Axes -> Sets] /\ \A y \in Axes \ {x} : form[y] = view[e].rows[y]
  BY <1>1, <1>2
<1>4. PICK touched \in SUBSET Axes : touched = view[e].touched \cup {x}
  BY <1>1
<1>5. PICK v : v = [view[e] EXCEPT !.rows = form, !.touched = touched]
  OBVIOUS
<1>6. /\ v \in View /\ v.user = view[e].user /\ v.open = view[e].open /\ v.editing = view[e].editing
      /\ v.queue = view[e].queue /\ v.save = view[e].save /\ v.rows = form
      /\ v.snap = view[e].snap /\ v.touched = touched
  BY <1>1, <1>3, <1>5 DEF View
<1>7. ViewFits(v)
  BY <1>1, <1>3, <1>4, <1>6 DEF ViewFits, EditsKnown
<1>8. Show(e, v)
  BY <1>2, <1>4, <1>5 DEF EditAxis
<1>9. QED
  BY <1>1, <1>6, <1>7, <1>8, ShowInv

\* The refetch that ends a save.
LEMMA RefetchFits ==
  ASSUME NEW v \in View, v.open \/ v.editing => v.user \in People, LoadsOnly(v.queue),
         v.save.left = {}, v.save.user \in People, SaveFits(v.save)
  PROVE  Refetch(v) \in View /\ ViewFits(Refetch(v))
<1>1. PICK c \in UserCalls : c = [call |-> "refetch", user |-> v.save.user]
  BY DEF UserCalls
<1>2. PICK queue : queue = Append(v.queue, c)
  OBVIOUS
<1>3. v.queue \in Seq(UserCalls)
  BY DEF View, UserCalls
<1>4. queue \in Seq(UserCalls) /\ QueueFits(queue, v.save)
  BY <1>1, <1>2, <1>3, CallAppended
<1>5. Refetch(v) = [v EXCEPT !.queue = queue]
  BY <1>1, <1>2 DEF Refetch
<1>6. /\ Refetch(v) \in View /\ Refetch(v).queue = queue /\ Refetch(v).save = v.save
      /\ Refetch(v).open = v.open /\ Refetch(v).editing = v.editing /\ Refetch(v).user = v.user
  BY <1>4, <1>5 DEF View, UserCalls
<1>7. QED
  BY <1>4, <1>6 DEF ViewFits, EditsKnown

LEMMA HandleSaveInv ==
  ASSUME UserDrawerInv, NEW e \in Editors, HandleSave(e) PROVE UserDrawerInv'
<1> DEFINE v == view[e]
<1>1. /\ v \in View /\ ViewFits(v) /\ access' \in [People -> [Axes -> Sets]]
      /\ v.rows \in [Axes -> Sets] /\ v.touched \in SUBSET Axes /\ v.queue \in Seq(UserCalls)
      /\ v.open /\ v.user \in People /\ v.save = NoSave
  BY ViewType DEF HandleSave, View, ViewFits, Saving
<1>2. LoadsOnly(v.queue)
  BY <1>1, ViewAtRest, NoSaveType DEF ViewFits
<1>3. PICK dirty \in SUBSET Axes : dirty = DirtyAxes(v)
  BY DEF DirtyAxes
<1>4. dirty \subseteq v.touched
  BY <1>1, <1>3, NoSaveType DEF ViewFits, EditsKnown, DirtyAxes
<1>5. PICK sets : sets = [x \in Axes |-> IF x \in dirty THEN v.rows[x] ELSE {}]
  OBVIOUS
<1>6. sets \in [Axes -> Sets]
  BY <1>1, <1>5 DEF Sets
<1>7. PICK save : save = [NoSave EXCEPT !.user = v.user, !.sets = sets, !.dirty = dirty,
                            !.left = dirty, !.meant = v.touched]
  OBVIOUS
<1>8. /\ save \in Save /\ save.user = v.user /\ save.dirty = dirty /\ save.left = dirty
      /\ save.meant = v.touched
  BY <1>1, <1>3, <1>6, <1>7, NoSaveType DEF Save
<1>9. SaveFits(save) /\ save.user \in People
  BY <1>1, <1>4, <1>8 DEF SaveFits
<1>10. PICK saved : saved = [v EXCEPT !.save = save]
  OBVIOUS
<1>11. /\ saved \in View /\ saved.save = save /\ saved.queue = v.queue /\ saved.open = v.open
       /\ saved.editing = v.editing /\ saved.user = v.user /\ saved.rows = v.rows
       /\ saved.snap = v.snap /\ saved.touched = v.touched
  BY <1>1, <1>8, <1>10 DEF View
<1>12. PICK c \in UserCalls : c = [call |-> "write", user |-> v.user]
  BY <1>1 DEF UserCalls
<1>13. PICK written : written = [saved EXCEPT !.queue = Append(saved.queue, c)]
  OBVIOUS
<1>14. Show(e, IF dirty = {} THEN Refetch(saved) ELSE written)
  BY <1>3, <1>5, <1>7, <1>10, <1>12, <1>13 DEF HandleSave
<1>15. CASE dirty = {}
  <2>1. Refetch(saved) \in View /\ ViewFits(Refetch(saved))
    BY <1>1, <1>2, <1>8, <1>9, <1>11, <1>15, RefetchFits
  <2>2. QED
    BY <1>1, <1>14, <1>15, <2>1, ShowInv
<1>16. CASE dirty # {}
  <2>1. PICK queue : queue = Append(saved.queue, c)
    OBVIOUS
  <2>2. queue \in Seq(UserCalls) /\ QueueFits(queue, save)
    BY <1>1, <1>2, <1>8, <1>9, <1>11, <1>12, <1>16, <2>1, CallAppended
  <2>3. /\ written \in View /\ written.save = save /\ written.queue = queue /\ written.open = v.open
        /\ written.editing = v.editing /\ written.user = v.user /\ written.rows = v.rows
        /\ written.snap = v.snap /\ written.touched = v.touched
    BY <1>11, <1>13, <2>1, <2>2 DEF View, UserCalls
  <2>4. ViewFits(written)
    BY <1>1, <1>3, <1>4, <1>9, <2>2, <2>3 DEF ViewFits, EditsKnown, DirtyAxes
  <2>5. QED
    BY <1>1, <1>14, <1>16, <2>3, <2>4, ShowInv
<1>17. QED
  BY <1>15, <1>16

-----------------------------------------------------------------------------
LEMMA OnTurnFits ==
  ASSUME UserDrawerInv, NEW e \in Editors, NEW kind, OnTurn(e, kind)
  PROVE  /\ Tail(view[e].queue) \in Seq(UserCalls) /\ QueueFits(Tail(view[e].queue), view[e].save)
         /\ Asked(e) \in People /\ (kind # "load" => LoadsOnly(Tail(view[e].queue)))
         /\ kind = "write" => view[e].save.left # {} /\ view[e].save.user \in People
         /\ kind = "refetch" => view[e].save.left = {} /\ view[e].save.user \in People
<1>1. /\ view[e].queue \in Seq(UserCalls) /\ view[e].queue # <<>> /\ QueueFits(view[e].queue, view[e].save)
      /\ Head(view[e].queue).call = kind
  BY ViewType DEF ViewFits, OnTurn
<1>2. Head(view[e].queue) \in UserCalls
  BY <1>1, TailFits
<1>3. QED
  BY <1>1, <1>2, TailFits DEF Asked, UserCalls

\* The answer to the write of one axis.
LEMMA AnswerInv ==
  ASSUME UserDrawerInv, NEW e \in Editors, OnTurn(e, "write"), NEW failed \in BOOLEAN,
         access' \in [People -> [Axes -> Sets]], Answer(e, failed)
  PROVE  UserDrawerInv'
<1> DEFINE v == view[e]
<1>1. /\ v \in View /\ ViewFits(v) /\ v.save \in Save /\ v.queue \in Seq(UserCalls)
      /\ v.people \in [People -> Sets] /\ v.save.user \in People /\ v.save.left # {}
  BY ViewType, OnTurnFits DEF View
<1>2. PICK axis \in Axes : axis = NextAxis(v.save)
  BY <1>1, NextAxisLeft
<1>3. PICK left \in SUBSET Axes : left = v.save.left \ {axis}
  BY <1>1 DEF Save
<1>4. PICK fails \in SUBSET Axes : fails = IF failed THEN v.save.failed \cup {axis} ELSE v.save.failed
  BY <1>1 DEF Save
<1>5. PICK save : save = [v.save EXCEPT !.left = left, !.replacing = FALSE, !.before = {},
                            !.failed = fails]
  OBVIOUS
<1>6. /\ save \in Save /\ save.left = left /\ save.dirty = v.save.dirty /\ save.meant = v.save.meant
      /\ save.user = v.save.user /\ save.sets = v.save.sets /\ save.failed = fails
  BY <1>1, <1>5 DEF Save, Sets
<1>7. SaveFits(save)
  BY <1>1, <1>3, <1>6 DEF ViewFits, SaveFits
<1>8. Profiles' \in [People -> Sets]
  BY DEF Profiles, Axes
<1>9. PICK people \in [People -> Sets] : people = IF failed THEN v.people ELSE Profiles'
  BY <1>1, <1>8
<1>10. PICK next : next = [v EXCEPT !.save = save, !.people = people]
  OBVIOUS
<1>11. /\ next \in View /\ next.save = save /\ next.queue = v.queue /\ next.open = v.open
       /\ next.editing = v.editing /\ next.user = v.user /\ next.rows = v.rows
       /\ next.snap = v.snap /\ next.touched = v.touched
  BY <1>1, <1>6, <1>9, <1>10 DEF View
<1>12. Show(e, IF save.left = {} THEN Settle(next) ELSE next)
  <2>1. next = [v EXCEPT !.save.left = v.save.left \ {axis}, !.save.replacing = FALSE,
                   !.save.before = {},
                   !.save.failed = IF failed THEN v.save.failed \cup {axis} ELSE v.save.failed,
                   !.people = IF failed THEN v.people ELSE Profiles']
    BY <1>1, <1>3, <1>4, <1>5, <1>9, <1>10 DEF View, Save
  <2>2. QED
    BY <1>2, <1>11, <2>1 DEF Answer
<1>13. CASE left # {}
  <2>1. QueueFits(v.queue, save)
    BY <1>1, <1>6, <1>13 DEF ViewFits, QueueFits
  <2>2. ViewFits(next)
    BY <1>1, <1>7, <1>11, <2>1 DEF ViewFits, EditsKnown
  <2>3. QED
    BY <1>6, <1>11, <1>12, <1>13, <2>2, ShowInv
<1>14. CASE left = {}
  <2>1. PICK queue \in Seq(UserCalls) : queue = Tail(v.queue) /\ LoadsOnly(queue)
    <3>1. Tail(v.queue) \in Seq(UserCalls) /\ LoadsOnly(Tail(v.queue))
      BY OnTurnFits
    <3>2. QED
      BY <3>1
  <2>2. PICK snap : snap = [x \in Axes |-> IF v.editing /\ x \in save.dirty \ save.failed
                                           THEN save.sets[x] ELSE v.snap[x]]
    OBVIOUS
  <2>3. snap \in [Axes -> Sets]
    BY <1>1, <1>6, <2>2 DEF View, Save
  <2>4. PICK w : w = [next EXCEPT !.queue = queue, !.snap = snap]
    OBVIOUS
  <2>5. /\ w \in View /\ w.save = save /\ w.queue = queue /\ w.open = v.open
        /\ w.editing = v.editing /\ w.user = v.user
    BY <1>11, <2>1, <2>3, <2>4 DEF View, UserCalls
  <2>6. Refetch(w) \in View /\ ViewFits(Refetch(w))
    BY <1>1, <1>6, <1>7, <1>14, <2>1, <2>5, RefetchFits DEF ViewFits
  <2>7. Settle(next) = Refetch(w)
    BY <1>11, <2>1, <2>2, <2>4 DEF Settle
  <2>8. QED
    BY <1>6, <1>12, <1>14, <2>6, <2>7, ShowInv
<1>15. QED
  BY <1>13, <1>14

LEMMA WriteProfileInv ==
  ASSUME UserDrawerInv, NEW e \in Editors, WriteProfile(e) PROVE UserDrawerInv'
<1>1. /\ view[e].save \in Save /\ access \in [People -> [Axes -> Sets]]
      /\ view[e].save.user \in People /\ view[e].save.sets["profile"] \in Sets /\ "profile" \in Axes
  BY ViewType, OnTurnFits DEF Save, Axes, WriteProfile
<1>2. access' \in [People -> [Axes -> Sets]]
  BY <1>1 DEF WriteProfile
<1>3. QED
  BY <1>2, AnswerInv DEF WriteProfile

LEMMA CommitRowsInv ==
  ASSUME UserDrawerInv, NEW e \in Editors, CommitRows(e) PROVE UserDrawerInv'
<1>1. /\ view[e].save \in Save /\ access \in [People -> [Axes -> Sets]]
      /\ view[e].save.user \in People /\ view[e].save.left # {}
  BY ViewType, OnTurnFits DEF CommitRows
<1>2. PICK axis \in Axes : axis = NextAxis(view[e].save)
  BY <1>1, NextAxisLeft
<1>3. PICK set \in Sets : set = (access[view[e].save.user][axis] \ view[e].save.before)
                                  \cup view[e].save.sets[axis]
  <2>1. /\ access[view[e].save.user][axis] \in Sets /\ view[e].save.before \in Sets
        /\ view[e].save.sets[axis] \in Sets
    BY <1>1 DEF Save
  <2>2. QED
    BY <2>1 DEF Sets
<1>4. access' = [access EXCEPT ![view[e].save.user][axis] = set]
  BY <1>2, <1>3 DEF CommitRows
<1>5. access' \in [People -> [Axes -> Sets]]
  BY <1>1, <1>4
<1>6. QED
  BY <1>5, AnswerInv DEF CommitRows

LEMMA FailWriteInv ==
  ASSUME UserDrawerInv, NEW e \in Editors, FailWrite(e) PROVE UserDrawerInv'
BY ViewType, AnswerInv DEF FailWrite

LEMMA DeleteRowsInv ==
  ASSUME UserDrawerInv, NEW e \in Editors, DeleteRows(e) PROVE UserDrawerInv'
<1>1. /\ view[e] \in View /\ ViewFits(view[e]) /\ view[e].save \in Save
      /\ access \in [People -> [Axes -> Sets]] /\ access' = access
      /\ view[e].save.user \in People /\ view[e].save.left # {}
  BY ViewType, OnTurnFits DEF DeleteRows
<1>2. PICK before \in Sets : before = access[view[e].save.user][NextAxis(view[e].save)]
  BY <1>1, NextAxisLeft
<1>3. PICK save : save = [view[e].save EXCEPT !.replacing = TRUE, !.before = before]
  OBVIOUS
<1>4. /\ save \in Save /\ save.left = view[e].save.left /\ save.dirty = view[e].save.dirty
      /\ save.meant = view[e].save.meant /\ save.user = view[e].save.user
  BY <1>1, <1>2, <1>3 DEF Save
<1>5. PICK v : v = [view[e] EXCEPT !.save = save]
  OBVIOUS
<1>6. /\ v \in View /\ v.user = view[e].user /\ v.open = view[e].open /\ v.editing = view[e].editing
      /\ v.queue = view[e].queue /\ v.save = save /\ v.rows = view[e].rows
      /\ v.snap = view[e].snap /\ v.touched = view[e].touched
  BY <1>1, <1>4, <1>5 DEF View
<1>7. ViewFits(v)
  BY <1>1, <1>4, <1>6 DEF ViewFits, EditsKnown, QueueFits, SaveFits
<1>8. Show(e, v)
  BY <1>2, <1>3, <1>5 DEF DeleteRows
<1>9. QED
  BY <1>1, <1>6, <1>7, <1>8, ShowInv

LEMMA ReadType ==
  ASSUME UserDrawerInv, NEW p \in People, NEW lists \in Read(p) PROVE lists \in [Lists -> Sets]
BY DEF UserDrawerInv, DrawerTypeOK, Read, Axes, Sets

LEMMA LoadInv ==
  ASSUME UserDrawerInv, NEW e \in Editors, Load(e) PROVE UserDrawerInv'
<1>1. /\ view[e] \in View /\ ViewFits(view[e]) /\ access' \in [People -> [Axes -> Sets]]
  BY ViewType DEF Load
<1>2. PICK queue \in Seq(UserCalls) : queue = Tail(view[e].queue) /\ QueueFits(queue, view[e].save)
  BY OnTurnFits DEF Load
<1>3. PICK lists \in Read(Asked(e)) : Show(e, Snapshot([Heard(e) EXCEPT !.lists = lists]))
  BY DEF Load
<1>4. lists \in [Lists -> Sets]
  BY <1>3, OnTurnFits, ReadType DEF Load
<1>5. PICK v : v = [view[e] EXCEPT !.queue = queue, !.lists = lists]
  OBVIOUS
<1>6. /\ v \in View /\ v.user = view[e].user /\ v.open = view[e].open /\ v.editing = view[e].editing
      /\ v.queue = queue /\ v.save = view[e].save
  BY <1>1, <1>2, <1>4, <1>5 DEF View, UserCalls
<1>7. Snapshot(v) \in View /\ ViewFits(Snapshot(v))
  BY <1>1, <1>2, <1>6, SnapshotFits DEF ViewFits
<1>8. Show(e, Snapshot(v))
  BY <1>2, <1>3, <1>5 DEF Heard
<1>9. QED
  BY <1>1, <1>7, <1>8, ShowInv

LEMMA FinishSaveInv ==
  ASSUME UserDrawerInv, NEW e \in Editors, FinishSave(e) PROVE UserDrawerInv'
<1>1. /\ view[e] \in View /\ ViewFits(view[e]) /\ access' \in [People -> [Axes -> Sets]]
      /\ view[e].people \in [People -> Sets] /\ view[e].editing \in BOOLEAN
  BY ViewType DEF FinishSave, View
<1>2. PICK queue \in Seq(UserCalls) : queue = Tail(view[e].queue) /\ LoadsOnly(queue)
  <2>1. Tail(view[e].queue) \in Seq(UserCalls) /\ LoadsOnly(Tail(view[e].queue))
    BY OnTurnFits DEF FinishSave
  <2>2. QED
    BY <2>1
<1>3. PICK lists \in Read(Asked(e)) :
        Show(e, Snapshot([Heard(e) EXCEPT !.lists = lists, !.save = NoSave,
                           !.editing = Heard(e).editing /\ view[e].save.failed # {},
                           !.people = IF view[e].save.failed = {} THEN Profiles ELSE Heard(e).people]))
  BY DEF FinishSave
<1>4. lists \in [Lists -> Sets]
  BY <1>3, OnTurnFits, ReadType DEF FinishSave
<1>5. Profiles \in [People -> Sets]
  BY ViewType DEF Profiles, Axes
<1>6. PICK people \in [People -> Sets] :
        people = IF view[e].save.failed = {} THEN Profiles ELSE view[e].people
  BY <1>1, <1>5
<1>7. PICK editing \in BOOLEAN : editing = (view[e].editing /\ view[e].save.failed # {})
  OBVIOUS
<1>8. PICK save \in Save : save = NoSave
  BY NoSaveType
<1>9. PICK v : v = [view[e] EXCEPT !.queue = queue, !.lists = lists, !.save = save,
                      !.editing = editing, !.people = people]
  OBVIOUS
<1>10. /\ v \in View /\ v.user = view[e].user /\ v.open = view[e].open /\ v.editing = editing
       /\ v.queue = queue /\ v.save = save
  BY <1>1, <1>2, <1>4, <1>6, <1>8, <1>9 DEF View, UserCalls
<1>11. QueueFits(queue, save) /\ SaveFits(save)
  BY <1>2, <1>8, NoSaveType DEF QueueFits, LoadsOnly
<1>12. Snapshot(v) \in View /\ ViewFits(Snapshot(v))
  BY <1>1, <1>7, <1>10, <1>11, SnapshotFits DEF ViewFits
<1>13. Show(e, Snapshot(v))
  <2>1. /\ Heard(e) = [view[e] EXCEPT !.queue = queue] /\ Heard(e).editing = view[e].editing
        /\ Heard(e).people = view[e].people
    BY <1>1, <1>2 DEF Heard, View
  <2>2. v = [Heard(e) EXCEPT !.lists = lists, !.save = NoSave,
               !.editing = Heard(e).editing /\ view[e].save.failed # {},
               !.people = IF view[e].save.failed = {} THEN Profiles ELSE Heard(e).people]
    BY <1>1, <1>6, <1>7, <1>8, <1>9, <2>1
  <2>3. QED
    BY <1>3, <2>2
<1>14. QED
  BY <1>1, <1>12, <1>13, ShowInv

LEMMA SaveElsewhereInv ==
  ASSUME UserDrawerInv, NEW c \in Contested, NEW set \in Sets, SaveElsewhere(c[1], c[2], set)
  PROVE  UserDrawerInv'
<1>1. /\ access \in [People -> [Axes -> Sets]] /\ view' = view
  BY DEF UserDrawerInv, DrawerTypeOK, SaveElsewhere
<1>2. access' \in [People -> [Axes -> Sets]]
  <2>1. c[1] \in People /\ access' = [access EXCEPT ![c[1]][c[2]] = set]
    BY DrawerAssumption DEF SaveElsewhere
  <2>2. QED
    BY <1>1, <2>1
<1>3. QED
  BY <1>1, <1>2 DEF UserDrawerInv, DrawerTypeOK, ViewFits, EditsKnown, QueueFits, SaveFits

-----------------------------------------------------------------------------
LEMMA DrawerNextInv == UserDrawerInv /\ [DrawerNext]_drawerVars => UserDrawerInv'
<1> SUFFICES ASSUME UserDrawerInv, [DrawerNext]_drawerVars PROVE UserDrawerInv'
  OBVIOUS
<1>1. CASE UNCHANGED drawerVars
  BY <1>1 DEF drawerVars, UserDrawerInv, DrawerTypeOK, ViewFits, EditsKnown, QueueFits, SaveFits
<1>2. ASSUME NEW e \in Editors, NEW p \in People, OpenUser(e, p) PROVE UserDrawerInv'
  BY <1>2, OpenUserInv
<1>3. ASSUME NEW e \in Editors, NEW x \in Axes, NEW set \in Sets, EditAxis(e, x, set)
      PROVE  UserDrawerInv'
  BY <1>3, EditAxisInv
<1>4. ASSUME NEW e \in Editors, CloseUser(e) \/ StartEditing(e) \/ HandleCancel(e) \/ HandleSave(e)
      PROVE  UserDrawerInv'
  BY <1>4, CloseUserInv, StartEditingInv, HandleCancelInv, HandleSaveInv
<1>5. ASSUME NEW e \in Editors,
             \/ WriteProfile(e) \/ DeleteRows(e) \/ CommitRows(e) \/ FailWrite(e)
             \/ Load(e) \/ FinishSave(e)
      PROVE  UserDrawerInv'
  BY <1>5, WriteProfileInv, DeleteRowsInv, CommitRowsInv, FailWriteInv, LoadInv, FinishSaveInv
<1>6. QED
  BY <1>1, <1>2, <1>3, <1>4, <1>5, SaveElsewhereInv DEF DrawerNext

\* The table of access, the list and every drawer with its queue have their types.
THEOREM DrawerTypeCorrect == DrawerSpec => []DrawerTypeOK
<1>1. UserDrawerInv => DrawerTypeOK
  BY DEF UserDrawerInv
<1>2. QED
  BY UserDrawerInitInv, DrawerNextInv, <1>1, PTL DEF DrawerSpec

LEMMA AxesStep == UserDrawerInv /\ [DrawerNext]_drawerVars => AxesSpared
<1> SUFFICES ASSUME UserDrawerInv, [DrawerNext]_drawerVars, NEW p \in People, NEW x \in Axes,
                    access'[p][x] # access[p][x], view' # view
             PROVE  \E e \in Editors : view[e].save.user = p /\ x \in view[e].save.meant
  BY DEF AxesSpared
<1>1. ASSUME NEW e \in Editors, WriteProfile(e) \/ CommitRows(e)
      PROVE  view[e].save.user = p /\ x \in view[e].save.meant
  <2>1. /\ view[e].save \in Save /\ SaveFits(view[e].save) /\ access \in [People -> [Axes -> Sets]]
        /\ view[e].save.user \in People /\ view[e].save.left # {}
    BY <1>1, ViewType, OnTurnFits DEF ViewFits, WriteProfile, CommitRows
  <2>2. PICK axis \in Axes : axis = NextAxis(view[e].save)
    BY <2>1, NextAxisLeft
  <2>3. axis \in view[e].save.meant
    BY <2>1, <2>2, NextAxisLeft DEF SaveFits
  <2>4. PICK set : access' = [access EXCEPT ![view[e].save.user][axis] = set]
    BY <1>1, <2>2 DEF WriteProfile, CommitRows
  <2>5. p = view[e].save.user /\ x = axis
    BY <2>1, <2>4
  <2>6. QED
    BY <2>3, <2>5
<1>2. \E e \in Editors : WriteProfile(e) \/ CommitRows(e)
  BY DEF DrawerNext, drawerVars, SaveElsewhere, OpenUser, EditAxis, CloseUser, StartEditing,
         HandleCancel, HandleSave, DeleteRows, FailWrite, Load, FinishSave
<1>3. QED
  BY <1>1, <1>2

\* A drawer changes an axis only by a save of that user whose admin had edited the axis.
THEOREM AxesAreSpared == DrawerSpec => [][AxesSpared]_drawerVars
BY UserDrawerInitInv, DrawerNextInv, AxesStep, PTL DEF DrawerSpec

-----------------------------------------------------------------------------
(* The app's drawer *)

\* A set of numbers that is not empty has a least one.
LEMMA LeastExists ==
  ASSUME NEW X \in SUBSET Nat, X # {} PROVE \E x \in X : \A y \in X : x <= y
<1> DEFINE R == {ss \in Nat \X Nat : ss[1] < ss[2]}
<1>1. IsWellFoundedOn(R, Nat)
  BY NatLessThanWellFounded DEF OpToRel
<1> HIDE DEF R
<1>2. PICK x \in X : \A y \in X : ~ (<<y, x>> \in R)
  BY <1>1, WFMin
<1>3. ASSUME NEW y \in X, y < x PROVE FALSE
  <2>1. <<y, x>> \in R
    BY <1>3 DEF R
  <2>2. QED
    BY <1>2, <2>1
<1>4. QED
  BY <1>3

LEMMA RemovedType ==
  ASSUME NEW S, NEW s \in Seq(S), NEW e PROVE Seqs!RemoveFirst(s, e) \in Seq(S)
<1> DEFINE I == {i \in 1..Len(s) : s[i] = e}
<1>1. CASE I # {}
  <2>1. PICK x \in I : \A y \in I : x <= y
    <3>1. I \in SUBSET Nat
      OBVIOUS
    <3>2. QED
      BY ONLY <1>1, <3>1, LeastExists
  <2>2. Seqs!Min(I) \in 1..Len(s)
    BY <2>1 DEF Seqs!Min
  <2>3. Seqs!RemoveAt(s, Seqs!Min(I)) \in Seq(S)
    <3>1. PICK n \in 1..Len(s) : n = Seqs!Min(I)
      BY <2>2
    <3>2. SubSeq(s, 1, n - 1) \in Seq(S) /\ SubSeq(s, n + 1, Len(s)) \in Seq(S)
      <4>1. /\ Len(s) \in Int /\ n - 1 \in Int /\ n + 1 \in Int /\ 1 \in Int
            /\ \A i \in 1..(n - 1) : s[i] \in S
            /\ \A i \in (n + 1)..Len(s) : s[i] \in S
        OBVIOUS
      <4>2. QED
        BY ONLY <4>1, SubSeqProperties
    <3>3. QED
      BY <3>1, <3>2, ConcatProperties DEF Seqs!RemoveAt
  <2>4. Seqs!RemoveFirst(s, e) = Seqs!RemoveAt(s, Seqs!Min(I))
    BY <1>1 DEF Seqs!RemoveFirst, Seqs!SelectInSeq
  <2>5. QED
    BY <2>3, <2>4
<1>2. CASE I = {}
  BY <1>2 DEF Seqs!RemoveFirst
<1>3. QED
  BY <1>1, <1>2

-----------------------------------------------------------------------------
\* What a save may send of a field: what the admin edited, or the method, but only as
\* 'code', for a drawer that compares it with the default; and of the providers, what he
\* ticked.
SubmitFits(submit) ==
  /\ submit.patch["method"] \in {Keep, Code}
  /\ \A f \in Fields : submit.patch[f] # Keep => f \in submit.meant \/ f = "method"
  /\ submit.left # {} => "social" \in submit.meant

DrawerFits(d) ==
  /\ d.row["method"] = Unset /\ d.base["method"] = Unset
  /\ \A f \in Fields : d.form[f] # d.base[f] => f \in d.touched \/ f = "method"
  /\ d.checked # d.initial => "social" \in d.touched
  /\ SubmitFits(d.submit)

SettingsInv ==
  /\ SettingsTypeOK
  /\ \A a \in Admins : DrawerFits(drawer[a])

Asks == {"getApp", "getSocial", "update", "setSocial", "rotate", "mint", "list"}

LEMMA RowType == ASSUME NEW app \in Settings PROVE Row(app) \in Settings /\ Row(app)["method"] = Unset
BY SettingsAssumption DEF Row, Settings, Fields, Listed

LEMMA SettingsTypes ==
  /\ "logo" \in Fields /\ "method" \in Fields
  /\ \A app : app \in Settings <=> app \in [Fields -> Values] /\ app["method"] \in {Unset, Code}
BY DEF Settings, Fields

LEMMA NoSubmitFits == NoSubmit \in Submit /\ SubmitFits(NoSubmit)
BY SettingsAssumption DEF NoSubmit, Submit, SubmitFits, Fields

LEMMA SettingsInitInv == SettingsInit => SettingsInv
<1> SUFFICES ASSUME SettingsInit PROVE SettingsInv
  OBVIOUS
<1>1. saApp \in Settings /\ secret \in BOOLEAN /\ enabled \subseteq Providers
  BY DEF SettingsInit
<1>2. PICK row \in Settings : row = Row(saApp) /\ row["method"] = Unset
  BY <1>1, RowType
<1>3. ASSUME NEW a \in Admins
      PROVE  drawer[a] \in Drawer /\ DrawerFits(drawer[a])
  <2>1. drawer[a] = [open |-> FALSE, row |-> row, form |-> row, base |-> row,
                     checked |-> {}, initial |-> {}, boxes |-> FALSE, touched |-> {},
                     submit |-> NoSubmit, queue |-> <<>>]
    BY <1>2 DEF SettingsInit
  <2>2. QED
    BY <1>2, <2>1, NoSubmitFits DEF Drawer, DrawerFits
<1>4. drawer \in [Admins -> Drawer]
  BY <1>3 DEF SettingsInit
<1>5. QED
  BY <1>1, <1>3, <1>4 DEF SettingsInv, SettingsTypeOK

-----------------------------------------------------------------------------
\* A step that gives one drawer a new state.
LEMMA DrawInv ==
  ASSUME SettingsInv, NEW a \in Admins, NEW d \in Drawer, Draw(a, d), DrawerFits(d),
         saApp' \in Settings, secret' \in BOOLEAN, enabled' \subseteq Providers
  PROVE  SettingsInv'
<1>1. /\ drawer' \in [Admins -> Drawer] /\ drawer'[a] = d
      /\ \A b \in Admins \ {a} : drawer'[b] = drawer[b]
  BY DEF Draw, SettingsInv, SettingsTypeOK
<1>2. ASSUME NEW b \in Admins PROVE DrawerFits(drawer'[b])
  BY <1>1 DEF SettingsInv, DrawerFits, SubmitFits
<1>3. QED
  BY <1>1, <1>2 DEF SettingsInv, SettingsTypeOK

LEMMA DrawAloneInv ==
  ASSUME SettingsInv, NEW a \in Admins, NEW d \in Drawer, Draw(a, d), DrawerFits(d),
         UNCHANGED <<subject, saApp, secret, enabled>>
  PROVE  SettingsInv'
<1>1. /\ saApp' = saApp /\ secret' = secret /\ enabled' = enabled
      /\ saApp \in Settings /\ secret \in BOOLEAN /\ enabled \subseteq Providers
  BY DEF SettingsInv, SettingsTypeOK
<1>2. QED
  BY <1>1, DrawInv

LEMMA SeedType ==
  ASSUME NEW d \in Drawer, NEW row \in Settings, NEW open \in BOOLEAN
  PROVE  /\ Seed(d, row, open) \in Drawer
         /\ Seed(d, row, open).row = row /\ Seed(d, row, open).form = row
         /\ Seed(d, row, open).base = row /\ Seed(d, row, open).submit = d.submit
         /\ Seed(d, row, open).checked = d.checked /\ Seed(d, row, open).initial = d.initial
         /\ Seed(d, row, open).touched = d.touched \cap {"social"}
<1>1. PICK rest \in Seq(Asks) : rest = Unloaded(d)
  BY RemovedType DEF Drawer, Asks, Unloaded
<1>2. PICK queue \in Seq(Asks) :
        queue = IF open THEN rest \o <<"getApp", "getSocial">> ELSE rest
  <2>1. <<"getApp", "getSocial">> \in Seq(Asks)
    BY DEF Asks
  <2>2. rest \o <<"getApp", "getSocial">> \in Seq(Asks)
    BY ONLY rest \in Seq(Asks), <2>1, ConcatProperties
  <2>3. QED
    BY <2>2
<1>3. PICK boxes \in BOOLEAN : boxes = (d.boxes /\ ~open)
  OBVIOUS
<1>4. PICK touched \in SUBSET (Fields \cup {"social"}) : touched = d.touched \cap {"social"}
  BY DEF Drawer
<1>5. Seed(d, row, open) = [d EXCEPT !.open = open, !.row = row, !.form = row, !.base = row,
                              !.touched = touched, !.boxes = boxes, !.queue = queue]
  BY <1>1, <1>2, <1>3, <1>4 DEF Seed
<1>6. QED
  BY <1>4, <1>5 DEF Drawer, Asks

LEMMA SeedFits ==
  ASSUME NEW d \in Drawer, NEW row \in Settings, NEW open \in BOOLEAN,
         row["method"] = Unset, DrawerFits(d)
  PROVE  DrawerFits(Seed(d, row, open))
BY SeedType DEF DrawerFits

LEMMA AnsweredType ==
  ASSUME SettingsInv, NEW a \in Admins, NEW ask, Turn(a, ask)
  PROVE  /\ Answered(a) \in Drawer /\ DrawerFits(Answered(a))
         /\ Answered(a) = [drawer[a] EXCEPT !.queue = Tail(drawer[a].queue)]
         /\ Answered(a).submit = drawer[a].submit /\ Answered(a).row = drawer[a].row
<1>1. drawer[a] \in Drawer /\ DrawerFits(drawer[a])
  BY DEF SettingsInv, SettingsTypeOK
<1>2. PICK queue \in Seq(Asks) : queue = Tail(drawer[a].queue)
  <2>1. drawer[a].queue \in Seq(Asks) /\ drawer[a].queue # <<>>
    BY <1>1 DEF Turn, Drawer, Asks
  <2>2. QED
    BY ONLY <2>1, HeadTailProperties
<1>3. Answered(a) = [drawer[a] EXCEPT !.queue = queue]
  BY <1>2 DEF Answered
<1>4. Answered(a) \in Drawer
  BY <1>1, <1>3 DEF Drawer, Asks
<1>5. QED
  BY <1>1, <1>2, <1>3, <1>4 DEF Drawer, DrawerFits

\* A server action that comes last.
LEMMA AppendedType ==
  ASSUME NEW d \in Drawer, NEW ask \in Asks, NEW e, e = [d EXCEPT !.queue = Append(d.queue, ask)]
  PROVE  e \in Drawer /\ e.submit = d.submit /\ (DrawerFits(d) => DrawerFits(e))
<1>1. PICK queue \in Seq(Asks) : queue = Append(d.queue, ask)
  BY DEF Drawer, Asks
<1>2. e = [d EXCEPT !.queue = queue]
  BY <1>1
<1>3. e \in Drawer
  BY <1>2 DEF Drawer, Asks
<1>4. QED
  BY <1>2, <1>3 DEF Drawer, DrawerFits

LEMMA DoneType ==
  ASSUME NEW d \in Drawer
  PROVE  /\ [d EXCEPT !.submit = NoSubmit] \in Drawer
         /\ DrawerFits(d) => DrawerFits([d EXCEPT !.submit = NoSubmit])
<1>1. PICK submit \in Submit : submit = NoSubmit
  BY NoSubmitFits
<1>2. PICK e : e = [d EXCEPT !.submit = submit]
  OBVIOUS
<1>3. e \in Drawer /\ e.submit = submit /\ e.form = d.form /\ e.base = d.base /\ e.row = d.row
      /\ e.touched = d.touched /\ e.checked = d.checked /\ e.initial = d.initial
  BY <1>2 DEF Drawer
<1>4. QED
  BY <1>1, <1>2, <1>3, NoSubmitFits DEF DrawerFits

LEMMA SavedType ==
  ASSUME NEW d \in Drawer, DrawerFits(d)
  PROVE  Saved(d) \in Drawer /\ DrawerFits(Saved(d))
<1>1. PICK e \in Drawer : e = Seed(d, d.row, FALSE) /\ DrawerFits(e)
  <2>1. d.row \in Settings /\ d.row["method"] = Unset
    BY DEF Drawer, DrawerFits
  <2>2. Seed(d, d.row, FALSE) \in Drawer
    BY <2>1, SeedType
  <2>3. DrawerFits(Seed(d, d.row, FALSE))
    BY <2>1, SeedFits
  <2>4. QED
    BY <2>2, <2>3
<1>2. PICK s \in Drawer : s = [e EXCEPT !.submit = NoSubmit] /\ DrawerFits(s)
  BY <1>1, DoneType
<1>3. Saved(d) = [s EXCEPT !.queue = Append(s.queue, "list")]
  BY <1>1, <1>2 DEF Saved, Drawer
<1>4. QED
  BY <1>2, <1>3, AppendedType DEF Asks

-----------------------------------------------------------------------------
LEMMA OpenDrawerInv ==
  ASSUME SettingsInv, NEW a \in Admins, OpenDrawer(a) PROVE SettingsInv'
<1>1. /\ drawer[a] \in Drawer /\ DrawerFits(drawer[a]) /\ saApp \in Settings
      /\ drawer[a].row \in Settings /\ drawer[a].row["method"] = Unset
  BY DEF SettingsInv, SettingsTypeOK, Drawer, DrawerFits
<1>2. PICK row \in {drawer[a].row, Row(saApp)} : Draw(a, Seed(drawer[a], row, TRUE))
  BY DEF OpenDrawer
<1>3. row \in Settings /\ row["method"] = Unset
  BY <1>1, RowType
<1>4. PICK d \in Drawer : d = Seed(drawer[a], row, TRUE) /\ DrawerFits(d)
  <2>1. Seed(drawer[a], row, TRUE) \in Drawer
    BY <1>1, <1>3, SeedType
  <2>2. DrawerFits(Seed(drawer[a], row, TRUE))
    BY <1>1, <1>3, SeedFits DEF DrawerFits
  <2>3. QED
    BY <2>1, <2>2
<1>5. QED
  BY <1>2, <1>4, DrawAloneInv DEF OpenDrawer

LEMMA CloseDrawerInv ==
  ASSUME SettingsInv, NEW a \in Admins, CloseDrawer(a) PROVE SettingsInv'
<1>1. /\ drawer[a] \in Drawer /\ DrawerFits(drawer[a])
      /\ drawer[a].row \in Settings /\ drawer[a].row["method"] = Unset
  BY DEF SettingsInv, SettingsTypeOK, Drawer, DrawerFits
<1>2. PICK d \in Drawer : d = Seed(drawer[a], drawer[a].row, FALSE) /\ DrawerFits(d)
  <2>1. Seed(drawer[a], drawer[a].row, FALSE) \in Drawer
    BY <1>1, SeedType
  <2>2. DrawerFits(Seed(drawer[a], drawer[a].row, FALSE))
    BY <1>1, SeedFits DEF DrawerFits
  <2>3. QED
    BY <2>1, <2>2
<1>3. QED
  BY <1>2, DrawAloneInv DEF CloseDrawer

LEMMA EditFieldInv ==
  ASSUME SettingsInv, NEW a \in Admins, NEW f \in Fields, NEW value \in Values, EditField(a, f, value)
  PROVE  SettingsInv'
<1>1. /\ drawer[a] \in Drawer /\ DrawerFits(drawer[a]) /\ drawer[a].form \in Settings
      /\ drawer[a].touched \in SUBSET (Fields \cup {"social"})
  BY DEF SettingsInv, SettingsTypeOK, Drawer
<1>2. PICK form : form = [drawer[a].form EXCEPT ![f] = value]
  OBVIOUS
<1>3. form \in Settings /\ form[f] = value /\ \A g \in Fields \ {f} : form[g] = drawer[a].form[g]
  <2>1. /\ drawer[a].form \in [Fields -> Values] /\ drawer[a].form["method"] \in {Unset, Code}
        /\ f = "method" => value \in {Unset, Code}
    BY <1>1, SettingsTypes DEF EditField
  <2>2. form \in [Fields -> Values] /\ form["method"] \in {Unset, Code} /\ form[f] = value
    BY <1>2, <2>1, SettingsTypes
  <2>3. QED
    BY <1>2, <2>1, <2>2, SettingsTypes
<1>4. PICK touched \in SUBSET (Fields \cup {"social"}) : touched = drawer[a].touched \cup {f}
  BY <1>1
<1>5. PICK d : d = [drawer[a] EXCEPT !.form = form, !.touched = touched]
  OBVIOUS
<1>6. /\ d \in Drawer /\ d.form = form /\ d.touched = touched /\ d.base = drawer[a].base
      /\ d.row = drawer[a].row /\ d.submit = drawer[a].submit
      /\ d.checked = drawer[a].checked /\ d.initial = drawer[a].initial
  BY <1>1, <1>3, <1>5 DEF Drawer
<1>7. DrawerFits(d)
  BY <1>1, <1>3, <1>4, <1>6 DEF DrawerFits
<1>8. Draw(a, d)
  BY <1>1, <1>2, <1>4, <1>5 DEF EditField
<1>9. QED
  BY <1>6, <1>7, <1>8, DrawAloneInv DEF EditField

\* A drawer of which only what is not a field has changed.
LEMMA BoxesFit ==
  ASSUME NEW c, NEW d, DrawerFits(c), d.form = c.form, d.base = c.base, d.row = c.row,
         d.submit = c.submit, \A f \in Fields : f \in c.touched => f \in d.touched,
         d.checked # d.initial => "social" \in d.touched
  PROVE  DrawerFits(d)
BY DEF DrawerFits

LEMMA ToggleProviderInv ==
  ASSUME SettingsInv, NEW a \in Admins, NEW p \in Providers, ToggleProvider(a, p)
  PROVE  SettingsInv'
<1>1. /\ drawer[a] \in Drawer /\ DrawerFits(drawer[a])
      /\ drawer[a].checked \in SUBSET Providers
      /\ drawer[a].touched \in SUBSET (Fields \cup {"social"})
  BY DEF SettingsInv, SettingsTypeOK, Drawer
<1>2. PICK checked \in SUBSET Providers :
        checked = IF p \in drawer[a].checked THEN drawer[a].checked \ {p}
                  ELSE drawer[a].checked \cup {p}
  BY <1>1
<1>3. PICK touched \in SUBSET (Fields \cup {"social"}) : touched = drawer[a].touched \cup {"social"}
  BY <1>1
<1>4. PICK d : d = [drawer[a] EXCEPT !.checked = checked, !.touched = touched]
  OBVIOUS
<1>5. /\ d \in Drawer /\ d.form = drawer[a].form /\ d.touched = touched /\ d.base = drawer[a].base
      /\ "social" \in touched /\ d.row = drawer[a].row /\ d.submit = drawer[a].submit
  BY <1>1, <1>3, <1>4 DEF Drawer
<1>6. DrawerFits(d)
  BY <1>1, <1>3, <1>5, BoxesFit
<1>7. Draw(a, d)
  BY <1>1, <1>2, <1>3, <1>4 DEF ToggleProvider
<1>8. QED
  BY <1>5, <1>6, <1>7, DrawAloneInv DEF ToggleProvider

LEMMA HandleSubmitInv ==
  ASSUME SettingsInv, NEW a \in Admins, HandleSubmit(a) PROVE SettingsInv'
<1> DEFINE c == drawer[a]
<1>1. /\ c \in Drawer /\ DrawerFits(c) /\ c.form \in Settings /\ c.base \in Settings
      /\ c.touched \in SUBSET (Fields \cup {"social"}) /\ c.checked \in SUBSET Providers
      /\ c.queue \in Seq(Asks)
  BY DEF SettingsInv, SettingsTypeOK, Drawer, Asks
<1>2. PICK patch : patch = [f \in Fields |-> IF f \in DirtyFields(c) THEN c.form[f] ELSE Keep]
  OBVIOUS
<1>3. /\ patch \in [Fields -> Values \cup {Keep}]
      /\ \A f \in Fields : patch[f] # Keep => patch[f] = c.form[f] /\ c.form[f] # c.base[f]
  BY <1>1, <1>2 DEF Settings, DirtyFields
<1>4. PICK social \in BOOLEAN : social = SocialDirty(c)
  BY DEF SocialDirty
<1>16. PICK left \in SUBSET Providers :
         left = IF SocialDirty(c) THEN Providers ELSE {}
  OBVIOUS
<1>17. left # {} => "social" \in c.touched
  BY <1>1, <1>16 DEF SocialDirty, DrawerFits
<1>5. PICK submit : submit = [patch |-> patch, providers |-> c.checked, social |-> social,
                              meant |-> c.touched, left |-> left]
  OBVIOUS
<1>6. submit \in Submit /\ submit.patch = patch /\ submit.meant = c.touched /\ submit.left = left
  BY <1>1, <1>3, <1>5 DEF Submit
<1>7. SubmitFits(submit)
  <2>1. patch["method"] \in {Keep, Code}
    BY <1>1, <1>3, SettingsTypes DEF DrawerFits
  <2>2. QED
    BY <1>1, <1>3, <1>6, <1>17, <2>1 DEF SubmitFits, DrawerFits
<1>8. PICK ask \in Asks : ask = IF DirtyFields(c) # {} THEN "update" ELSE "setSocial"
  BY DEF Asks
<1>9. PICK d : d = [c EXCEPT !.submit = submit]
  OBVIOUS
<1>10. /\ d \in Drawer /\ d.form = c.form /\ d.touched = c.touched /\ d.base = c.base
       /\ d.checked = c.checked /\ d.initial = c.initial
       /\ d.row = c.row /\ d.submit = submit /\ d.queue = c.queue
  BY <1>1, <1>6, <1>9 DEF Drawer
<1>11. DrawerFits(d)
  BY <1>1, <1>7, <1>10 DEF DrawerFits
<1>12. PICK e : e = [d EXCEPT !.queue = Append(d.queue, ask)]
  OBVIOUS
<1>13. e \in Drawer /\ DrawerFits(e)
  BY <1>10, <1>11, <1>12, AppendedType
<1>14. Draw(a, e)
  <2>1. e = [c EXCEPT !.submit = submit, !.queue = Append(c.queue, ask)]
    BY <1>1, <1>9, <1>10, <1>12
  <2>2. Draw(a, [c EXCEPT !.submit = submit, !.queue = Append(c.queue, ask)])
    BY <1>2, <1>4, <1>5, <1>8, <1>16 DEF HandleSubmit
  <2>3. QED
    BY <2>1, <2>2
<1>15. QED
  BY <1>13, <1>14, DrawAloneInv DEF HandleSubmit

LEMMA HandleRotateInv ==
  ASSUME SettingsInv, NEW a \in Admins, HandleRotateWebhookSecret(a) PROVE SettingsInv'
<1>1. drawer[a] \in Drawer /\ DrawerFits(drawer[a])
  BY DEF SettingsInv, SettingsTypeOK
<1>2. PICK d : d = [drawer[a] EXCEPT !.queue = Append(drawer[a].queue, "rotate")]
  OBVIOUS
<1>3. d \in Drawer /\ DrawerFits(d)
  BY <1>1, <1>2, AppendedType DEF Asks
<1>4. Draw(a, d)
  BY <1>2 DEF HandleRotateWebhookSecret
<1>5. QED
  BY <1>3, <1>4, DrawAloneInv DEF HandleRotateWebhookSecret

-----------------------------------------------------------------------------
LEMMA GetAppInv ==
  ASSUME SettingsInv, NEW a \in Admins, GetApp(a) PROVE SettingsInv'
<1>1. PICK c \in Drawer : c = Answered(a) /\ DrawerFits(c)
  BY AnsweredType DEF GetApp
<1>2. /\ saApp \in Settings /\ c.form \in Settings /\ c.base \in Settings
      /\ c.touched \in SUBSET (Fields \cup {"social"})
  BY DEF SettingsInv, SettingsTypeOK, Drawer
<1>3. PICK base : base = [c.base EXCEPT !["logo"] = saApp["logo"]]
  OBVIOUS
<1>4. base \in Settings /\ base["logo"] = saApp["logo"] /\ \A g \in Fields \ {"logo"} : base[g] = c.base[g]
  <2>1. c.base \in [Fields -> Values] /\ c.base["method"] \in {Unset, Code} /\ saApp["logo"] \in Values
    BY <1>2, SettingsTypes
  <2>2. base \in [Fields -> Values] /\ base["method"] = c.base["method"]
    BY <1>3, <2>1, SettingsTypes
  <2>3. QED
    BY <1>3, <2>1, <2>2, SettingsTypes
<1>5. PICK half : half = [c.form EXCEPT !["logo"] = saApp["logo"]]
  OBVIOUS
<1>6. half \in Settings /\ half["logo"] = saApp["logo"] /\ \A g \in Fields \ {"logo"} : half[g] = c.form[g]
  <2>1. c.form \in [Fields -> Values] /\ c.form["method"] \in {Unset, Code} /\ saApp["logo"] \in Values
    BY <1>2, SettingsTypes
  <2>2. half \in [Fields -> Values] /\ half["method"] = c.form["method"]
    BY <1>5, <2>1, SettingsTypes
  <2>3. QED
    BY <1>5, <2>1, <2>2, SettingsTypes
<1>7. PICK form : form = [half EXCEPT !["method"] = saApp["method"]]
  OBVIOUS
<1>8. form \in Settings /\ form["method"] = saApp["method"] /\ \A g \in Fields \ {"method"} : form[g] = half[g]
  <2>1. half \in [Fields -> Values] /\ saApp["method"] \in Values \cap {Unset, Code}
    BY <1>2, <1>6, SettingsTypes
  <2>2. form \in [Fields -> Values] /\ form["method"] = saApp["method"]
    BY <1>7, <2>1, SettingsTypes
  <2>3. QED
    BY <1>7, <2>1, <2>2, SettingsTypes
<1>9. PICK touched \in SUBSET (Fields \cup {"social"}) : touched = c.touched \ {"logo", "method"}
  BY <1>2
<1>10. PICK d : d = [c EXCEPT !.form = form, !.base = base, !.touched = touched]
  OBVIOUS
<1>11. /\ d \in Drawer /\ d.form = form /\ d.touched = touched /\ d.base = base
      /\ d.row = c.row /\ d.submit = c.submit
      /\ d.checked = c.checked /\ d.initial = c.initial
  BY <1>4, <1>8, <1>10 DEF Drawer
<1>12. DrawerFits(d)
  <2>1. ASSUME NEW f \in Fields, form[f] # base[f] PROVE f \in touched \/ f = "method"
    <3>1. CASE f = "logo"
      BY <1>4, <1>6, <1>8, <2>1, <3>1
    <3>2. CASE f \notin {"method", "logo"}
      BY <1>1, <1>4, <1>6, <1>8, <1>9, <2>1, <3>2 DEF DrawerFits
    <3>3. QED
      BY <3>1, <3>2
  <2>2. base["method"] = Unset /\ d.row["method"] = Unset /\ SubmitFits(d.submit)
    BY <1>1, <1>4, <1>11 DEF DrawerFits, Fields
  <2>3. d.checked # d.initial => "social" \in touched
    BY <1>1, <1>9, <1>11 DEF DrawerFits
  <2>4. QED
    BY <1>11, <2>1, <2>2, <2>3 DEF DrawerFits
<1>13. Draw(a, d) \/ Draw(a, c)
  BY <1>1, <1>3, <1>5, <1>7, <1>9, <1>10 DEF GetApp, Drawer
<1>14. QED
  BY <1>1, <1>11, <1>12, <1>13, DrawAloneInv DEF GetApp

\* Boxes that are as they were loaded or saved.
LEMMA BoxesKnown ==
  ASSUME NEW c \in Drawer, DrawerFits(c), NEW known \in SUBSET Providers, NEW boxes \in BOOLEAN,
         NEW d, d = [c EXCEPT !.checked = known, !.initial = known, !.boxes = boxes,
                              !.touched = c.touched \ {"social"}]
  PROVE  d \in Drawer /\ DrawerFits(d)
<1>1. PICK touched \in SUBSET (Fields \cup {"social"}) : touched = c.touched \ {"social"}
  BY DEF Drawer
<1>2. d = [c EXCEPT !.checked = known, !.initial = known, !.boxes = boxes, !.touched = touched]
  BY <1>1
<1>3. /\ d \in Drawer /\ d.form = c.form /\ d.base = c.base /\ d.row = c.row
      /\ d.submit = c.submit /\ d.touched = touched /\ d.checked = d.initial
  BY <1>2 DEF Drawer
<1>4. \A f \in Fields : f \in c.touched => f \in d.touched
  BY <1>1, <1>3 DEF Fields
<1>5. DrawerFits(d)
  BY <1>3, <1>4 DEF DrawerFits
<1>6. QED
  BY <1>3, <1>5

LEMMA GetSocialInv ==
  ASSUME SettingsInv, NEW a \in Admins, GetSocial(a) PROVE SettingsInv'
<1>1. PICK c \in Drawer : c = Answered(a) /\ DrawerFits(c)
  BY AnsweredType DEF GetSocial
<1>2. CASE Draw(a, c)
  BY <1>1, <1>2, DrawAloneInv DEF GetSocial
<1>3. ASSUME NEW known \in SUBSET Providers, NEW boxes \in BOOLEAN,
             Draw(a, [c EXCEPT !.checked = known, !.initial = known, !.boxes = boxes,
                               !.touched = c.touched \ {"social"}])
      PROVE  SettingsInv'
  <2>1. PICK d : d = [c EXCEPT !.checked = known, !.initial = known, !.boxes = boxes,
                               !.touched = c.touched \ {"social"}]
    OBVIOUS
  <2>2. d \in Drawer /\ DrawerFits(d)
    BY <1>1, <2>1, BoxesKnown
  <2>3. QED
    BY <1>3, <2>1, <2>2, DrawAloneInv DEF GetSocial
<1>4. CASE Draw(a, [c EXCEPT !.checked = enabled, !.initial = enabled, !.boxes = TRUE,
                             !.touched = c.touched \ {"social"}])
  <2>1. enabled \in SUBSET Providers
    BY DEF SettingsInv, SettingsTypeOK
  <2>2. QED
    BY <1>3, <1>4, <2>1
<1>5. CASE Draw(a, [c EXCEPT !.checked = {}, !.initial = {}, !.touched = c.touched \ {"social"}])
  <2>1. c.boxes \in BOOLEAN /\ {} \in SUBSET Providers
    BY DEF Drawer
  <2>2. [c EXCEPT !.checked = {}, !.initial = {}, !.touched = c.touched \ {"social"}]
          = [c EXCEPT !.checked = {}, !.initial = {}, !.boxes = c.boxes,
                      !.touched = c.touched \ {"social"}]
    BY DEF Drawer
  <2>3. QED
    BY <1>3, <1>5, <2>1, <2>2
<1>6. QED
  BY <1>1, <1>2, <1>4, <1>5 DEF GetSocial

LEMMA PatchedFits ==
  ASSUME SettingsInv, NEW a \in Admins
  PROVE  Patched(drawer[a].submit.patch) \in Settings
<1> DEFINE patch == drawer[a].submit.patch
<1>1. /\ patch \in [Fields -> Values \cup {Keep}] /\ patch["method"] \in {Keep, Code}
      /\ saApp \in Settings
  BY DEF SettingsInv, SettingsTypeOK, DrawerFits, SubmitFits, Drawer, Submit
<1>2. Patched(patch) = [f \in Fields |-> IF patch[f] = Keep THEN saApp[f] ELSE patch[f]]
  BY DEF Patched
<1> HIDE DEF patch
<1>3. Patched(patch) \in [Fields -> Values]
  BY <1>1, <1>2, SettingsTypes
<1>4. Patched(patch)["method"] = IF patch["method"] = Keep THEN saApp["method"] ELSE Code
  BY <1>1, <1>2, SettingsTypes
<1>5. Patched(patch) \in Settings
  BY <1>1, <1>3, <1>4, SettingsTypes
<1>6. QED
  BY <1>5 DEF patch

LEMMA FailedType ==
  ASSUME SettingsInv, NEW a \in Admins, NEW ask, Turn(a, ask)
  PROVE  Failed(a) \in Drawer /\ DrawerFits(Failed(a))
<1>1. PICK c \in Drawer : c = Answered(a) /\ DrawerFits(c)
  BY AnsweredType
<1>2. QED
  BY <1>1, DoneType DEF Failed

LEMMA UpdateAppInv ==
  ASSUME SettingsInv, NEW a \in Admins, UpdateApp(a) PROVE SettingsInv'
<1>1. PICK c \in Drawer : c = Answered(a) /\ DrawerFits(c)
  BY AnsweredType DEF UpdateApp
<1>2. secret \in BOOLEAN /\ enabled \subseteq Providers /\ saApp \in Settings
  BY DEF SettingsInv, SettingsTypeOK
<1>3. CASE Draw(a, Failed(a)) /\ UNCHANGED <<saApp, secret>>
  <2>1. Failed(a) \in Drawer /\ DrawerFits(Failed(a))
    BY FailedType DEF UpdateApp
  <2>2. QED
    BY <1>3, <2>1, DrawAloneInv DEF UpdateApp
<1>4. CASE /\ saApp' = Patched(drawer[a].submit.patch)
           /\ secret' = (secret /\ drawer[a].submit.patch["hook"] # Unset)
           /\ Draw(a, IF drawer[a].submit.social
                        THEN [Answered(a) EXCEPT !.queue = Append(Answered(a).queue, "setSocial")]
                      ELSE Saved(Answered(a)))
  <2>1. saApp' \in Settings /\ secret' \in BOOLEAN
    BY <1>2, <1>4, PatchedFits
  <2>2. PICK e : e = [c EXCEPT !.queue = Append(c.queue, "setSocial")]
    OBVIOUS
  <2>3. e \in Drawer /\ DrawerFits(e)
    BY <1>1, <2>2, AppendedType DEF Asks
  <2>4. Saved(c) \in Drawer /\ DrawerFits(Saved(c))
    BY <1>1, SavedType
  <2>5. Draw(a, e) \/ Draw(a, Saved(c))
    BY <1>1, <1>4, <2>2
  <2>6. enabled' \subseteq Providers
    BY <1>2 DEF UpdateApp
  <2>7. QED
    BY <2>1, <2>3, <2>4, <2>5, <2>6, DrawInv
<1>5. QED
  BY <1>3, <1>4 DEF UpdateApp

LEMMA SetForAppInv ==
  ASSUME SettingsInv, NEW a \in Admins, SetForApp(a) PROVE SettingsInv'
<1>1. CASE Draw(a, Failed(a)) /\ UNCHANGED enabled
  <2>1. Failed(a) \in Drawer /\ DrawerFits(Failed(a))
    BY FailedType DEF SetForApp
  <2>2. QED
    BY <1>1, <2>1, DrawAloneInv DEF SetForApp
<1>2. ASSUME NEW p \in drawer[a].submit.left,
             enabled' = IF p \in drawer[a].submit.providers THEN enabled \cup {p} ELSE enabled \ {p},
             Draw(a, [drawer[a] EXCEPT !.submit.left = drawer[a].submit.left \ {p}])
      PROVE  SettingsInv'
  <2>1. /\ drawer[a] \in Drawer /\ DrawerFits(drawer[a]) /\ drawer[a].submit \in Submit
        /\ drawer[a].submit.left \in SUBSET Providers
        /\ saApp \in Settings /\ secret \in BOOLEAN /\ enabled \subseteq Providers
    BY DEF SettingsInv, SettingsTypeOK, Drawer, Submit
  <2>2. PICK left \in SUBSET Providers : left = drawer[a].submit.left \ {p}
    BY <2>1
  <2>3. PICK submit : submit = [drawer[a].submit EXCEPT !.left = left]
    OBVIOUS
  <2>4. submit \in Submit /\ submit.patch = drawer[a].submit.patch /\ submit.meant = drawer[a].submit.meant
        /\ submit.left = left
    BY <2>1, <2>3 DEF Submit
  <2>5. PICK d : d = [drawer[a] EXCEPT !.submit = submit]
    OBVIOUS
  <2>6. /\ d \in Drawer /\ d.form = drawer[a].form /\ d.touched = drawer[a].touched
        /\ d.base = drawer[a].base /\ d.row = drawer[a].row /\ d.submit = submit
        /\ d.checked = drawer[a].checked /\ d.initial = drawer[a].initial
    BY <2>1, <2>4, <2>5 DEF Drawer
  <2>7. DrawerFits(d)
    BY <2>1, <2>2, <2>4, <2>6 DEF DrawerFits, SubmitFits
  <2>8. Draw(a, d)
    BY <1>2, <2>2, <2>3, <2>5
  <2>9. saApp' = saApp /\ secret' = secret /\ enabled' \subseteq Providers
    BY <1>2, <2>1 DEF SetForApp
  <2>10. QED
    BY <2>1, <2>6, <2>7, <2>8, <2>9, DrawInv
<1>3. QED
  BY <1>1, <1>2 DEF SetForApp

LEMMA SocialSavedInv ==
  ASSUME SettingsInv, NEW a \in Admins, SocialSaved(a) PROVE SettingsInv'
<1>1. PICK c \in Drawer : c = Answered(a) /\ DrawerFits(c)
  BY AnsweredType DEF SocialSaved
<1>2. PICK providers \in SUBSET Providers : providers = drawer[a].submit.providers
  BY DEF SettingsInv, SettingsTypeOK, Drawer, Submit
<1>3. PICK d : d = [c EXCEPT !.checked = providers, !.initial = providers,
                             !.touched = c.touched \ {"social"}]
  OBVIOUS
<1>4. d = [c EXCEPT !.checked = providers, !.initial = providers, !.boxes = c.boxes,
                    !.touched = c.touched \ {"social"}]
  BY <1>3 DEF Drawer
<1>5. d \in Drawer /\ DrawerFits(d)
  <2>1. c.boxes \in BOOLEAN
    BY DEF Drawer
  <2>2. QED
    BY <1>1, <1>4, <2>1, BoxesKnown
<1>6. Saved(d) \in Drawer /\ DrawerFits(Saved(d))
  BY <1>5, SavedType
<1>7. Draw(a, Saved(d))
  BY <1>1, <1>2, <1>3 DEF SocialSaved
<1>8. QED
  BY <1>6, <1>7, DrawAloneInv DEF SocialSaved

LEMMA ReadForRotationInv ==
  ASSUME SettingsInv, NEW a \in Admins, ReadForRotation(a) PROVE SettingsInv'
<1>1. Answered(a) \in Drawer /\ DrawerFits(Answered(a))
  BY AnsweredType DEF ReadForRotation
<1>2. /\ drawer[a] \in Drawer /\ DrawerFits(drawer[a])
      /\ drawer[a].queue \in Seq(Asks) /\ drawer[a].queue # <<>>
  BY DEF SettingsInv, SettingsTypeOK, Drawer, Asks, ReadForRotation, Turn
<1>3. PICK queue \in Seq(Asks) : queue = <<"mint">> \o Tail(drawer[a].queue)
  <2>1. Tail(drawer[a].queue) \in Seq(Asks)
    BY <1>2, HeadTailProperties
  <2>2. <<"mint">> \in Seq(Asks)
    BY DEF Asks
  <2>3. <<"mint">> \o Tail(drawer[a].queue) \in Seq(Asks)
    BY <2>1, <2>2, ConcatProperties
  <2>4. QED
    BY <2>3
<1>4. PICK d : d = [drawer[a] EXCEPT !.queue = queue]
  OBVIOUS
<1>5. /\ d \in Drawer /\ d.form = drawer[a].form /\ d.touched = drawer[a].touched
      /\ d.base = drawer[a].base /\ d.row = drawer[a].row /\ d.submit = drawer[a].submit
      /\ d.checked = drawer[a].checked /\ d.initial = drawer[a].initial
  BY <1>2, <1>4 DEF Drawer, Asks
<1>6. DrawerFits(d)
  BY <1>2, <1>5 DEF DrawerFits
<1>7. Draw(a, d) \/ Draw(a, Answered(a))
  BY <1>3, <1>4 DEF ReadForRotation
<1>8. QED
  BY <1>1, <1>5, <1>6, <1>7, DrawAloneInv DEF ReadForRotation

LEMMA WriteSecretInv ==
  ASSUME SettingsInv, NEW a \in Admins, WriteWebhookSecret(a) PROVE SettingsInv'
<1>1. Answered(a) \in Drawer /\ DrawerFits(Answered(a))
  BY AnsweredType DEF WriteWebhookSecret
<1>2. saApp' = saApp /\ secret' \in BOOLEAN /\ enabled' \subseteq Providers /\ saApp \in Settings
  BY DEF SettingsInv, SettingsTypeOK, WriteWebhookSecret
<1>3. QED
  BY <1>1, <1>2, DrawInv DEF WriteWebhookSecret

LEMMA RefreshListInv ==
  ASSUME SettingsInv, NEW a \in Admins, RefreshList(a) PROVE SettingsInv'
<1>1. PICK c \in Drawer : c = Answered(a) /\ DrawerFits(c)
  BY AnsweredType DEF RefreshList
<1>2. saApp \in Settings
  BY DEF SettingsInv, SettingsTypeOK
<1>3. PICK row \in Settings, open \in BOOLEAN :
        row = Row(saApp) /\ row["method"] = Unset /\ open = c.open
  BY <1>2, RowType DEF Drawer
<1>4. Seed(c, row, open) \in Drawer
  BY SeedType
<1>5. DrawerFits(Seed(c, row, open))
  BY <1>1, <1>3, SeedFits DEF DrawerFits
<1>6. Draw(a, Seed(c, row, open)) \/ Draw(a, c)
  BY <1>1, <1>3 DEF RefreshList
<1>7. QED
  BY <1>1, <1>4, <1>5, <1>6, DrawAloneInv DEF RefreshList

LEMMA ElsewhereInv ==
  ASSUME SettingsInv,
         \/ \E f \in Fields, value \in Values : PatchedElsewhere(f, value)
         \/ \E p \in Providers : ProviderSetElsewhere(p)
  PROVE  SettingsInv'
<1>1. /\ saApp \in Settings /\ secret \in BOOLEAN /\ enabled \subseteq Providers
      /\ drawer \in [Admins -> Drawer] /\ \A a \in Admins : DrawerFits(drawer[a])
  BY DEF SettingsInv, SettingsTypeOK
<1>2. drawer' = drawer
  BY DEF PatchedElsewhere, ProviderSetElsewhere
<1>3. ASSUME NEW f \in Fields, NEW value \in Values, PatchedElsewhere(f, value)
      PROVE  saApp' \in Settings /\ secret' \in BOOLEAN /\ enabled' \subseteq Providers
  <2>1. /\ saApp' = [saApp EXCEPT ![f] = value] /\ saApp \in [Fields -> Values]
        /\ saApp["method"] \in {Unset, Code} /\ (f = "method" => value \in {Unset, Code})
    BY <1>1, <1>3, SettingsTypes DEF PatchedElsewhere
  <2>2. saApp' \in [Fields -> Values] /\ saApp'["method"] \in {Unset, Code}
    BY <2>1, SettingsTypes
  <2>3. QED
    BY <1>1, <1>3, <2>2, SettingsTypes DEF PatchedElsewhere
<1>4. ASSUME NEW p \in Providers, ProviderSetElsewhere(p)
      PROVE  saApp' \in Settings /\ secret' \in BOOLEAN /\ enabled' \subseteq Providers
  BY <1>1, <1>4 DEF ProviderSetElsewhere
<1>5. saApp' \in Settings /\ secret' \in BOOLEAN /\ enabled' \subseteq Providers
  BY <1>3, <1>4
<1>6. QED
  BY <1>1, <1>2, <1>5 DEF SettingsInv, SettingsTypeOK

-----------------------------------------------------------------------------
LEMMA SettingsNextInv == SettingsInv /\ [SettingsNext]_settingsVars => SettingsInv'
<1> SUFFICES ASSUME SettingsInv, [SettingsNext]_settingsVars PROVE SettingsInv'
  OBVIOUS
<1>1. CASE UNCHANGED settingsVars
  BY <1>1 DEF settingsVars, SettingsInv, SettingsTypeOK, DrawerFits, SubmitFits
<1>2. ASSUME NEW a \in Admins,
             OpenDrawer(a) \/ CloseDrawer(a) \/ HandleSubmit(a) \/ HandleRotateWebhookSecret(a)
      PROVE  SettingsInv'
  BY <1>2, OpenDrawerInv, CloseDrawerInv, HandleSubmitInv, HandleRotateInv
<1>3. ASSUME NEW a \in Admins, NEW f \in Fields, NEW value \in Values, EditField(a, f, value)
      PROVE  SettingsInv'
  BY <1>3, EditFieldInv
<1>4. ASSUME NEW a \in Admins, NEW p \in Providers, ToggleProvider(a, p) PROVE SettingsInv'
  BY <1>4, ToggleProviderInv
<1>5. ASSUME NEW a \in Admins,
             GetApp(a) \/ GetSocial(a) \/ UpdateApp(a) \/ SetForApp(a) \/ SocialSaved(a)
      PROVE  SettingsInv'
  BY <1>5, GetAppInv, GetSocialInv, UpdateAppInv, SetForAppInv, SocialSavedInv
<1>6. ASSUME NEW a \in Admins, ReadForRotation(a) \/ WriteWebhookSecret(a) \/ RefreshList(a)
      PROVE  SettingsInv'
  BY <1>6, ReadForRotationInv, WriteSecretInv, RefreshListInv
<1>7. QED
  BY <1>1, <1>2, <1>3, <1>4, <1>5, <1>6, ElsewhereInv DEF SettingsNext

\* The app, its providers and every drawer with its queue of server actions have their
\* types; the method stays one of the two that assertValidEmailVerificationMethod knows.
THEOREM SettingsTypeCorrect == SettingsSpec => []SettingsTypeOK
<1>1. SettingsInv => SettingsTypeOK
  BY DEF SettingsInv
<1>2. QED
  BY SettingsInitInv, SettingsNextInv, <1>1, PTL DEF SettingsSpec

LEMMA SparedStep == SettingsInv /\ [SettingsNext]_settingsVars => SettingsSpared
<1> SUFFICES ASSUME SettingsInv, NEW a \in Admins PROVE
      LET meant == drawer[a].submit.meant IN
      /\ UpdateApp(a) => \A f \in Fields :
           saApp'[f] # saApp[f] => f \in meant \/ (f = "method" /\ saApp'[f] = Code)
      /\ SetForApp(a) /\ enabled' # enabled => "social" \in meant
  BY DEF SettingsSpared
<1> DEFINE submit == drawer[a].submit
<1>1. SubmitFits(submit) /\ submit.patch \in [Fields -> Values \cup {Keep}]
  BY DEF SettingsInv, SettingsTypeOK, DrawerFits, Drawer, Submit
<1>2. ASSUME UpdateApp(a), NEW f \in Fields, saApp'[f] # saApp[f]
      PROVE  f \in submit.meant \/ (f = "method" /\ saApp'[f] = Code)
  <2>1. saApp' = Patched(submit.patch)
    BY <1>2 DEF UpdateApp
  <2>2. submit.patch[f] # Keep /\ saApp'[f] = submit.patch[f]
    BY <1>2, <2>1 DEF Patched
  <2>3. f \in submit.meant \/ f = "method"
    BY <1>1, <2>2 DEF SubmitFits
  <2>4. f = "method" => submit.patch[f] = Code
    BY <1>1, <2>2 DEF SubmitFits
  <2>5. QED
    BY <2>2, <2>3, <2>4
<1>3. ASSUME SetForApp(a) PROVE "social" \in submit.meant
  BY <1>1, <1>3 DEF SetForApp, SubmitFits
<1>4. QED
  BY <1>2, <1>3

\* Whatever the age of the row, the order of the answers and the changes of others, a
\* save of the app's drawer changes only fields that its admin edited, or puts 'code'
\* back where the drawer shows it; and the providers only if he ticked one.
THEOREM SettingsAreSpared == SettingsSpec => [][SettingsSpared]_settingsVars
BY SettingsInitInv, SettingsNextInv, SparedStep, PTL DEF SettingsSpec

-----------------------------------------------------------------------------
(* The parts together *)

\* One part moves in a behaviour and the others rest, so each behaves as its own
\* specification says.
LEMMA ConsolePartsKeepTheirSpecs ==
  ConsoleSpec => /\ Spec /\ RatesSpec /\ AccessSpec /\ RegistrySpec
                 /\ ListSpec /\ DrawerSpec /\ SettingsSpec
<1>1. ConsoleInit => /\ Init /\ RatesInit /\ AccessInit /\ RegistryInit
                     /\ ListInit /\ DrawerInit /\ SettingsInit
  BY DEF ConsoleInit
<1>2. [ConsoleNext]_ConsoleVars =>
        /\ [Next]_vars /\ [RatesNext]_rateVars /\ [AccessNext]_accessVars
        /\ [RegistryNext]_registryVars /\ [ListNext]_listVars /\ [DrawerNext]_drawerVars
        /\ [SettingsNext]_settingsVars
  <2>1. CASE UNCHANGED ConsoleVars
    BY <2>1 DEF ConsoleVars
  <2>2. CASE ConsoleNext
    <3>1. /\ (scene = "lifecycle" /\ Next) \/ UNCHANGED vars
          /\ (scene = "limits" /\ RatesNext) \/ UNCHANGED rateVars
          /\ (scene = "access" /\ AccessNext) \/ UNCHANGED accessVars
          /\ (scene = "registry" /\ RegistryNext) \/ UNCHANGED registryVars
          /\ (scene = "list" /\ ListNext) \/ UNCHANGED listVars
          /\ (scene = "user" /\ DrawerNext) \/ UNCHANGED drawerVars
          /\ (scene = "app" /\ SettingsNext) \/ UNCHANGED settingsVars
      BY <2>2 DEF ConsoleNext, Rest
    <3>2. QED
      BY <3>1
  <2>3. QED
    BY <2>1, <2>2
<1>3. QED
  BY <1>1, <1>2, PTL DEF ConsoleSpec, Spec, RatesSpec, AccessSpec, RegistrySpec, ListSpec,
       DrawerSpec, SettingsSpec

\* Every variable of the console's parts has its type.
THEOREM ConsoleTypes == ConsoleSpec => []ConsoleTypeOK
<1>1. TypeOK /\ RatesTypeOK /\ AccessTypeOK /\ RegistryTypeOK /\ ListTypeOK
        /\ DrawerTypeOK /\ SettingsTypeOK => ConsoleTypeOK
  BY DEF ConsoleTypeOK
<1>2. QED
  BY <1>1, ConsolePartsKeepTheirSpecs, LifecycleTypeCorrect, RatesTypeCorrect,
     AccessTypeCorrect, RegistryTypeCorrect, ListTypeCorrect, DrawerTypeCorrect,
     SettingsTypeCorrect, PTL

\* Whatever is saved in the console's drawers spares what its admin has not changed:
\* a user's axes, an app's settings but for a method of 'code', a role's permissions.
THEOREM SavesAlwaysSpare == ConsoleSpec => SavesSpareTheUntouched
<1>1. [AxesSpared]_drawerVars /\ [SettingsSpared]_settingsVars /\ [GrantsSpared]_listVars
        => AxesSpared /\ SettingsSpared /\ GrantsSpared
  <2>1. UNCHANGED drawerVars => AxesSpared
    BY DEF drawerVars, AxesSpared
  <2>2. UNCHANGED settingsVars => SettingsSpared
    BY DEF settingsVars, SettingsSpared
  <2>3. UNCHANGED listVars => GrantsSpared
    BY DEF listVars, GrantsSpared
  <2>4. QED
    BY <2>1, <2>2, <2>3
<1>2. QED
  BY <1>1, ConsolePartsKeepTheirSpecs, AxesAreSpared, SettingsAreSpared, GrantsAreSpared, PTL
     DEF SavesSpareTheUntouched
=============================================================================
