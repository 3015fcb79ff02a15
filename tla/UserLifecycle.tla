---------------------------- MODULE UserLifecycle ----------------------------
(***************************************************************************)
(* The life of an invited user: UsersService.createUser, updateUser (its   *)
(* status), resendInvitation and deleteUser, and InvitationsService        *)
(* acceptInvitation.  Admins and the invited user act at the same time, on *)
(* any replica.                                                            *)
(*                                                                         *)
(* A transaction appears as the step at which it commits, preceded by a    *)
(* step for what its first statement saw; PostgreSQL's row locks and the   *)
(* unique index on Account (providerId, accountId) order the commits.      *)
(*                                                                         *)
(* Data: an invitation's expiresAt is kept as what became of it - still    *)
(* valid, lapsed with time, or set to the epoch by a resend (cancelled).   *)
(* Names, roles, permissions, mail and the activation webhook are left out;*)
(* what deactivation does to sessions and tokens is in AccountAccess.      *)
(***************************************************************************)
EXTENDS FiniteSets, Naturals

CONSTANTS
  Users,           \* SaUser rows ever created, each with its BetterAuth user
  Invitations,     \* SaInvitation rows ever created, each with its token
  Requests,        \* slots for handlers running at the same time
  None             \* null

SaInvitation ==
  [user : Users, used : BOOLEAN, expiry : {"valid", "lapsed", "cancelled"}]

ASSUME ConstantsAssumption == None \notin Users \cup Invitations \cup SaInvitation

VARIABLES
  status,          \* SaUser.status, "absent" before creation, "deleted" after
  credential,      \* users with a BetterAuth Account of provider 'credential'
  invitation,      \* the rows of SaInvitation, None where none is
  req              \* the handlers in flight

vars == <<status, credential, invitation, req>>

Status == {"pending", "active", "inactive"}

Phases == {"idle", "updating", "accepting", "resending", "replacing"}

Request ==
  [phase : Phases, user : Users \cup {None}, want : Status \cup {None},
   inv : Invitations \cup {None}, targets : SUBSET Invitations]

IdleRequest ==
  [phase |-> "idle", user |-> None, want |-> None, inv |-> None, targets |-> {}]

Exists(u) == status[u] \in Status

Unused(i) == invitation[i] # None /\ ~invitation[i].used

UnusedOf(u) == {i \in Invitations : Unused(i) /\ invitation[i].user = u}

Init ==
  /\ status = [u \in Users |-> "absent"]
  /\ credential = {}
  /\ invitation = [i \in Invitations |-> None]
  /\ req = [r \in Requests |-> IdleRequest]

Begin(r, rec) == req[r].phase = "idle" /\ req' = [req EXCEPT ![r] = rec]

Finish(r) == req' = [req EXCEPT ![r] = IdleRequest]

-----------------------------------------------------------------------------
\* Slip: the row does not say whom it invites.
MutNewInvitation(u) == [user |-> None, used |-> FALSE, expiry |-> "valid"]

NewInvitation(u) == [user |-> u, used |-> FALSE, expiry |-> "valid"]

\* createUser: user, SaUser and invitation in one transaction.
CreateUser(u, i) ==
  /\ status[u] = "absent" /\ invitation[i] = None
  /\ status' = [status EXCEPT ![u] = "pending"]
  /\ invitation' = [invitation EXCEPT ![i] = NewInvitation(u)]
  /\ UNCHANGED <<credential, req>>

\* deleteUser: invitations and account go with the rows they refer to.
DeleteUser(u) ==
  /\ Exists(u)
  /\ status' = [status EXCEPT ![u] = "deleted"]
  /\ credential' = credential \ {u}
  /\ invitation' = [i \in Invitations |->
       IF invitation[i] # None /\ invitation[i].user = u THEN None ELSE invitation[i]]
  /\ UNCHANGED req

(* updateUser *)

\* The user is read: a pending one may not be made active here.
ReadUser(r, u, want) ==
  /\ Exists(u)
  /\ ~(want = "active" /\ status[u] = "pending")
  /\ Begin(r, [IdleRequest EXCEPT !.phase = "updating", !.user = u, !.want = want])
  /\ UNCHANGED <<status, credential, invitation>>

\* The status is written, whatever it is by now.
WriteStatus(r) ==
  /\ req[r].phase = "updating"
  /\ Exists(req[r].user)
  /\ status' = [status EXCEPT ![req[r].user] = req[r].want]
  /\ Finish(r)
  /\ UNCHANGED <<credential, invitation>>

(* acceptInvitation *)

ReadInvitation(r, i) ==
  /\ Unused(i) /\ invitation[i].expiry = "valid"
  /\ Begin(r, [IdleRequest EXCEPT !.phase = "accepting", !.inv = i])
  /\ UNCHANGED <<status, credential, invitation>>

\* The claim matches, the account is new, the user becomes active.  An
\* invitation may lapse after the `now` of the claim was taken.
CommitAcceptance(r) ==
  LET i == req[r].inv IN
  /\ req[r].phase = "accepting"
  /\ Unused(i) /\ invitation[i].expiry # "cancelled"
  /\ invitation[i].user \notin credential
  /\ invitation' = [invitation EXCEPT ![i].used = TRUE]
  /\ credential' = credential \cup {invitation[i].user}
  /\ status' = [status EXCEPT ![invitation[i].user] = "active"]
  /\ Finish(r)

\* Slip: the claim is not in the transaction, and survives its rollback.
MutRollBackAcceptance(r) ==
  LET i == req[r].inv IN
  /\ req[r].phase = "accepting"
  /\ Unused(i) => invitation[i].expiry # "valid" \/ invitation[i].user \in credential
  /\ invitation' = IF Unused(i) THEN [invitation EXCEPT ![i].used = TRUE] ELSE invitation
  /\ Finish(r)
  /\ UNCHANGED <<status, credential>>

\* Claimed by another, cancelled, lapsed, deleted, or the user already has an
\* account: nothing is written.
RollBackAcceptance(r) ==
  LET i == req[r].inv IN
  /\ req[r].phase = "accepting"
  /\ Unused(i) => invitation[i].expiry # "valid" \/ invitation[i].user \in credential
  /\ Finish(r)
  /\ UNCHANGED <<status, credential, invitation>>

(* resendInvitation *)

\* The user is read and must be pending.
ReadPending(r, u) ==
  /\ status[u] = "pending"
  /\ Begin(r, [IdleRequest EXCEPT !.phase = "resending", !.user = u])
  /\ UNCHANGED <<status, credential, invitation>>

Cancel(S) ==
  [i \in Invitations |->
     IF i \in S /\ Unused(i) THEN [invitation[i] EXCEPT !.expiry = "cancelled"]
                             ELSE invitation[i]]

\* Slip: the old invitations are cancelled by a statement of its own.
MutStartReplacing(r) ==
  /\ req[r].phase = "resending"
  /\ req' = [req EXCEPT ![r].phase = "replacing",
                        ![r].targets = UnusedOf(req[r].user)]
  /\ invitation' = Cancel(UnusedOf(req[r].user))
  /\ UNCHANGED <<status, credential>>

\* The updateMany of the transaction starts, on the invitations it can see.
StartReplacing(r) ==
  /\ req[r].phase = "resending"
  /\ req' = [req EXCEPT ![r].phase = "replacing",
                        ![r].targets = UnusedOf(req[r].user)]
  /\ UNCHANGED <<status, credential, invitation>>

\* Those still unused expire and a new one exists, together.
CommitReplacement(r, i) ==
  /\ req[r].phase = "replacing"
  /\ Exists(req[r].user) /\ invitation[i] = None
  /\ invitation' = [Cancel(req[r].targets) EXCEPT ![i] = NewInvitation(req[r].user)]
  /\ Finish(r)
  /\ UNCHANGED <<status, credential>>

(* Time and failure *)

Lapse(i) ==
  /\ invitation[i] # None /\ invitation[i].expiry = "valid"
  /\ invitation' = [invitation EXCEPT ![i].expiry = "lapsed"]
  /\ UNCHANGED <<status, credential, req>>

\* A statement fails, a row is gone, or the process dies: no commit.
Abandon(r) ==
  /\ req[r].phase # "idle"
  /\ Finish(r)
  /\ UNCHANGED <<status, credential, invitation>>

Serve(r) ==
  \/ WriteStatus(r)
  \/ CommitAcceptance(r) \/ RollBackAcceptance(r)
  \/ StartReplacing(r) \/ \E i \in Invitations : CommitReplacement(r, i)

Arrive(r) ==
  \/ \E u \in Users, want \in {"active", "inactive"} : ReadUser(r, u, want)
  \/ \E i \in Invitations : ReadInvitation(r, i)
  \/ \E u \in Users : ReadPending(r, u)

Next ==
  \/ \E r \in Requests : Serve(r) \/ Arrive(r) \/ Abandon(r)
  \/ \E u \in Users : DeleteUser(u)
  \/ \E u \in Users, i \in Invitations : CreateUser(u, i)
  \/ \E i \in Invitations : Lapse(i)

Spec == Init /\ [][Next]_vars

-----------------------------------------------------------------------------
(* Properties *)

TypeOK ==
  /\ status \in [Users -> Status \cup {"absent", "deleted"}]
  /\ credential \subseteq Users
  /\ invitation \in [Invitations -> SaInvitation \cup {None}]
  /\ req \in [Requests -> Request]

\* However resends, acceptances and crashes interleave, a pending user always
\* holds an invitation that only time can take away.
NeverStranded ==
  \A u \in Users : status[u] = "pending" =>
    \E i \in UnusedOf(u) : invitation[i].expiry \in {"valid", "lapsed"}

\* A password was set through exactly one invitation, and an invitation is
\* used up only by the acceptance that set the password.
OneAcceptance ==
  \A u \in Users :
    LET used == {i \in Invitations :
                   invitation[i] # None /\ invitation[i].user = u /\ invitation[i].used} IN
    Cardinality(used) = IF u \in credential THEN 1 ELSE 0

\* What updateUser's guard is there for: no active user without a password.
ActiveHasCredential == \A u \in Users : status[u] = "active" => u \in credential
=============================================================================
