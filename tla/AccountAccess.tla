---------------------------- MODULE AccountAccess ----------------------------
(***************************************************************************)
(* Deactivation as a kill-switch: UsersService.updateUser against the      *)
(* handlers that turn an account into access - sign-in (BetterAuth with    *)
(* the session gate), /oauth/authorize, /oauth/token for codes and refresh *)
(* tokens, /direct/login and logout.                                       *)
(*                                                                         *)
(* Every one of those handlers reads SaUser.status once and awaits other   *)
(* statements before it writes or answers; deactivation is three           *)
(* statements in no transaction.  A rotation and the exchange of a code    *)
(* are single steps here: RefreshTokens and AuthorizationCodes show that   *)
(* they take effect at one point.                                          *)
(*                                                                         *)
(* Data: a credential is a session row, a refresh-token row or a code row; *)
(* ids are never reused.  Apps, passwords, scopes and expiry are left out. *)
(***************************************************************************)
EXTENDS Naturals, FiniteSets

CONSTANTS
  Users,
  Creds,           \* ids of sessions, refresh tokens and codes
  Requests,        \* slots for handlers running at the same time
  None             \* null

Kinds == {"session", "refresh", "code"}

Credential == [kind : Kinds, user : Users, live : BOOLEAN]

ASSUME ConstantsAssumption == None \notin Users \cup Creds \cup Credential

VARIABLES
  status,          \* SaUser.status
  cred,            \* the rows of the three tables, None where none was made
  req,             \* the handlers in flight
  loggedOut        \* users whose last deactivation succeeded and still stands

vars == <<status, cred, req, loggedOut>>

Phases ==
  {"idle",
   "signing_in", "gated",                       \* BetterAuth sign-in
   "authorizing", "admitted",                   \* /oauth/authorize
   "claimed", "cleared",                        \* code exchange, direct login
   "rotated", "refreshed",                      \* refresh grant
   "deactivating", "sessions_gone",             \* updateUser
   "signed_out", "sweeping"}                    \* logout; both

(***************************************************************************)
(*   barred    the user has not been active since the request came in      *)
(*   killing   the request is a deactivation                               *)
(*   prior     what was live when the deactivation began                   *)
(*   targets   the refresh tokens an updateMany saw when it started        *)
(***************************************************************************)
Request ==
  [phase : Phases, user : Users \cup {None}, barred : BOOLEAN, killing : BOOLEAN,
   prior : SUBSET Creds, targets : SUBSET Creds]

IdleRequest ==
  [phase |-> "idle", user |-> None, barred |-> FALSE, killing |-> FALSE,
   prior |-> {}, targets |-> {}]

LiveOf(u, kinds) ==
  {c \in Creds : cred[c] # None /\ cred[c].live /\ cred[c].user = u /\ cred[c].kind \in kinds}

Active(u) == status[u] = "active"

Init ==
  /\ status = [u \in Users |-> "active"]
  /\ cred = [c \in Creds |-> None]
  /\ req = [r \in Requests |-> IdleRequest]
  /\ loggedOut = {}

\* Slip: the row is stored without its owner.
MutNewRow(u, kind) == [kind |-> kind, user |-> None, live |-> TRUE]

NewRow(u, kind) == [kind |-> kind, user |-> u, live |-> TRUE]

Begin(r, u, phase) ==
  /\ req[r].phase = "idle"
  /\ req' = [req EXCEPT ![r] = [IdleRequest EXCEPT !.phase = phase, !.user = u,
                                                   !.barred = ~Active(u)]]

Advance(r, from, to) ==
  /\ req[r].phase = from
  /\ req' = [req EXCEPT ![r].phase = to]

Finish(r) == req' = [req EXCEPT ![r] = IdleRequest]

Kill(S) == [c \in Creds |-> IF c \in S THEN [cred[c] EXCEPT !.live = FALSE] ELSE cred[c]]

\* The status read of a handler: it goes on only for an active user.
Check(r, from, to) ==
  /\ req[r].phase = from
  /\ \/ Active(req[r].user) /\ Advance(r, from, to)
     \/ ~Active(req[r].user) /\ Finish(r)
  /\ UNCHANGED <<status, cred, loggedOut>>

\* The last write of a handler: the row it makes, and the answer.
Make(r, from, c, kind) ==
  /\ req[r].phase = from
  /\ cred[c] = None
  /\ cred' = [cred EXCEPT ![c] = NewRow(req[r].user, kind)]
  /\ Finish(r)
  /\ UNCHANGED <<status, loggedOut>>

-----------------------------------------------------------------------------
(* BetterAuth sign-in, by any method, with databaseHooks.session.create *)

SignIn(r, u) ==
  /\ Begin(r, u, "signing_in")
  /\ UNCHANGED <<status, cred, loggedOut>>

EvaluateSessionGate(r) == Check(r, "signing_in", "gated")

CreateSession(r, c) == Make(r, "gated", c, "session")

(* GET /oauth/authorize with a session *)

Authorize(r, c) ==
  /\ cred[c] # None /\ c \in LiveOf(cred[c].user, {"session"})
  /\ Begin(r, cred[c].user, "authorizing")
  /\ UNCHANGED <<status, cred, loggedOut>>

CheckAuthorize(r) == Check(r, "authorizing", "admitted")

CreateCode(r, c) == Make(r, "admitted", c, "code")

(* POST /oauth/token with a code *)

ClaimCode(r, c) ==
  /\ cred[c] # None /\ c \in LiveOf(cred[c].user, {"code"})
  /\ Begin(r, cred[c].user, "claimed")
  /\ cred' = Kill({c})
  /\ UNCHANGED <<status, loggedOut>>

CheckExchange(r) == Check(r, "claimed", "cleared")

\* offline_access was granted: access token and refresh token.
IssueRefresh(r, c) == Make(r, "cleared", c, "refresh")

(* POST /direct/login: the status is read with the user row, before the    *)
(* password is verified.                                                   *)

DirectLogin(r, u) ==
  /\ Active(u)
  /\ Begin(r, u, "cleared")
  /\ UNCHANGED <<status, cred, loggedOut>>

(* POST /oauth/token with a refresh token: rotated first, checked after *)

RefreshGrant(r, c, n) ==
  /\ cred[c] # None /\ c \in LiveOf(cred[c].user, {"refresh"})
  /\ cred[n] = None
  /\ Begin(r, cred[c].user, "rotated")
  /\ cred' = [Kill({c}) EXCEPT ![n] = NewRow(cred[c].user, "refresh")]
  /\ UNCHANGED <<status, loggedOut>>

\* Slip: the status is not read again.
MutCheckRefresh(r) ==
  /\ Advance(r, "rotated", "refreshed")
  /\ UNCHANGED <<status, cred, loggedOut>>

CheckRefresh(r) == Check(r, "rotated", "refreshed")

\* The answer of a refresh grant, or of an exchange without offline_access.
Respond(r) ==
  /\ req[r].phase \in {"refreshed", "cleared"}
  /\ Finish(r)
  /\ UNCHANGED <<status, cred, loggedOut>>

(* GET or POST /oauth/logout *)

\* The browser's session c, if it has one, is ended first.
LogOut(r, u, c) ==
  /\ c = None \/ \E v \in Users : c \in LiveOf(v, {"session"})
  /\ Begin(r, u, "signed_out")
  /\ cred' = Kill({c})
  /\ UNCHANGED <<status, loggedOut>>

\* revokeForUserApp starts, on the refresh tokens S that the subject u of the
\* hint holds for its audience; without a valid hint S is empty.
StartLogoutRevocation(r, S) ==
  /\ req[r].phase = "signed_out"
  /\ S \subseteq LiveOf(req[r].user, {"refresh"})
  /\ req' = [req EXCEPT ![r].phase = "sweeping", ![r].targets = S]
  /\ UNCHANGED <<status, cred, loggedOut>>

-----------------------------------------------------------------------------
(* updateUser *)

\* status: 'inactive' is written, whatever the status was.
Deactivate(r, u) ==
  /\ req[r].phase = "idle"
  /\ status' = [status EXCEPT ![u] = "inactive"]
  /\ req' = [req EXCEPT ![r] = [IdleRequest EXCEPT !.phase = "deactivating", !.user = u,
                                  !.killing = TRUE,
                                  !.prior = LiveOf(u, {"session", "refresh"})]]
  /\ UNCHANGED <<cred, loggedOut>>

\* Slip: the sessions are left to expire.
MutDeleteSessions(r) ==
  /\ Advance(r, "deactivating", "sessions_gone")
  /\ UNCHANGED <<status, cred, loggedOut>>

DeleteSessions(r) ==
  /\ Advance(r, "deactivating", "sessions_gone")
  /\ cred' = Kill(LiveOf(req[r].user, {"session"}))
  /\ UNCHANGED <<status, loggedOut>>

\* revokeForUser: its updateMany starts ...
StartRevocation(r) ==
  /\ req[r].phase = "sessions_gone"
  /\ req' = [req EXCEPT ![r].phase = "sweeping",
                        ![r].targets = LiveOf(req[r].user, {"refresh"})]
  /\ UNCHANGED <<status, cred, loggedOut>>

\* ... and has every row lock it wants; the handler is done.
ApplyRevocation(r) ==
  /\ req[r].phase = "sweeping"
  /\ cred' = Kill(req[r].targets)
  /\ loggedOut' = IF req[r].killing /\ ~Active(req[r].user)
                    THEN loggedOut \cup {req[r].user} ELSE loggedOut
  /\ Finish(r)
  /\ UNCHANGED status

\* status: 'active' is written.
Activate(u) ==
  /\ ~Active(u)
  /\ status' = [status EXCEPT ![u] = "active"]
  /\ loggedOut' = loggedOut \ {u}
  /\ req' = [r \in Requests |->
               IF req[r].user = u THEN [req[r] EXCEPT !.barred = FALSE] ELSE req[r]]
  /\ UNCHANGED cred

\* A statement fails or the process dies; an admin may deactivate again.
Abandon(r) ==
  /\ req[r].phase # "idle"
  /\ Finish(r)
  /\ UNCHANGED <<status, cred, loggedOut>>

-----------------------------------------------------------------------------
Serve(r) ==
  \/ EvaluateSessionGate(r) \/ CheckAuthorize(r) \/ CheckExchange(r) \/ CheckRefresh(r)
  \/ Respond(r)
  \/ DeleteSessions(r) \/ StartRevocation(r) \/ ApplyRevocation(r)
  \/ \E S \in SUBSET Creds : StartLogoutRevocation(r, S)
  \/ \E c \in Creds : CreateSession(r, c) \/ CreateCode(r, c) \/ IssueRefresh(r, c)

Arrive(r) ==
  \/ \E u \in Users : SignIn(r, u) \/ DirectLogin(r, u) \/ Deactivate(r, u)
  \/ \E c \in Creds : Authorize(r, c) \/ ClaimCode(r, c)
  \/ \E c, n \in Creds : RefreshGrant(r, c, n)
  \/ \E u \in Users, c \in Creds \cup {None} : LogOut(r, u, c)

Next ==
  \/ \E r \in Requests : Serve(r) \/ Arrive(r) \/ Abandon(r)
  \/ \E u \in Users : Activate(u)

Spec == Init /\ [][Next]_vars

-----------------------------------------------------------------------------
(* Properties *)

TypeOK ==
  /\ status \in [Users -> {"active", "inactive"}]
  /\ cred \in [Creds -> Credential \cup {None}]
  /\ req \in [Requests -> Request]
  /\ loggedOut \subseteq Users

\* A request that came in while the account was inactive, and found it so at
\* every moment since, ends in no session, no code and no token, even when the
\* credential it was made with has survived the deactivation.
BarredGetsNothing ==
  [][\A r \in Requests :
       /\ Respond(r) \/ \E c \in Creds :
            CreateSession(r, c) \/ CreateCode(r, c) \/ IssueRefresh(r, c)
       => ~req[r].barred]_vars

\* A deactivation that succeeds has ended every session and refresh token that
\* existed when it began, also when it is the retry of one that failed halfway.
DeactivationReaches ==
  [][\A r \in Requests :
       ApplyRevocation(r) => \A c \in req[r].prior : ~cred'[c].live]_vars

\* The promise of the comment in updateUser: the user is logged out everywhere
\* at once, and no refresh token is left to mint access with.
LoggedOutEverywhere ==
  \A u \in loggedOut : LiveOf(u, {"session", "refresh"}) = {}
=============================================================================
