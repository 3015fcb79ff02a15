---------------------------- MODULE BearerTokens ----------------------------
(***************************************************************************)
(* What a signed token says and what it opens.  TokenService mints an      *)
(* access token from several reads of the user's roles and permissions, in *)
(* no transaction, and a service token from one read of the app; direct    *)
(* login answers with the first kind, client_credentials with the second,  *)
(* userinfo takes the first, ServiceTokenGuard and ServiceUsersService the *)
(* second.  Nothing can revoke a token: what it says is as old as it is.   *)
(*                                                                         *)
(* Data: whatever admins change is in the record db; one request at a time *)
(* is followed, and what other requests do in the meantime is in           *)
(* ChangeByOthers.  Passwords and signatures are taken as verified, names  *)
(* of roles and permissions are their identities.                          *)
(***************************************************************************)
EXTENDS Naturals, FiniteSets

CONSTANTS
  Bearers,         \* users
  BearerRoles,
  BearerPermissions,
  SystemPermissions,  \* isSystem: the org.* ones, at home in every app
  Audiences,       \* apps
  AppOf,           \* of a user's org, a role and a permission
  Nobody,          \* undefined: a claim that is not there
  UserTtl,         \* TOKEN_TTL_SECONDS and SERVICE_TOKEN_TTL_SECONDS, in ticks
  ServiceTtl,
  Turning,         \* per field of db, what others may turn over
  MaxChanges       \* and how often

ASSUME TokenAssumption ==
  /\ SystemPermissions \subseteq BearerPermissions
  /\ Bearers \cup BearerRoles \cup BearerPermissions \subseteq DOMAIN AppOf
  /\ \A x \in Bearers \cup BearerRoles : AppOf[x] \in Audiences
  /\ Nobody \notin Bearers \cup Audiences
  /\ UserTtl \in Nat /\ ServiceTtl \in Nat /\ MaxChanges \in Nat

Management == "sassy-auth-management-api"

VARIABLES
  db,              \* what there is to read
  changes,         \* how often others have changed it
  token,           \* the last token minted, Nobody before the first
  errand           \* the request under way

tokenVars == <<db, changes, token, errand>>

InAudience(p, app) == p \in SystemPermissions \/ AppOf[p] = app

\* The edges and flags that may ever be: a role and a direct grant take permissions of
\* their own app and system ones, SaUserRole takes any role.
Universe ==
  [holds |-> Bearers \X BearerRoles,
   grants |-> {e \in BearerRoles \X BearerPermissions : InAudience(e[2], AppOf[e[1]])},
   direct |-> {e \in Bearers \X BearerPermissions : InAudience(e[2], AppOf[e[1]])},
   inactive |-> Bearers,
   enrolled |-> Bearers,            \* User.twoFactorEnabled
   required |-> Audiences,          \* isTwoFactorRequired
   confidential |-> Audiences,      \* clientSecretHash is set
   optedIn |-> Audiences]           \* canManageOwnRoles

ASSUME TurningAssumption ==
  DOMAIN Turning = DOMAIN Universe /\ \A f \in DOMAIN Universe : Turning[f] \subseteq Universe[f]

World ==
  [holds : SUBSET Universe.holds, grants : SUBSET Universe.grants,
   direct : SUBSET Universe.direct, inactive : SUBSET Bearers, enrolled : SUBSET Bearers,
   required : SUBSET Audiences, confidential : SUBSET Audiences, optedIn : SUBSET Audiences]

\* sub, aud, azp, scope: the claims; earned: some state of db that its request saw had
\* the app opted in.
BearerToken ==
  [sub : Bearers \cup {Nobody}, aud : Audiences \cup {Management}, azp : Audiences \cup {Nobody},
   scope : SUBSET {"roles:write"}, age : 0 .. UserTtl, earned : BOOLEAN]

Reads == {"links", "grants", "direct", "roles"}

\* left: the reads still to come; linked: the roles that "links" found; seen: every
\* state of db since the request came in.
Errand ==
  [kind : {"none", "direct", "mint", "service", "write", "userinfo"},
   who : Bearers \cup {Nobody}, app : Audiences \cup {Nobody}, role : BearerRoles \cup {Nobody},
   amr : SUBSET {"pwd", "otp", "mfa"}, scope : SUBSET {"roles:write"},
   left : SUBSET Reads, linked : SUBSET BearerRoles,
   permissions : SUBSET BearerPermissions, roles : SUBSET BearerRoles, seen : SUBSET World]

NoErrand ==
  [kind |-> "none", who |-> Nobody, app |-> Nobody, role |-> Nobody, amr |-> {}, scope |-> {},
   left |-> {}, linked |-> {}, permissions |-> {}, roles |-> {}, seen |-> {}]

TokensInit ==
  /\ db = [holds |-> {e \in Universe.holds : AppOf[e[1]] = AppOf[e[2]]},
           grants |-> {e \in Universe.grants : e[2] \notin SystemPermissions},
           direct |-> {}, inactive |-> {}, enrolled |-> {}, required |-> {},
           confidential |-> Audiences, optedIn |-> Audiences]
  /\ changes = 0
  /\ token = Nobody
  /\ errand = NoErrand

-----------------------------------------------------------------------------
(* Requests *)

Come(request) ==
  /\ errand.kind = "none"
  /\ errand' = [request EXCEPT !.seen = {db}]

Leave == errand' = NoErrand

\* Whatever the request is at, it may fail.
FailErrand ==
  /\ errand.kind # "none"
  /\ Leave
  /\ UNCHANGED <<db, changes, token>>

\* directLoginInner: app, user and password are read; the org must be the app's and the
\* user active.
DirectLoginInner(u, app) ==
  /\ AppOf[u] = app /\ u \notin db.inactive
  /\ Come([NoErrand EXCEPT !.kind = "direct", !.who = u, !.app = app,
             !.amr = IF app \in db.required THEN {"pwd", "otp"} ELSE {"pwd"}])
  /\ UNCHANGED <<db, changes, token>>

\* The read of twoFactorEnabled comes later; with it or with an app that requires it
\* a code is asked for, which only one who is enrolled has.
MutSecondFactor ==
  /\ errand.kind = "direct"
  /\ "otp" \in errand.amr => errand.who \in db.enrolled
  /\ errand' = [errand EXCEPT !.kind = "mint", !.left = Reads,
                              !.amr = IF "otp" \in @ THEN @ \cup {"mfa"} ELSE @]
  /\ UNCHANGED <<db, changes, token>>

SecondFactor ==
  LET asked == "otp" \in errand.amr \/ errand.who \in db.enrolled IN
  /\ errand.kind = "direct"
  /\ asked => errand.who \in db.enrolled
  /\ errand' = [errand EXCEPT !.kind = "mint", !.left = Reads,
                              !.amr = IF asked THEN {"pwd", "otp", "mfa"} ELSE @]
  /\ UNCHANGED <<db, changes, token>>

-----------------------------------------------------------------------------
(* issueJwt: resolvePermissions and resolveRoles, side by side; an include *)
(* is a statement of its own.                                              *)

Read(what) ==
  /\ errand.kind = "mint" /\ what \in errand.left
  /\ UNCHANGED <<db, changes, token>>

RolesOf(u) == {r \in BearerRoles : <<u, r>> \in db.holds}

ReadLinks ==
  /\ Read("links")
  /\ errand' = [errand EXCEPT !.left = @ \ {"links"}, !.linked = RolesOf(errand.who)]

\* Slip: permissions of whatever app (bug-0157).
MutClaimable(S, app) == S

Claimable(S, app) == {p \in S : InAudience(p, app)}

ReadGrants ==
  /\ Read("grants") /\ "links" \notin errand.left
  /\ errand' = [errand EXCEPT !.left = @ \ {"grants"},
       !.permissions = @ \cup Claimable({p \in BearerPermissions :
                                           \E r \in errand.linked : <<r, p>> \in db.grants}, errand.app)]

ReadDirect ==
  /\ Read("direct")
  /\ errand' = [errand EXCEPT !.left = @ \ {"direct"},
       !.permissions = @ \cup Claimable({p \in BearerPermissions : <<errand.who, p>> \in db.direct},
                                        errand.app)]

ReadRoles ==
  /\ Read("roles")
  /\ errand' = [errand EXCEPT !.left = @ \ {"roles"},
       !.roles = {r \in RolesOf(errand.who) : AppOf[r] = errand.app}]

IssueJwt ==
  /\ errand.kind = "mint" /\ errand.left = {}
  /\ token' = [sub |-> errand.who, aud |-> errand.app, azp |-> Nobody, scope |-> {}, age |-> 0,
               earned |-> FALSE]
  /\ Leave
  /\ UNCHANGED <<db, changes>>

-----------------------------------------------------------------------------
(* grant_type=client_credentials: one read of the app, with its secret; the *)
(* scope granted is what was asked for, if the app has opted in.            *)

HandleClientCredentials(app, asked) ==
  /\ app \in db.confidential
  /\ Come([NoErrand EXCEPT !.kind = "service", !.app = app,
             !.scope = IF app \in db.optedIn THEN asked ELSE {}])
  /\ UNCHANGED <<db, changes, token>>

\* The secret is verified first, with scrypt, which takes its time.
IssueServiceJwt ==
  /\ errand.kind = "service"
  /\ token' = [sub |-> Nobody, aud |-> Management, azp |-> errand.app, scope |-> errand.scope,
               age |-> 0, earned |-> \E w \in errand.seen : errand.app \in w.optedIn]
  /\ Leave
  /\ UNCHANGED <<db, changes>>

-----------------------------------------------------------------------------
(* What a token opens *)

StillValid(t) == t.age < IF t.aud = Management THEN ServiceTtl ELSE UserTtl

\* Slip: any token with a good signature (the lookup without a sub finds anyone).
MutVerifyAccessToken(t) == t # Nobody /\ StillValid(t)

VerifyAccessToken(t) == t # Nobody /\ StillValid(t) /\ t.sub # Nobody

\* GET userinfo: the claims are read after the status.
Userinfo ==
  /\ VerifyAccessToken(token)
  /\ \E u \in IF token.sub = Nobody THEN Bearers ELSE {token.sub} :
       /\ u \notin db.inactive
       /\ Come([NoErrand EXCEPT !.kind = "userinfo", !.who = u])
  /\ UNCHANGED <<db, changes, token>>

BuildScopedClaims ==
  /\ errand.kind = "userinfo"
  /\ Leave
  /\ UNCHANGED <<db, changes, token>>

VerifyServiceAccessToken(t) == t # Nobody /\ StillValid(t) /\ t.aud = Management

\* ServiceTokenGuard
CanActivate(t) == VerifyServiceAccessToken(t) /\ "roles:write" \in t.scope

\* Slip: the role's app is not compared.
MutOwnAffair(app, u, r) == AppOf[u] = app

OwnAffair(app, u, r) == AppOf[u] = app /\ AppOf[r] = app

Carried(w, r) == {p \in BearerPermissions : <<r, p>> \in w.grants}

\* resolveAndAuthorize: both rows are read; no app changes hands, so one step will do.
ResolveAndAuthorize(u, r) ==
  /\ CanActivate(token)
  /\ OwnAffair(token.azp, u, r)
  /\ Carried(db, r) \cap SystemPermissions = {}
  /\ Come([NoErrand EXCEPT !.kind = "write", !.who = u, !.role = r, !.app = token.azp])
  /\ UNCHANGED <<db, changes, token>>

\* assignRole and removeRole of ServiceUsersService; both take what is there already.
SetEdge ==
  /\ errand.kind = "write"
  /\ \/ db' = [db EXCEPT !.holds = @ \cup {<<errand.who, errand.role>>}]
     \/ db' = [db EXCEPT !.holds = @ \ {<<errand.who, errand.role>>}]
  /\ Leave
  /\ UNCHANGED <<changes, token>>

-----------------------------------------------------------------------------
(* The rest of the world *)

\* One edge or flag turns over.
ChangeByOthers ==
  /\ changes < MaxChanges
  /\ changes' = changes + 1
  /\ \E f \in DOMAIN db : \E e \in Turning[f] :
       db' = [db EXCEPT ![f] = (@ \ {e}) \cup ({e} \ @)]
  /\ errand' = IF errand.kind = "none" THEN errand ELSE [errand EXCEPT !.seen = @ \cup {db'}]
  /\ UNCHANGED token

\* A request takes no time on this scale.
TokenAges ==
  /\ token # Nobody /\ token.age < UserTtl /\ errand.kind = "none"
  /\ token' = [token EXCEPT !.age = @ + 1]
  /\ UNCHANGED <<db, changes, errand>>

TokensNext ==
  \/ \E u \in Bearers, app \in Audiences : DirectLoginInner(u, app)
  \/ \E app \in Audiences, asked \in SUBSET {"roles:write"} : HandleClientCredentials(app, asked)
  \/ \E u \in Bearers, r \in BearerRoles : ResolveAndAuthorize(u, r)
  \/ Userinfo \/ BuildScopedClaims
  \/ SecondFactor \/ ReadLinks \/ ReadGrants \/ ReadDirect \/ ReadRoles \/ IssueJwt
  \/ IssueServiceJwt \/ SetEdge \/ FailErrand
  \/ ChangeByOthers \/ TokenAges

TokensSpec == TokensInit /\ [][TokensNext]_tokenVars

-----------------------------------------------------------------------------
(* Properties *)

TokensTypeOK ==
  /\ db \in World /\ changes \in 0 .. MaxChanges
  /\ token \in BearerToken \cup {Nobody} /\ errand \in Errand

\* A permission reached the user through a role only if both edges were there at some
\* time of the request, though maybe never together.
WasHeld(u, p) ==
  \/ \E w \in errand.seen : <<u, p>> \in w.direct
  \/ \E r \in BearerRoles :
       /\ \E w \in errand.seen : <<u, r>> \in w.holds
       /\ \E w \in errand.seen : <<r, p>> \in w.grants

PasswordWillDo(u, app) ==
  /\ \E w \in errand.seen : app \notin w.required
  /\ \E w \in errand.seen : u \notin w.enrolled

\* However roles, permissions and settings change while a token is minted, it says
\* nothing of another app, nothing that was taken away before its request came in, and
\* it rests on a password alone only for one of whom no more was asked for; and userinfo
\* speaks of the token's own user alone, who was not inactive all the time.
TokensTellTheTruth ==
  [][/\ IssueJwt =>
          /\ \A p \in errand.permissions : InAudience(p, errand.app) /\ WasHeld(errand.who, p)
          /\ \A r \in errand.roles :
               AppOf[r] = errand.app /\ \E w \in errand.seen : <<errand.who, r>> \in w.holds
          /\ "mfa" \in errand.amr \/ PasswordWillDo(errand.who, errand.app)
     /\ BuildScopedClaims =>
          /\ errand.who = token.sub
          /\ \E w \in errand.seen : errand.who \notin w.inactive]_tokenVars

\* An app's service token, which its admins cannot call back, lets it tie only its own
\* users to its own roles, roles that carried no system permission when it asked, and
\* only if the app was opted in while the token was made.
ServiceKeepsToItsApp ==
  [][SetEdge =>
       /\ token.earned /\ token.azp = errand.app
       /\ AppOf[errand.who] = token.azp /\ AppOf[errand.role] = token.azp
       /\ \E w \in errand.seen : Carried(w, errand.role) \cap SystemPermissions = {}]_tokenVars
=============================================================================
