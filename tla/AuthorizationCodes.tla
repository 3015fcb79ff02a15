------------------------- MODULE AuthorizationCodes -------------------------
(***************************************************************************)
(* The authorization-code flow: GET /oauth/authorize, the code minted at   *)
(* the end of a registration, POST /oauth/token with grant_type            *)
(* authorization_code, and the sweeper of expired rows, on any number of   *)
(* replicas over one SaOauthCode table.                                    *)
(*                                                                         *)
(* A handler reads the app, then the user, then writes, with awaits in     *)
(* between, while admins rotate client secrets, replace redirect URIs and  *)
(* (de)activate users.  What it read is kept in its request record.        *)
(*                                                                         *)
(* Data: a challenge is named by the verifier it is the S256 image of; a   *)
(* client's redirect URIs are those assertRedirectUriAllowed accepts; a    *)
(* secret is its version number, 0 for none.  Scope, nonce, state, amr     *)
(* (but for "signup"), the interactive bounces of /authorize (login page,  *)
(* 2FA enrolment), which change nothing, are left out.                     *)
(***************************************************************************)
EXTENDS Integers, FiniteSets

CONSTANTS
  Codes,           \* values of randomBytes(32)
  Users, Clients, Uris, Verifiers,
  Home,            \* Home[u]: the app of u's organization
  Requests,        \* slots for handlers running at the same time
  Null,            \* null
  CodeTTL,         \* CODE_TTL_MS, in ticks of the clock
  MaxTime,         \* bound: the clock stops here
  MaxSecret        \* bound: rotations of a client secret

SaOauthCode ==
  [user : Users, app : Clients, uri : Uris, challenge : Verifiers \cup {Null},
   signup : BOOLEAN, expiresAt : Nat]

ASSUME ConstantsAssumption ==
  /\ Home \in [Users -> Clients]
  /\ Null \notin Users \cup Clients \cup Uris \cup Verifiers \cup Codes \cup SaOauthCode
  /\ CodeTTL \in Nat /\ MaxTime \in Nat /\ MaxSecret \in Nat

VARIABLES
  now,
  issued,          \* issued[c]: the row c was created with; never updated
  stored,          \* the codes whose row is in the table
  client,          \* SaApp: secret and accepted redirect URIs
  status,          \* SaUser.status
  req,             \* the handlers in flight
  answers          \* answers[c]: token responses sent for c

codesVars == <<now, issued, stored, client, status, req, answers>>

Statuses == {"unverified", "active", "inactive"}

RequestPhases == {"idle", "authorizing", "admitted", "presenting", "claimed", "cleared"}

(* proof is the challenge at /authorize and the verifier at /token *)
Request ==
  [phase : RequestPhases, user : Users \cup {Null}, app : Clients \cup {Null},
   uri : Uris \cup {Null}, proof : Verifiers \cup {Null}, signup : BOOLEAN,
   authenticated : BOOLEAN, code : Codes \cup {Null}, at : Nat]

IdleRequest ==
  [phase |-> "idle", user |-> Null, app |-> Null, uri |-> Null, proof |-> Null,
   signup |-> FALSE, authenticated |-> FALSE, code |-> Null, at |-> 0]

Confidential(a) == client[a].secret # 0

CodesInit ==
  /\ now = 0
  /\ issued = [c \in Codes |-> Null]
  /\ stored = {}
  /\ client \in [Clients -> [secret : {0, 1}, uris : {Uris}]]
  /\ status \in [Users -> {"unverified", "active"}]
  /\ req = [r \in Requests |-> IdleRequest]
  /\ answers = [c \in Codes |-> 0]

Become(r, rec) == req' = [req EXCEPT ![r] = rec]

-----------------------------------------------------------------------------
(* GET /oauth/authorize, by a browser with u's session *)

\* The app is read; without a challenge only a confidential client goes on.
StartAuthorize(r, u, a, uri, challenge) ==
  /\ req[r].phase = "idle"
  /\ uri \in client[a].uris
  /\ challenge # Null \/ Confidential(a)
  /\ Become(r, [IdleRequest EXCEPT !.phase = "authorizing", !.user = u, !.app = a,
                                   !.uri = uri, !.proof = challenge])
  /\ UNCHANGED <<now, issued, stored, client, status, answers>>

\* The user is read: only an active user of this app may go on.
UserMayEnter(r) ==
  status[req[r].user] = "active" /\ Home[req[r].user] = req[r].app

AdmitUser(r) ==
  /\ req[r].phase = "authorizing"
  /\ UserMayEnter(r)
  /\ req' = [req EXCEPT ![r].phase = "admitted"]
  /\ UNCHANGED <<now, issued, stored, client, status, answers>>

RejectUser(r) ==
  /\ req[r].phase = "authorizing"
  /\ ~UserMayEnter(r)
  /\ Become(r, IdleRequest)
  /\ UNCHANGED <<now, issued, stored, client, status, answers>>

\* Slip: a code is minted for a public client that sent no challenge.
MutStartSignup(r, u, uri, challenge) ==
  /\ req[r].phase = "idle"
  /\ status[u] \in {"unverified", "active"}
  /\ uri \in client[Home[u]].uris
  /\ Become(r, [IdleRequest EXCEPT !.phase = "admitted", !.user = u, !.app = Home[u],
                                   !.uri = uri, !.proof = challenge, !.signup = TRUE])
  /\ UNCHANGED <<now, issued, stored, client, status, answers>>

\* finishRegistration, for the account it has just created.
StartSignup(r, u, uri, challenge) ==
  /\ req[r].phase = "idle"
  /\ status[u] \in {"unverified", "active"}
  /\ uri \in client[Home[u]].uris
  /\ challenge # Null \/ Confidential(Home[u])
  /\ Become(r, [IdleRequest EXCEPT !.phase = "admitted", !.user = u, !.app = Home[u],
                                   !.uri = uri, !.proof = challenge, !.signup = TRUE])
  /\ UNCHANGED <<now, issued, stored, client, status, answers>>

\* Slip: the lifetime is subtracted from the clock.
MutNewRow(r) ==
  [user |-> req[r].user, app |-> req[r].app, uri |-> req[r].uri,
   challenge |-> req[r].proof, signup |-> req[r].signup, expiresAt |-> now - CodeTTL]

NewRow(r) ==
  [user |-> req[r].user, app |-> req[r].app, uri |-> req[r].uri,
   challenge |-> req[r].proof, signup |-> req[r].signup, expiresAt |-> now + CodeTTL]

\* generateCode.  Bound: a code can still expire before the clock stops.
GenerateCode(r, c) ==
  /\ req[r].phase = "admitted"
  /\ issued[c] = Null
  /\ now + CodeTTL < MaxTime
  /\ issued' = [issued EXCEPT ![c] = NewRow(r)]
  /\ stored' = stored \cup {c}
  /\ Become(r, IdleRequest)
  /\ UNCHANGED <<now, client, status, answers>>

-----------------------------------------------------------------------------
(* POST /oauth/token, grant_type authorization_code *)

\* The app is read, the redirect URI checked against it and the presented
\* secret (0: none) against its hash.  A confidential client must authenticate.
Present(r, c, a, uri, verifier, secret) ==
  LET authenticated == secret # 0 /\ secret = client[a].secret IN
  /\ req[r].phase = "idle"
  /\ issued[c] # Null
  /\ uri \in client[a].uris
  /\ Confidential(a) => authenticated
  /\ Become(r, [IdleRequest EXCEPT !.phase = "presenting", !.app = a, !.uri = uri,
                                   !.proof = verifier, !.code = c,
                                   !.authenticated = authenticated])
  /\ UNCHANGED <<now, issued, stored, client, status, answers>>

\* Slip: the redirect URI of the token request is not compared.
MutRedeemable(r) ==
  LET row == issued[req[r].code] IN
  /\ row.app = req[r].app
  /\ ~(row.expiresAt < now)
  /\ row.challenge # Null => req[r].proof = row.challenge
  /\ row.challenge = Null => req[r].authenticated

\* The checks on the deleted row, and the one on challenge-less codes.
Redeemable(r) ==
  LET row == issued[req[r].code] IN
  /\ row.app = req[r].app
  /\ ~(row.expiresAt < now)
  /\ row.uri = req[r].uri
  /\ row.challenge # Null => req[r].proof = row.challenge
  /\ row.challenge = Null => req[r].authenticated

\* Slip: the row is read here and only deleted later.
MutClaimCode(r) ==
  /\ req[r].phase = "presenting"
  /\ req[r].code \in stored
  /\ Redeemable(r)
  /\ req' = [req EXCEPT ![r].phase = "claimed", ![r].at = now]
  /\ UNCHANGED <<now, issued, stored, client, status, answers>>

\* exchangeCode: the row is deleted and returned, and passes every check.
ClaimCode(r) ==
  /\ req[r].phase = "presenting"
  /\ req[r].code \in stored
  /\ Redeemable(r)
  /\ stored' = stored \ {req[r].code}
  /\ req' = [req EXCEPT ![r].phase = "claimed", ![r].at = now]
  /\ UNCHANGED <<now, issued, client, status, answers>>

\* The row is deleted and fails a check: the code is gone all the same.
RefuseCode(r) ==
  /\ req[r].phase = "presenting"
  /\ req[r].code \in stored
  /\ ~Redeemable(r)
  /\ stored' = stored \ {req[r].code}
  /\ Become(r, IdleRequest)
  /\ UNCHANGED <<now, issued, client, status, answers>>

\* P2025: another request or the sweeper deleted the row first.
CodeGone(r) ==
  /\ req[r].phase = "presenting"
  /\ req[r].code \notin stored
  /\ Become(r, IdleRequest)
  /\ UNCHANGED <<now, issued, stored, client, status, answers>>

\* The status is read again: it may have changed since /authorize.  A signup
\* code may be redeemed before the account is active.
StatusAllows(r) ==
  LET row == issued[req[r].code] IN
  IF row.signup THEN status[row.user] # "inactive" ELSE status[row.user] = "active"

PassStatus(r) ==
  /\ req[r].phase = "claimed"
  /\ StatusAllows(r)
  /\ req' = [req EXCEPT ![r].phase = "cleared"]
  /\ UNCHANGED <<now, issued, stored, client, status, answers>>

\* Slip: the row is put back so that the client may try again.
MutFailStatus(r) ==
  /\ req[r].phase = "claimed"
  /\ ~StatusAllows(r)
  /\ stored' = stored \cup {req[r].code}
  /\ Become(r, IdleRequest)
  /\ UNCHANGED <<now, issued, client, status, answers>>

FailStatus(r) ==
  /\ req[r].phase = "claimed"
  /\ ~StatusAllows(r)
  /\ Become(r, IdleRequest)
  /\ UNCHANGED <<now, issued, stored, client, status, answers>>

\* The tokens are made and sent.
AnswerToken(r) ==
  /\ req[r].phase = "cleared"
  /\ answers' = [answers EXCEPT ![req[r].code] = @ + 1]
  /\ Become(r, IdleRequest)
  /\ UNCHANGED <<now, issued, stored, client, status>>

-----------------------------------------------------------------------------
(* The sweeper, the admins, time and failure *)

\* Slip: the comparison is the wrong way round.
MutSweepCodes ==
  LET C == {c \in stored : issued[c].expiresAt > now} IN
  /\ C # {}
  /\ stored' = stored \ C
  /\ UNCHANGED <<now, issued, client, status, req, answers>>

\* deleteMany of the expired rows, on any replica.
SweepCodes ==
  LET C == {c \in stored : issued[c].expiresAt < now} IN
  /\ C # {}
  /\ stored' = stored \ C
  /\ UNCHANGED <<now, issued, client, status, req, answers>>

\* rotateClientSecret: the only place where a client becomes confidential.
RotateSecret(a) ==
  /\ client[a].secret < MaxSecret
  /\ client' = [client EXCEPT ![a].secret = @ + 1]
  /\ UNCHANGED <<now, issued, stored, status, req, answers>>

\* updateApp replaces the redirect URIs.
ReplaceUris(a, uris) ==
  /\ client' = [client EXCEPT ![a].uris = uris]
  /\ UNCHANGED <<now, issued, stored, status, req, answers>>

\* An admin or the verification of the email changes the status.
SetStatus(u, s) ==
  /\ s \in {"active", "inactive"} /\ s # status[u]
  /\ status' = [status EXCEPT ![u] = s]
  /\ UNCHANGED <<now, issued, stored, client, req, answers>>

\* A statement fails or the process dies.
Abandon(r) ==
  /\ req[r].phase # "idle"
  /\ Become(r, IdleRequest)
  /\ UNCHANGED <<now, issued, stored, client, status, answers>>

Tick ==
  /\ now < MaxTime
  /\ now' = now + 1
  /\ UNCHANGED <<issued, stored, client, status, req, answers>>

ServeRequest(r) ==
  \/ AdmitUser(r) \/ RejectUser(r)
  \/ \E c \in Codes : GenerateCode(r, c)
  \/ ClaimCode(r) \/ RefuseCode(r) \/ CodeGone(r)
  \/ PassStatus(r) \/ FailStatus(r)
  \/ AnswerToken(r)

Arrive(r) ==
  \/ \E u \in Users, a \in Clients, uri \in Uris, v \in Verifiers \cup {Null} :
       StartAuthorize(r, u, a, uri, v)
  \/ \E u \in Users, uri \in Uris, v \in Verifiers \cup {Null} :
       StartSignup(r, u, uri, v)
  \/ \E c \in Codes, a \in Clients, uri \in Uris, v \in Verifiers \cup {Null},
        secret \in 0 .. MaxSecret : Present(r, c, a, uri, v, secret)

Administer ==
  \/ \E a \in Clients : RotateSecret(a)
  \/ \E a \in Clients, uris \in SUBSET Uris : ReplaceUris(a, uris)
  \/ \E u \in Users, s \in Statuses : SetStatus(u, s)

CodesNext ==
  \/ \E r \in Requests : ServeRequest(r) \/ Arrive(r) \/ Abandon(r)
  \/ Administer
  \/ SweepCodes
  \/ Tick

CodesSpec == CodesInit /\ [][CodesNext]_codesVars

\* The sweeper runs from a timer for as long as a replica is up, and time passes.
FairSpec == CodesSpec /\ WF_codesVars(SweepCodes) /\ WF_codesVars(Tick)

-----------------------------------------------------------------------------
(* Properties *)

CodesTypeOK ==
  /\ now \in Nat
  /\ issued \in [Codes -> SaOauthCode \cup {Null}]
  /\ stored \subseteq Codes
  /\ client \in [Clients -> [secret : Nat, uris : SUBSET Uris]]
  /\ status \in [Users -> Statuses]
  /\ req \in [Requests -> Request]
  /\ answers \in [Codes -> Nat]

\* However many replicas race for a code, tokens are sent for it at most once.
SingleUse == \A c \in Codes : answers[c] <= 1

\* A code without a challenge belongs to a client that has a secret, from the
\* moment it is issued and whatever happens to the client afterwards.
ChallengelessIsConfidential ==
  \A c \in Codes :
    issued[c] # Null /\ issued[c].challenge = Null => Confidential(issued[c].app)

\* Tokens are only ever sent to the client and for the redirect URI the code
\* was issued to, against its PKCE verifier or, where it has no challenge, an
\* authenticated client, and for a code claimed before it expired.
AnswerHonoursCode ==
  [][\A r \in Requests : AnswerToken(r) =>
       LET row == issued[req[r].code] IN
       /\ row.app = req[r].app
       /\ row.uri = req[r].uri
       /\ IF row.challenge = Null THEN req[r].authenticated ELSE req[r].proof = row.challenge
       /\ req[r].at <= row.expiresAt]_codesVars

\* Where each code stands, for an observer of the table and of the handlers.
GrantStage ==
  [c \in Codes |->
     CASE issued[c] = Null -> "unissued"
       [] answers[c] > 0 -> "granted"
       [] c \in stored /\ answers[c] = 0 -> "outstanding"
       [] OTHER ->
            IF \E r \in Requests : req[r].code = c /\ req[r].phase \in {"claimed", "cleared"}
              THEN "claimed" ELSE "void"]

Grants == INSTANCE SingleUseGrants WITH grant <- GrantStage

\* Seen from outside a code is claimed once, answered at most once and never
\* comes back, whatever requests race, fail or crash.
ImplementsSingleUse == Grants!Spec

\* No abandoned flow leaves its row behind for ever.
AbandonedCodesGo == \A c \in Codes : c \in stored ~> c \notin stored
=============================================================================
