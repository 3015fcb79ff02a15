---------------------- MODULE AuthorizationCodesProofs ----------------------
(***************************************************************************)
(* Proofs about AuthorizationCodes, for any number of codes, handlers,     *)
(* users, apps, redirect URIs and verifiers and any lifetime.              *)
(*                                                                         *)
(* That tokens are sent once for a code does not follow from how often     *)
(* they were sent: the inductive invariant says who has the code.  It is   *)
(* in the table, or with the one handler that deleted the row, or nowhere, *)
(* and a handler that has it got it by passing every check on a row that   *)
(* never changes (CodesInv).  That a code without a challenge belongs to a *)
(* confidential client is decided long before the code is made, so it is   *)
(* said of the handlers, too (ClientsInv).                                 *)
(***************************************************************************)
EXTENDS AuthorizationCodes, TLAPS

\* r deleted the row of its code and has not answered yet.
Holding(r) == req[r].phase \in {"claimed", "cleared"}

\* Where a code is.
CodeOK(c) ==
  /\ answers[c] <= 1
  /\ c \in stored \/ answers[c] > 0 => issued[c] # Null
  /\ c \in stored => answers[c] = 0

\* What a handler that presents a code may rely on, and one that holds it.
HandlerOK(r) ==
  LET c == req[r].code IN
  /\ req[r].phase = "presenting" => c \in Codes /\ issued[c] # Null
  /\ Holding(r) =>
       /\ c \in Codes /\ issued[c] # Null
       /\ c \notin stored /\ answers[c] = 0
       /\ issued[c].app = req[r].app /\ issued[c].uri = req[r].uri
       /\ IF issued[c].challenge = Null THEN req[r].authenticated
          ELSE req[r].proof = issued[c].challenge
       /\ req[r].at <= issued[c].expiresAt

\* No two handlers hold the same code.
HoldersApart ==
  \A r, q \in Requests :
    r # q /\ Holding(r) /\ Holding(q) => req[r].code # req[q].code

CodesInv ==
  /\ \A c \in Codes : CodeOK(c)
  /\ \A r \in Requests : HandlerOK(r)
  /\ HoldersApart

\* A handler on its way to a code knows for whom, and goes without a challenge only for
\* a client that has a secret.
MintingOK(r) ==
  req[r].phase \in {"authorizing", "admitted"} =>
    /\ req[r].user \in Users /\ req[r].app \in Clients /\ req[r].uri \in Uris
    /\ req[r].proof = Null => Confidential(req[r].app)

ClientsInv == ChallengelessIsConfidential /\ \A r \in Requests : MintingOK(r)

IInv == CodesTypeOK /\ CodesInv /\ ClientsInv

-----------------------------------------------------------------------------
(* The invariant is inductive *)

LEMMA InitInv == CodesInit => IInv
<1> SUFFICES ASSUME CodesInit PROVE IInv
  OBVIOUS
<1>1. CodesTypeOK
  BY ConstantsAssumption
  DEF CodesInit, CodesTypeOK, Statuses, Request, RequestPhases, IdleRequest
<1>2. \A r \in Requests : req[r].phase = "idle"
  BY DEF CodesInit, IdleRequest
<1>3. CodesInv
  BY <1>2 DEF CodesInit, CodesInv, CodeOK, HandlerOK, HoldersApart, Holding
<1>4. ClientsInv
  BY <1>2 DEF CodesInit, ClientsInv, ChallengelessIsConfidential, MintingOK
<1>5. QED
  BY <1>1, <1>3, <1>4 DEF IInv

\* Typing.  A new row is well-typed because a handler about to make one knows its user,
\* app and redirect URI.
LEMMA TypeStep == IInv /\ [CodesNext]_codesVars => CodesTypeOK'
<1> SUFFICES ASSUME IInv, [CodesNext]_codesVars PROVE CodesTypeOK'
  OBVIOUS
<1> USE ConstantsAssumption DEF CodesTypeOK
<1>1. CodesTypeOK /\ IdleRequest \in Request
  BY DEF IInv, Request, IdleRequest, RequestPhases
<1>2. ASSUME NEW r \in Requests, Arrive(r) PROVE CodesTypeOK'
  <2>1. ASSUME NEW u \in Users, NEW a \in Clients, NEW uri \in Uris,
               NEW v \in Verifiers \cup {Null}, StartAuthorize(r, u, a, uri, v)
        PROVE  CodesTypeOK'
    BY <1>1, <2>1 DEF StartAuthorize, Become, Request, RequestPhases
  <2>2. ASSUME NEW u \in Users, NEW uri \in Uris, NEW v \in Verifiers \cup {Null},
               StartSignup(r, u, uri, v)
        PROVE  CodesTypeOK'
    <3>1. Home[u] \in Clients
      OBVIOUS
    <3>2. QED
      BY <1>1, <2>2, <3>1 DEF StartSignup, Become, Request, RequestPhases
  <2>3. ASSUME NEW c \in Codes, NEW a \in Clients, NEW uri \in Uris,
               NEW v \in Verifiers \cup {Null}, NEW n \in 0 .. MaxSecret,
               Present(r, c, a, uri, v, n)
        PROVE  CodesTypeOK'
    <3> DEFINE auth == n # 0 /\ n = client[a].secret
    <3>1. auth \in BOOLEAN
      OBVIOUS
    <3> HIDE DEF auth
    <3>2. Become(r, [IdleRequest EXCEPT !.phase = "presenting", !.app = a, !.uri = uri,
                       !.proof = v, !.code = c, !.authenticated = auth])
      BY <2>3 DEF Present, auth
    <3>3. req' \in [Requests -> Request]
      BY <1>1, <3>1, <3>2 DEF Become, Request, RequestPhases
    <3>4. QED
      BY <1>1, <2>3, <3>3 DEF Present
  <2>4. QED
    BY <1>2, <2>1, <2>2, <2>3 DEF Arrive
<1>3. ASSUME NEW r \in Requests, ServeRequest(r) PROVE CodesTypeOK'
  <2>1. ASSUME AdmitUser(r) \/ PassStatus(r) PROVE CodesTypeOK'
    <3>1. \A p \in RequestPhases : [req[r] EXCEPT !.phase = p] \in Request
      BY <1>1 DEF Request
    <3>2. \/ req' = [req EXCEPT ![r] = [req[r] EXCEPT !.phase = "admitted"]]
          \/ req' = [req EXCEPT ![r] = [req[r] EXCEPT !.phase = "cleared"]]
      BY <1>1, <2>1 DEF AdmitUser, PassStatus
    <3>3. req' \in [Requests -> Request]
      BY <1>1, <3>1, <3>2 DEF RequestPhases
    <3>4. QED
      BY <1>1, <2>1, <3>3 DEF AdmitUser, PassStatus
  <2>2. ASSUME RejectUser(r) \/ CodeGone(r) \/ FailStatus(r) \/ RefuseCode(r)
        PROVE  CodesTypeOK'
    BY <1>1, <2>2 DEF RejectUser, CodeGone, FailStatus, RefuseCode, Become
  <2>3. ASSUME NEW c \in Codes, GenerateCode(r, c) PROVE CodesTypeOK'
    <3>1. /\ req[r].user \in Users /\ req[r].app \in Clients /\ req[r].uri \in Uris
          /\ req[r].proof \in Verifiers \cup {Null} /\ req[r].signup \in BOOLEAN
      BY <1>1, <2>3 DEF GenerateCode, IInv, ClientsInv, MintingOK, Request
    <3>2. NewRow(r) \in SaOauthCode
      BY <1>1, <3>1 DEF NewRow, SaOauthCode
    <3>3. QED
      BY <1>1, <2>3, <3>2 DEF GenerateCode, Become
  <2>4. ASSUME ClaimCode(r) PROVE CodesTypeOK'
    <3>1. [req[r] EXCEPT !.phase = "claimed", !.at = now] \in Request
      BY <1>1 DEF Request, RequestPhases
    <3>2. req' = [req EXCEPT ![r] = [req[r] EXCEPT !.phase = "claimed", !.at = now]]
      BY <1>1, <2>4 DEF ClaimCode
    <3>3. req' \in [Requests -> Request]
      BY <1>1, <3>1, <3>2
    <3>4. QED
      BY <1>1, <2>4, <3>3 DEF ClaimCode
  <2>5. ASSUME AnswerToken(r) PROVE CodesTypeOK'
    <3>1. req[r].code \in Codes
      BY <2>5 DEF IInv, CodesInv, HandlerOK, Holding, AnswerToken
    <3>2. answers' \in [Codes -> Nat]
      BY <1>1, <2>5, <3>1 DEF AnswerToken
    <3>3. QED
      BY <1>1, <2>5, <3>2 DEF AnswerToken, Become
  <2>6. QED
    BY <1>3, <2>1, <2>2, <2>3, <2>4, <2>5 DEF ServeRequest
<1>4. ASSUME NEW r \in Requests, Abandon(r) PROVE CodesTypeOK'
  BY <1>1, <1>4 DEF Abandon, Become
<1>5. ASSUME Administer PROVE CodesTypeOK'
  <2>1. ASSUME NEW a \in Clients, RotateSecret(a) PROVE CodesTypeOK'
    BY <1>1, <2>1 DEF RotateSecret
  <2>2. ASSUME NEW a \in Clients, NEW uris \in SUBSET Uris, ReplaceUris(a, uris)
        PROVE  CodesTypeOK'
    BY <1>1, <2>2 DEF ReplaceUris
  <2>3. ASSUME NEW u \in Users, NEW s \in Statuses, SetStatus(u, s) PROVE CodesTypeOK'
    BY <1>1, <2>3 DEF SetStatus
  <2>4. QED
    BY <1>5, <2>1, <2>2, <2>3 DEF Administer
<1>6. ASSUME SweepCodes PROVE CodesTypeOK'
  BY <1>1, <1>6 DEF SweepCodes
<1>7. ASSUME Tick PROVE CodesTypeOK'
  BY <1>1, <1>7 DEF Tick
<1>8. CASE UNCHANGED codesVars
  BY <1>1, <1>8 DEF codesVars
<1>9. QED
  BY <1>2, <1>3, <1>4, <1>5, <1>6, <1>7, <1>8 DEF CodesNext

\* A step that touches no code, and of the handlers at most r, which holds nothing
\* afterwards, keeps the codes in order.
LEMMA CodesLocal ==
  ASSUME CodesInv, UNCHANGED <<issued, stored, answers>>,
         NEW r \in Requests, NEW rec, req' = [req EXCEPT ![r] = rec],
         req \in [Requests -> Request],
         rec.phase \notin {"claimed", "cleared"},
         rec.phase = "presenting" => rec.code \in Codes /\ issued[rec.code] # Null
  PROVE  CodesInv'
<1>1. req'[r] = rec /\ \A q \in Requests : q # r => req'[q] = req[q]
  OBVIOUS
<1>2. \A c \in Codes : CodeOK(c)'
  BY DEF CodesInv, CodeOK
<1>3. \A q \in Requests : HandlerOK(q)'
  BY <1>1 DEF CodesInv, HandlerOK, Holding
<1>4. HoldersApart'
  BY <1>1 DEF CodesInv, HoldersApart, Holding
<1>5. QED
  BY <1>2, <1>3, <1>4 DEF CodesInv

\* Rows may leave the table at any time: no handler that holds a code has its row there.
LEMMA CodesShrink ==
  ASSUME CodesInv, stored' \subseteq stored, UNCHANGED <<issued, req, answers>>
  PROVE  CodesInv'
BY DEF CodesInv, CodeOK, HandlerOK, HoldersApart, Holding

\* The code a handler finds in the table is held by nobody else.
LEMMA ClaimStep ==
  ASSUME IInv, NEW r \in Requests, ClaimCode(r)
  PROVE  CodesInv'
<1> DEFINE c == req[r].code
<1>1. CodesTypeOK /\ CodesInv
  BY DEF IInv
<1>2. /\ c \in Codes /\ issued[c] # Null /\ c \in stored /\ answers[c] = 0
      /\ issued[c] \in SaOauthCode
  BY <1>1 DEF ClaimCode, CodesTypeOK, CodesInv, CodeOK, HandlerOK
<1>3. /\ \A q \in Requests : q # r => req'[q] = req[q]
      /\ req'[r].phase = "claimed" /\ req'[r].code = c /\ req'[r].app = req[r].app
      /\ req'[r].uri = req[r].uri /\ req'[r].proof = req[r].proof
      /\ req'[r].authenticated = req[r].authenticated /\ req'[r].at = now
      /\ stored' = stored \ {c} /\ issued' = issued /\ answers' = answers
  BY <1>1 DEF ClaimCode, CodesTypeOK, Request
<1>4. /\ issued[c].app = req[r].app /\ issued[c].uri = req[r].uri
      /\ IF issued[c].challenge = Null THEN req[r].authenticated
         ELSE req[r].proof = issued[c].challenge
      /\ now <= issued[c].expiresAt
  BY <1>1, <1>2 DEF ClaimCode, Redeemable, CodesTypeOK, SaOauthCode
<1> HIDE DEF c
<1>5. \A q \in Requests : Holding(q) => req[q].code # c
  BY <1>1, <1>2 DEF CodesInv, HandlerOK
<1>6. \A d \in Codes : CodeOK(d)'
  BY <1>1, <1>3 DEF CodesInv, CodeOK
<1>7. \A q \in Requests : HandlerOK(q)'
  <2>1. HandlerOK(r)'
    BY <1>2, <1>3, <1>4 DEF HandlerOK, Holding
  <2>2. ASSUME NEW q \in Requests, q # r PROVE HandlerOK(q)'
    BY <1>1, <1>3, <2>2 DEF CodesInv, HandlerOK, Holding
  <2>3. QED
    BY <2>1, <2>2
<1>8. HoldersApart'
  BY <1>1, <1>3, <1>5 DEF CodesInv, HoldersApart, Holding
<1>9. QED
  BY <1>6, <1>7, <1>8 DEF CodesInv

\* A code is put in the table before any handler can have it.
LEMMA GenerateStep ==
  ASSUME IInv, NEW r \in Requests, NEW c \in Codes, GenerateCode(r, c)
  PROVE  CodesInv'
<1>1. CodesTypeOK /\ CodesInv /\ issued[c] = Null
  BY DEF IInv, GenerateCode
<1>2. NewRow(r) # Null
  BY <1>1, TypeStep, ConstantsAssumption DEF IInv, GenerateCode, NewRow, SaOauthCode,
     ClientsInv, MintingOK, CodesTypeOK, Request
<1>3. /\ issued'[c] # Null /\ \A d \in Codes : d # c => issued'[d] = issued[d]
      /\ stored' = stored \cup {c} /\ answers' = answers
      /\ req'[r].phase = "idle" /\ \A q \in Requests : q # r => req'[q] = req[q]
  BY <1>1, <1>2 DEF GenerateCode, Become, CodesTypeOK, IdleRequest
<1>4. answers[c] = 0 /\ c \notin stored
  BY <1>1 DEF CodesInv, CodeOK, CodesTypeOK
<1>5. \A d \in Codes : CodeOK(d)'
  BY <1>1, <1>3, <1>4 DEF CodesInv, CodeOK
<1>6. \A q \in Requests : HandlerOK(q)'
  <2>1. HandlerOK(r)'
    BY <1>3 DEF HandlerOK, Holding
  <2>2. ASSUME NEW q \in Requests, q # r PROVE HandlerOK(q)'
    BY <1>1, <1>3, <2>2 DEF CodesInv, HandlerOK, Holding
  <2>3. QED
    BY <2>1, <2>2
<1>7. HoldersApart'
  BY <1>1, <1>3 DEF CodesInv, HoldersApart, Holding
<1>8. QED
  BY <1>5, <1>6, <1>7 DEF CodesInv

\* The only holder of a code answers it, and holds it no longer.
LEMMA AnswerStep ==
  ASSUME IInv, NEW r \in Requests, AnswerToken(r)
  PROVE  CodesInv'
<1> DEFINE c == req[r].code
<1>1. CodesTypeOK /\ CodesInv /\ Holding(r)
  BY DEF IInv, AnswerToken, Holding
<1>2. c \in Codes /\ issued[c] # Null /\ c \notin stored /\ answers[c] = 0
  BY <1>1 DEF CodesInv, HandlerOK
<1>3. /\ answers'[c] = 1 /\ \A d \in Codes : d # c => answers'[d] = answers[d]
      /\ req'[r].phase = "idle" /\ \A q \in Requests : q # r => req'[q] = req[q]
      /\ UNCHANGED <<issued, stored>>
  BY <1>1, <1>2 DEF AnswerToken, Become, CodesTypeOK, IdleRequest
<1> HIDE DEF c
<1>4. \A q \in Requests : q # r /\ Holding(q) => req[q].code # c
  BY <1>1 DEF CodesInv, HoldersApart, c
<1>5. \A d \in Codes : CodeOK(d)'
  BY <1>1, <1>2, <1>3 DEF CodesInv, CodeOK
<1>6. \A q \in Requests : HandlerOK(q)'
  <2>1. HandlerOK(r)'
    BY <1>3 DEF HandlerOK, Holding
  <2>2. ASSUME NEW q \in Requests, q # r PROVE HandlerOK(q)'
    BY <1>1, <1>3, <1>4, <2>2 DEF CodesInv, HandlerOK, Holding
  <2>3. QED
    BY <2>1, <2>2
<1>7. HoldersApart'
  BY <1>1, <1>3 DEF CodesInv, HoldersApart, Holding
<1>8. QED
  BY <1>5, <1>6, <1>7 DEF CodesInv

LEMMA CodesStep == IInv /\ [CodesNext]_codesVars => CodesInv'
<1> SUFFICES ASSUME IInv, [CodesNext]_codesVars PROVE CodesInv'
  OBVIOUS
<1>1. CodesTypeOK /\ CodesInv /\ req \in [Requests -> Request]
  BY DEF IInv, CodesTypeOK
<1>2. ASSUME NEW r \in Requests, Arrive(r) PROVE CodesInv'
  <2>1. ASSUME NEW u \in Users, NEW a \in Clients, NEW uri \in Uris,
               NEW v \in Verifiers \cup {Null}, StartAuthorize(r, u, a, uri, v)
        PROVE  CodesInv'
    BY <1>1, <2>1, CodesLocal DEF StartAuthorize, Become, IdleRequest
  <2>2. ASSUME NEW u \in Users, NEW uri \in Uris, NEW v \in Verifiers \cup {Null},
               StartSignup(r, u, uri, v)
        PROVE  CodesInv'
    BY <1>1, <2>2, CodesLocal DEF StartSignup, Become, IdleRequest
  <2>3. ASSUME NEW c \in Codes, NEW a \in Clients, NEW uri \in Uris,
               NEW v \in Verifiers \cup {Null}, NEW n \in 0 .. MaxSecret,
               Present(r, c, a, uri, v, n)
        PROVE  CodesInv'
    BY <1>1, <2>3, CodesLocal DEF Present, Become, IdleRequest
  <2>4. QED
    BY <1>2, <2>1, <2>2, <2>3 DEF Arrive
<1>3. ASSUME NEW r \in Requests, ServeRequest(r) PROVE CodesInv'
  <2>1. ASSUME AdmitUser(r) PROVE CodesInv'
    <3>1. req' = [req EXCEPT ![r] = [req[r] EXCEPT !.phase = "admitted"]]
      BY <1>1, <2>1 DEF AdmitUser
    <3>2. [req[r] EXCEPT !.phase = "admitted"].phase = "admitted"
      BY <1>1 DEF Request
    <3>3. QED
      BY <1>1, <2>1, <3>1, <3>2, CodesLocal DEF AdmitUser
  <2>2. ASSUME RejectUser(r) \/ CodeGone(r) \/ FailStatus(r) PROVE CodesInv'
    BY <1>1, <2>2, CodesLocal DEF RejectUser, CodeGone, FailStatus, Become, IdleRequest
  <2>3. ASSUME NEW c \in Codes, GenerateCode(r, c) PROVE CodesInv'
    BY <2>3, GenerateStep
  <2>4. ASSUME ClaimCode(r) PROVE CodesInv'
    BY <2>4, ClaimStep
  <2>5. ASSUME RefuseCode(r) PROVE CodesInv'
    <3>1. /\ stored' \subseteq stored /\ UNCHANGED <<issued, answers>>
          /\ req'[r].phase = "idle" /\ \A q \in Requests : q # r => req'[q] = req[q]
      BY <1>1, <2>5 DEF RefuseCode, Become, IdleRequest
    <3>2. QED
      BY <1>1, <3>1 DEF CodesInv, CodeOK, HandlerOK, HoldersApart, Holding
  <2>6. ASSUME PassStatus(r) PROVE CodesInv'
    <3>1. /\ req'[r].phase = "cleared" /\ req'[r].code = req[r].code
          /\ req'[r].app = req[r].app /\ req'[r].uri = req[r].uri
          /\ req'[r].proof = req[r].proof /\ req'[r].at = req[r].at
          /\ req'[r].authenticated = req[r].authenticated
          /\ \A q \in Requests : q # r => req'[q] = req[q]
          /\ UNCHANGED <<issued, stored, answers>> /\ Holding(r)
      BY <1>1, <2>6 DEF PassStatus, Request, Holding
    <3>2. \A c \in Codes : CodeOK(c)'
      BY <1>1, <3>1 DEF CodesInv, CodeOK
    <3>3. \A q \in Requests : HandlerOK(q)'
      BY <1>1, <3>1 DEF CodesInv, HandlerOK, Holding
    <3>4. HoldersApart'
      BY <1>1, <3>1 DEF CodesInv, HoldersApart, Holding
    <3>5. QED
      BY <3>2, <3>3, <3>4 DEF CodesInv
  <2>7. ASSUME AnswerToken(r) PROVE CodesInv'
    BY <2>7, AnswerStep
  <2>8. QED
    BY <1>3, <2>1, <2>2, <2>3, <2>4, <2>5, <2>6, <2>7 DEF ServeRequest
<1>4. ASSUME NEW r \in Requests, Abandon(r) PROVE CodesInv'
  BY <1>1, <1>4, CodesLocal DEF Abandon, Become, IdleRequest
<1>5. ASSUME Administer \/ Tick \/ UNCHANGED codesVars PROVE CodesInv'
  BY <1>1, <1>5, CodesShrink
  DEF Administer, RotateSecret, ReplaceUris, SetStatus, Tick, codesVars
<1>6. ASSUME SweepCodes PROVE CodesInv'
  BY <1>1, <1>6, CodesShrink DEF SweepCodes
<1>7. QED
  BY <1>2, <1>3, <1>4, <1>5, <1>6 DEF CodesNext

\* Nothing takes a client's secret away: rotation only ever adds one.
LEMMA SecretsStay ==
  ASSUME CodesTypeOK, [CodesNext]_codesVars, NEW a \in Clients, Confidential(a)
  PROVE  Confidential(a)'
<1>1. CASE \E b \in Clients : RotateSecret(b)
  BY <1>1 DEF RotateSecret, Confidential, CodesTypeOK
<1>2. CASE \E b \in Clients, uris \in SUBSET Uris : ReplaceUris(b, uris)
  BY <1>2 DEF ReplaceUris, Confidential, CodesTypeOK
<1>3. CASE client' = client
  BY <1>3 DEF Confidential
<1>4. QED
  BY <1>1, <1>2, <1>3
  DEF CodesNext, ServeRequest, Arrive, Administer, codesVars, AdmitUser, RejectUser,
      GenerateCode, ClaimCode, RefuseCode, CodeGone, PassStatus, FailStatus, AnswerToken, Abandon, StartAuthorize,
      StartSignup, Present, SetStatus, SweepCodes, Tick

LEMMA ClientsStep == IInv /\ [CodesNext]_codesVars => ClientsInv'
<1> SUFFICES ASSUME IInv, [CodesNext]_codesVars PROVE ClientsInv'
  OBVIOUS
<1>1. CodesTypeOK /\ ClientsInv /\ req \in [Requests -> Request]
  BY DEF IInv, CodesTypeOK
<1>2. \A a \in Clients : Confidential(a) => Confidential(a)'
  BY <1>1, SecretsStay
\* Every handler but the one that takes the step keeps what it knows.
<1>3. ASSUME NEW r \in Requests, \A q \in Requests : q # r => req'[q] = req[q],
             MintingOK(r)'
      PROVE  \A q \in Requests : MintingOK(q)'
  BY <1>1, <1>2, <1>3 DEF ClientsInv, MintingOK
<1>4. ASSUME issued' = issued PROVE ChallengelessIsConfidential'
  BY <1>1, <1>2, <1>4, ConstantsAssumption
  DEF ClientsInv, ChallengelessIsConfidential, CodesTypeOK, SaOauthCode
<1>5. ASSUME NEW r \in Requests, Arrive(r) PROVE ClientsInv'
  <2>1. issued' = issued /\ \A q \in Requests : q # r => req'[q] = req[q]
    BY <1>1, <1>5 DEF Arrive, StartAuthorize, StartSignup, Present, Become
  <2>2. ASSUME NEW u \in Users, NEW a \in Clients, NEW uri \in Uris,
               NEW v \in Verifiers \cup {Null}, StartAuthorize(r, u, a, uri, v)
        PROVE  MintingOK(r)'
    BY <1>1, <1>2, <2>2 DEF StartAuthorize, Become, IdleRequest, MintingOK
  <2>3. ASSUME NEW u \in Users, NEW uri \in Uris, NEW v \in Verifiers \cup {Null},
               StartSignup(r, u, uri, v)
        PROVE  MintingOK(r)'
    BY <1>1, <1>2, <2>3, ConstantsAssumption
    DEF StartSignup, Become, IdleRequest, MintingOK
  <2>4. ASSUME NEW c \in Codes, NEW a \in Clients, NEW uri \in Uris,
               NEW v \in Verifiers \cup {Null}, NEW n \in 0 .. MaxSecret,
               Present(r, c, a, uri, v, n)
        PROVE  MintingOK(r)'
    BY <1>1, <2>4 DEF Present, Become, IdleRequest, MintingOK
  <2>5. QED
    BY <1>3, <1>4, <1>5, <2>1, <2>2, <2>3, <2>4 DEF Arrive, ClientsInv
<1>6. ASSUME NEW r \in Requests, ServeRequest(r) PROVE ClientsInv'
  <2>1. ASSUME NEW c \in Codes, GenerateCode(r, c) PROVE ClientsInv'
    <3>1. MintingOK(r) /\ req[r].phase = "admitted" /\ client' = client
      BY <1>1, <2>1 DEF ClientsInv, GenerateCode
    <3>2. /\ issued'[c] = NewRow(r)
          /\ \A d \in Codes : d # c => issued'[d] = issued[d]
          /\ req'[r].phase = "idle" /\ \A q \in Requests : q # r => req'[q] = req[q]
      BY <1>1, <2>1 DEF GenerateCode, Become, IdleRequest, CodesTypeOK
    <3>3. ChallengelessIsConfidential'
      BY <1>1, <3>1, <3>2
      DEF ClientsInv, ChallengelessIsConfidential, NewRow, MintingOK, Confidential
    <3>4. MintingOK(r)'
      BY <3>2 DEF MintingOK
    <3>5. QED
      BY <1>3, <3>2, <3>3, <3>4 DEF ClientsInv
  <2>2. ASSUME AdmitUser(r) PROVE ClientsInv'
    <3>1. /\ issued' = issued /\ client' = client
          /\ \A q \in Requests : q # r => req'[q] = req[q]
          /\ req[r].phase = "authorizing" /\ MintingOK(r)
          /\ req'[r].user = req[r].user /\ req'[r].app = req[r].app
          /\ req'[r].uri = req[r].uri /\ req'[r].proof = req[r].proof
      BY <1>1, <2>2 DEF AdmitUser, ClientsInv, Request
    <3>2. MintingOK(r)'
      BY <3>1 DEF MintingOK, Confidential
    <3>3. QED
      BY <1>3, <1>4, <3>1, <3>2 DEF ClientsInv
  <2>3. ASSUME RejectUser(r) \/ ClaimCode(r) \/ RefuseCode(r) \/ CodeGone(r)
               \/ PassStatus(r) \/ FailStatus(r) \/ AnswerToken(r)
        PROVE  ClientsInv'
    <3>1. /\ issued' = issued /\ \A q \in Requests : q # r => req'[q] = req[q]
          /\ req'[r].phase \in {"idle", "claimed", "cleared"}
      BY <1>1, <2>3
      DEF RejectUser, ClaimCode, RefuseCode, CodeGone, PassStatus, FailStatus, AnswerToken,
          Become, IdleRequest, Request
    <3>2. MintingOK(r)'
      BY <3>1 DEF MintingOK
    <3>3. QED
      BY <1>3, <1>4, <3>1, <3>2 DEF ClientsInv
  <2>4. QED
    BY <1>6, <2>1, <2>2, <2>3 DEF ServeRequest
<1>7. ASSUME NEW r \in Requests, Abandon(r) PROVE ClientsInv'
  <2>1. /\ issued' = issued /\ req'[r].phase = "idle"
        /\ \A q \in Requests : q # r => req'[q] = req[q]
    BY <1>1, <1>7 DEF Abandon, Become, IdleRequest
  <2>2. MintingOK(r)'
    BY <2>1 DEF MintingOK
  <2>3. QED
    BY <1>3, <1>4, <2>1, <2>2 DEF ClientsInv
<1>8. ASSUME Administer \/ SweepCodes \/ Tick \/ UNCHANGED codesVars PROVE ClientsInv'
  <2>1. issued' = issued /\ req' = req
    BY <1>8 DEF Administer, RotateSecret, ReplaceUris, SetStatus, SweepCodes, Tick, codesVars
  <2>2. \A q \in Requests : MintingOK(q)'
    BY <1>1, <1>2, <2>1 DEF ClientsInv, MintingOK
  <2>3. QED
    BY <1>4, <2>1, <2>2 DEF ClientsInv
<1>9. QED
  BY <1>5, <1>6, <1>7, <1>8 DEF CodesNext

LEMMA Inductive == IInv /\ [CodesNext]_codesVars => IInv'
BY TypeStep, CodesStep, ClientsStep DEF IInv

LEMMA Invariance == CodesSpec => []IInv
BY InitInv, Inductive, PTL DEF CodesSpec

\* The clock, the rows, the clients and the handlers stay well typed.
THEOREM TypeCorrect == CodesSpec => []CodesTypeOK
<1>1. IInv => CodesTypeOK
  BY DEF IInv
<1>2. QED
  BY Invariance, <1>1, PTL

\* However many replicas race for a code, and however often it is presented, tokens
\* are sent for it at most once.
THEOREM CodesAreSingleUse == CodesSpec => []SingleUse
<1>1. IInv => SingleUse
  BY DEF IInv, CodesInv, CodeOK, SingleUse
<1>2. QED
  BY Invariance, <1>1, PTL

\* A code without a challenge belongs to a client that has a secret, whatever admins do
\* to clients between the request at /authorize and the redemption of the code.
THEOREM ChallengelessCodes == CodesSpec => []ChallengelessIsConfidential
<1>1. IInv => ChallengelessIsConfidential
  BY DEF IInv, ClientsInv
<1>2. QED
  BY Invariance, <1>1, PTL

\* Tokens are only sent to the client and for the redirect URI of the code, against its
\* verifier or the client's secret, and for a code claimed in time.
THEOREM AnswersHonourCodes == CodesSpec => AnswerHonoursCode
<1> DEFINE Honours ==
      \A r \in Requests : AnswerToken(r) =>
        LET row == issued[req[r].code] IN
        /\ row.app = req[r].app
        /\ row.uri = req[r].uri
        /\ IF row.challenge = Null THEN req[r].authenticated
           ELSE req[r].proof = row.challenge
        /\ req[r].at <= row.expiresAt
<1>1. IInv => [Honours]_codesVars
  BY DEF IInv, CodesInv, HandlerOK, Holding, AnswerToken
<1>2. CodesSpec => [][Honours]_codesVars
  BY <1>1, Invariance, PTL
<1>3. QED
  BY <1>2 DEF AnswerHonoursCode

-----------------------------------------------------------------------------
(* The refinement *)

\* Some handler has the row of c and has not answered.
Held(c) == \E r \in Requests : req[r].code = c /\ req[r].phase \in {"claimed", "cleared"}

\* The stages are told apart by where the code is.
StagesTold ==
  /\ GrantStage \in [Codes -> Grants!Stages]
  /\ \A c \in Codes :
       /\ GrantStage[c] = "unissued" <=> issued[c] = Null
       /\ GrantStage[c] = "granted" <=> answers[c] > 0
       /\ GrantStage[c] = "outstanding" <=> c \in stored
       /\ GrantStage[c] = "claimed" <=> Held(c)

LEMMA StageMeaning == IInv => StagesTold
<1> SUFFICES ASSUME IInv PROVE StagesTold
  OBVIOUS
<1>1. ASSUME NEW c \in Codes
      PROVE  /\ answers[c] \in Nat
             /\ c \in stored \/ answers[c] > 0 => issued[c] # Null
             /\ c \in stored => answers[c] = 0
             /\ Held(c) => issued[c] # Null /\ c \notin stored /\ answers[c] = 0
  BY DEF IInv, CodesTypeOK, CodesInv, CodeOK, HandlerOK, Held, Holding
<1>2. ASSUME NEW c \in Codes
      PROVE  GrantStage[c] = CASE issued[c] = Null -> "unissued"
                               [] answers[c] > 0 -> "granted"
                               [] c \in stored /\ answers[c] = 0 -> "outstanding"
                               [] OTHER -> IF Held(c) THEN "claimed" ELSE "void"
  BY DEF GrantStage, Held
<1>3. ASSUME NEW c \in Codes
      PROVE  /\ GrantStage[c] \in Grants!Stages
             /\ GrantStage[c] = "unissued" <=> issued[c] = Null
             /\ GrantStage[c] = "granted" <=> answers[c] > 0
             /\ GrantStage[c] = "outstanding" <=> c \in stored
             /\ GrantStage[c] = "claimed" <=> Held(c)
  <2>1. CASE issued[c] = Null
    BY <1>1, <1>2, <2>1 DEF Grants!Stages
  <2>2. CASE issued[c] # Null /\ answers[c] > 0
    BY <1>1, <1>2, <2>2 DEF Grants!Stages
  <2>3. CASE issued[c] # Null /\ c \in stored
    BY <1>1, <1>2, <2>3 DEF Grants!Stages
  <2>4. CASE issued[c] # Null /\ ~(answers[c] > 0) /\ c \notin stored
    BY <1>1, <1>2, <2>4 DEF Grants!Stages
  <2>5. QED
    BY <2>1, <2>2, <2>3, <2>4
<1>4. QED
  BY <1>3 DEF GrantStage, StagesTold

\* Codes a step leaves where they are keep their stage.
LEMMA StageKept ==
  ASSUME IInv, IInv', NEW c \in Codes,
         issued'[c] = Null <=> issued[c] = Null, answers'[c] = answers[c],
         c \in stored' <=> c \in stored, Held(c)' <=> Held(c)
  PROVE  GrantStage'[c] = GrantStage[c]
<1>1. StagesTold /\ StagesTold'
  BY StageMeaning, PTL
<1>2. QED
  BY <1>1 DEF StagesTold, Grants!Stages

\* A code that was in the table or held, and is neither now and got no answer, is void.
LEMMA StageVoid ==
  ASSUME IInv, IInv', NEW c \in Codes, c \in stored \/ Held(c), issued'[c] = issued[c],
         answers'[c] = answers[c], c \notin stored', ~Held(c)'
  PROVE  GrantStage[c] \in {"outstanding", "claimed"} /\ GrantStage'[c] = "void"
<1>1. StagesTold /\ StagesTold'
  BY StageMeaning, PTL
<1>2. QED
  BY <1>1 DEF StagesTold, Grants!Stages

LEMMA InitRefines == CodesInit => Grants!Init
BY DEF CodesInit, Grants!Init, GrantStage

\* Each step on a code is one of its moves; a sweep, a refusal and a failure void codes.
LEMMA StepRefines == IInv /\ IInv' /\ [CodesNext]_codesVars => [Grants!Next]_GrantStage
<1> SUFFICES ASSUME IInv, IInv', [CodesNext]_codesVars PROVE [Grants!Next]_GrantStage
  OBVIOUS
<1>1. CodesTypeOK /\ CodesInv /\ req \in [Requests -> Request]
  BY DEF IInv, CodesTypeOK
<1>2. StagesTold
  BY StageMeaning
<1>3. StagesTold'
  BY StageMeaning, PTL
\* A step after which every code is where it was.
<1>4. ASSUME UNCHANGED <<issued, stored, answers>>, \A c \in Codes : Held(c)' <=> Held(c)
      PROVE  [Grants!Next]_GrantStage
  <2>1. \A c \in Codes : GrantStage'[c] = GrantStage[c]
    BY <1>4, StageKept
  <2>2. QED
    BY <1>2, <1>3, <2>1 DEF StagesTold
\* A step that moves one code.
<1>5. ASSUME NEW c \in Codes, NEW to \in Grants!Stages, GrantStage'[c] = to,
             \A d \in Codes : d # c => GrantStage'[d] = GrantStage[d]
      PROVE  Grants!Move(c, GrantStage[c], to)
  BY <1>2, <1>3, <1>5 DEF Grants!Move, StagesTold
\* A step that loses some codes for good.
<1>6. ASSUME NEW C \in SUBSET Codes,
             \A c \in C : GrantStage[c] \in {"outstanding", "claimed"} /\ GrantStage'[c] = "void",
             \A c \in Codes \ C : GrantStage'[c] = GrantStage[c]
      PROVE  [Grants!Next]_GrantStage
  <2>1. Grants!Void(C)
    BY <1>2, <1>3, <1>6 DEF Grants!Void, StagesTold
  <2>2. QED
    BY <2>1 DEF Grants!Next
\* A step of a handler that holds nothing, before and after it.
<1>7. ASSUME NEW r \in Requests, \A q \in Requests : q # r => req'[q] = req[q],
             req[r].phase \notin {"claimed", "cleared"},
             req'[r].phase \notin {"claimed", "cleared"}
      PROVE  \A c \in Codes : Held(c)' <=> Held(c)
  BY <1>7 DEF Held
\* A handler that held a code and gave up.
<1>8. ASSUME NEW r \in Requests, req' = [req EXCEPT ![r] = IdleRequest],
             UNCHANGED <<issued, stored, answers>>
      PROVE  [Grants!Next]_GrantStage
  <2>1. req'[r].phase = "idle" /\ \A q \in Requests : q # r => req'[q] = req[q]
    BY <1>1, <1>8 DEF IdleRequest
  <2>2. CASE ~Holding(r)
    BY <1>4, <1>7, <1>8, <2>1, <2>2 DEF Holding
  <2>3. CASE Holding(r)
    <3>0. PICK c \in Codes : c = req[r].code
      BY <1>1, <2>3 DEF CodesInv, HandlerOK
    <3>1. c \notin stored /\ Held(c)
      BY <1>1, <2>3, <3>0 DEF CodesInv, HandlerOK, Held, Holding
    <3>2. ~Held(c)'
      BY <1>1, <2>1, <2>3, <3>0 DEF CodesInv, HoldersApart, Held, Holding
    <3>3. GrantStage[c] \in {"outstanding", "claimed"} /\ GrantStage'[c] = "void"
      BY <1>8, <3>1, <3>2, StageVoid
    <3>4. \A d \in Codes \ {c} : Held(d)' <=> Held(d)
      BY <2>1, <2>3, <3>0 DEF Held, Holding
    <3>5. \A d \in Codes \ {c} : GrantStage'[d] = GrantStage[d]
      BY <1>8, <3>4, StageKept
    <3>6. QED
      BY <1>6, <3>1, <3>3, <3>5
  <2>4. QED
    BY <2>2, <2>3
<1>9. ASSUME NEW r \in Requests, Arrive(r) PROVE [Grants!Next]_GrantStage
  <2>1. /\ UNCHANGED <<issued, stored, answers>>
        /\ \A q \in Requests : q # r => req'[q] = req[q]
        /\ req[r].phase \notin {"claimed", "cleared"}
    BY <1>1, <1>9 DEF Arrive, StartAuthorize, StartSignup, Present, Become
  <2>2. req'[r].phase \notin {"claimed", "cleared"}
    <3>1. ASSUME NEW c \in Codes, NEW a \in Clients, NEW uri \in Uris,
                 NEW v \in Verifiers \cup {Null}, NEW n \in 0 .. MaxSecret,
                 Present(r, c, a, uri, v, n)
          PROVE  req'[r].phase = "presenting"
      BY <1>1, <3>1 DEF Present, Become, IdleRequest
    <3>2. QED
      BY <1>1, <1>9, <3>1 DEF Arrive, StartAuthorize, StartSignup, Become, IdleRequest
  <2>3. QED
    BY <1>4, <1>7, <2>1, <2>2
<1>10. ASSUME NEW r \in Requests, ServeRequest(r) PROVE [Grants!Next]_GrantStage
  <2>1. ASSUME AdmitUser(r) PROVE [Grants!Next]_GrantStage
    <3>1. /\ UNCHANGED <<issued, stored, answers>>
          /\ \A q \in Requests : q # r => req'[q] = req[q]
          /\ req[r].phase = "authorizing" /\ req'[r].phase = "admitted"
      BY <1>1, <2>1 DEF AdmitUser, Request
    <3>2. QED
      BY <1>4, <1>7, <3>1
  <2>2. ASSUME RejectUser(r) \/ CodeGone(r) \/ FailStatus(r)
        PROVE  [Grants!Next]_GrantStage
    BY <1>8, <2>2 DEF RejectUser, CodeGone, FailStatus, Become
  <2>3. ASSUME NEW c \in Codes, GenerateCode(r, c) PROVE [Grants!Next]_GrantStage
    <3>1. /\ \A d \in Codes : d # c => issued'[d] = issued[d]
          /\ stored' = stored \cup {c} /\ answers' = answers
          /\ req[r].phase = "admitted" /\ req'[r].phase = "idle"
          /\ \A q \in Requests : q # r => req'[q] = req[q]
          /\ issued[c] = Null
      BY <1>1, <2>3 DEF GenerateCode, Become, CodesTypeOK, IdleRequest
    <3>2. \A d \in Codes : Held(d)' <=> Held(d)
      BY <1>7, <3>1
    <3>3. \A d \in Codes : d # c => GrantStage'[d] = GrantStage[d]
      BY <3>1, <3>2, StageKept
    <3>4. GrantStage[c] = "unissued" /\ GrantStage'[c] = "outstanding"
      BY <1>2, <1>3, <3>1 DEF StagesTold
    <3>5. Grants!Issue(c)
      BY <1>5, <3>3, <3>4 DEF Grants!Issue, Grants!Stages
    <3>6. QED
      BY <3>5 DEF Grants!Next
  <2>4. ASSUME ClaimCode(r) PROVE [Grants!Next]_GrantStage
    <3>0. PICK c \in Codes : c = req[r].code
      BY <1>1, <2>4 DEF ClaimCode, CodesInv, HandlerOK
    <3>1. c \in stored /\ stored' = stored \ {c} /\ UNCHANGED <<issued, answers>>
      BY <2>4, <3>0 DEF ClaimCode
    <3>2. /\ req[r].phase = "presenting" /\ req'[r].phase = "claimed" /\ req'[r].code = c
          /\ \A q \in Requests : q # r => req'[q] = req[q]
      BY <1>1, <2>4, <3>0 DEF ClaimCode, Request
    <3>3. Held(c)' /\ \A d \in Codes \ {c} : Held(d)' <=> Held(d)
      BY <3>0, <3>1, <3>2 DEF Held
    <3>4. \A d \in Codes : d # c => GrantStage'[d] = GrantStage[d]
      BY <3>1, <3>3, StageKept
    <3>5. GrantStage[c] = "outstanding" /\ GrantStage'[c] = "claimed"
      BY <1>2, <1>3, <3>1, <3>3 DEF StagesTold
    <3>6. Grants!Claim(c)
      BY <1>5, <3>1, <3>4, <3>5 DEF Grants!Claim, Grants!Stages
    <3>7. QED
      BY <3>1, <3>6 DEF Grants!Next
  <2>5. ASSUME RefuseCode(r) PROVE [Grants!Next]_GrantStage
    <3>0. PICK c \in Codes : c = req[r].code
      BY <1>1, <2>5 DEF RefuseCode, CodesInv, HandlerOK
    <3>1. /\ c \in stored /\ stored' = stored \ {c} /\ UNCHANGED <<issued, answers>>
          /\ req[r].phase = "presenting" /\ req'[r].phase = "idle"
          /\ \A q \in Requests : q # r => req'[q] = req[q]
      BY <1>1, <2>5, <3>0 DEF RefuseCode, Become, IdleRequest
    <3>2. \A d \in Codes : Held(d)' <=> Held(d)
      BY <1>7, <3>1
    <3>3. ~Held(c)
      BY <1>1, <3>1 DEF CodesInv, HandlerOK, Held, Holding
    <3>4. GrantStage[c] \in {"outstanding", "claimed"} /\ GrantStage'[c] = "void"
      BY <3>1, <3>2, <3>3, StageVoid
    <3>5. \A d \in Codes \ {c} : GrantStage'[d] = GrantStage[d]
      BY <3>1, <3>2, StageKept
    <3>6. QED
      BY <1>6, <3>1, <3>4, <3>5
  <2>6. ASSUME PassStatus(r) PROVE [Grants!Next]_GrantStage
    <3>1. /\ UNCHANGED <<issued, stored, answers>>
          /\ req[r].phase = "claimed" /\ req'[r].phase = "cleared"
          /\ req'[r].code = req[r].code
          /\ \A q \in Requests : q # r => req'[q] = req[q]
      BY <1>1, <2>6 DEF PassStatus, Request
    <3>2. \A d \in Codes : Held(d)' <=> Held(d)
      BY <3>1 DEF Held
    <3>3. QED
      BY <1>4, <3>1, <3>2
  <2>7. ASSUME AnswerToken(r) PROVE [Grants!Next]_GrantStage
    <3>0. PICK c \in Codes : c = req[r].code
      BY <1>1, <2>7 DEF AnswerToken, CodesInv, HandlerOK, Holding
    <3>1. answers[c] = 0 /\ Held(c)
      BY <1>1, <2>7, <3>0 DEF AnswerToken, CodesInv, HandlerOK, Held, Holding
    <3>2. /\ answers'[c] = 1 /\ \A d \in Codes : d # c => answers'[d] = answers[d]
          /\ UNCHANGED <<issued, stored>>
          /\ req[r].phase = "cleared" /\ req'[r].phase = "idle"
          /\ \A q \in Requests : q # r => req'[q] = req[q]
      BY <1>1, <2>7, <3>0, <3>1 DEF AnswerToken, Become, CodesTypeOK, IdleRequest
    <3>3. \A d \in Codes \ {c} : Held(d)' <=> Held(d)
      BY <3>0, <3>2 DEF Held
    <3>4. \A d \in Codes : d # c => GrantStage'[d] = GrantStage[d]
      BY <3>2, <3>3, StageKept
    <3>5. GrantStage[c] = "claimed" /\ GrantStage'[c] = "granted"
      BY <1>2, <1>3, <3>1, <3>2 DEF StagesTold
    <3>6. Grants!Grant(c)
      BY <1>5, <3>1, <3>4, <3>5 DEF Grants!Grant, Grants!Stages
    <3>7. QED
      BY <3>1, <3>6 DEF Grants!Next
  <2>8. QED
    BY <1>10, <2>1, <2>2, <2>3, <2>4, <2>5, <2>6, <2>7 DEF ServeRequest
<1>11. ASSUME NEW r \in Requests, Abandon(r) PROVE [Grants!Next]_GrantStage
  BY <1>8, <1>11 DEF Abandon, Become
<1>12. ASSUME SweepCodes PROVE [Grants!Next]_GrantStage
  <2> DEFINE C == {c \in stored : issued[c].expiresAt < now}
  <2>1. C \subseteq stored /\ C \subseteq Codes /\ stored' = stored \ C
        /\ UNCHANGED <<issued, req, answers>>
    BY <1>1, <1>12 DEF SweepCodes, CodesTypeOK
  <2> HIDE DEF C
  <2>2. \A c \in Codes : Held(c)' <=> Held(c)
    BY <2>1 DEF Held
  <2>3. \A c \in C : ~Held(c)
    BY <1>1, <2>1 DEF CodesInv, HandlerOK, Held, Holding
  <2>4. \A c \in C : GrantStage[c] \in {"outstanding", "claimed"} /\ GrantStage'[c] = "void"
    BY <2>1, <2>2, <2>3, StageVoid
  <2>5. \A c \in Codes \ C : GrantStage'[c] = GrantStage[c]
    BY <2>1, <2>2, StageKept
  <2>6. QED
    BY <1>6, <2>1, <2>4, <2>5
<1>13. ASSUME Administer \/ Tick \/ UNCHANGED codesVars PROVE [Grants!Next]_GrantStage
  <2>1. UNCHANGED <<issued, stored, req, answers>>
    BY <1>13 DEF Administer, RotateSecret, ReplaceUris, SetStatus, Tick, codesVars
  <2>2. \A c \in Codes : Held(c)' <=> Held(c)
    BY <2>1 DEF Held
  <2>3. QED
    BY <1>4, <2>1, <2>2
<1>14. QED
  BY <1>9, <1>10, <1>11, <1>12, <1>13 DEF CodesNext

\* Seen from outside a code goes from issued to claimed to granted, or is void, and never
\* back, whatever requests race for it, fail or crash.
THEOREM CodesImplementGrants == CodesSpec => ImplementsSingleUse
<1>1. CodesSpec => Grants!Init
  BY InitRefines DEF CodesSpec
<1>2. CodesSpec => [][Grants!Next]_GrantStage
  BY Invariance, StepRefines, PTL DEF CodesSpec
<1>3. QED
  BY <1>1, <1>2 DEF ImplementsSingleUse, Grants!Spec
=============================================================================
