------------------------ MODULE AdministrationProofs ------------------------
(***************************************************************************)
(* Proofs about the four parts that MCAdministration puts together, each   *)
(* for every value of its constants: AccountAccess, Tenancy, Deployment,   *)
(* Seeding.  None of their properties is about one state's rows alone:     *)
(* each part has an invariant that says what a handler, a request, a run   *)
(* or a job may rely on in each of its phases.                             *)
(***************************************************************************)
EXTENDS MCAdministration, SequenceTheorems, TLAPS

(***************************************************************************)
(* Account access.  Both properties are about one step, the last of a      *)
(* handler, and depend on all that happened since its first.  The          *)
(* invariant carries that through the handler's phases: a request that has *)
(* been barred throughout belongs to a user who is inactive now and has    *)
(* not passed its check; a deactivation knows of everything that was live  *)
(* when it began that it is dead, or still to be ended by what the handler *)
(* does next.                                                              *)
(***************************************************************************)

\* The phases behind a check of the status.
Granting == {"gated", "admitted", "cleared", "refreshed"}

\* c was live for u when a deactivation of u began.
PriorOK(h, c) ==
  /\ cred[c] # None /\ cred[c].user = h.user /\ cred[c].kind \in {"session", "refresh"}
  /\ h.phase \in {"sessions_gone", "sweeping"} /\ cred[c].kind = "session" => ~cred[c].live
  /\ h.phase = "sweeping" /\ cred[c].live => c \in h.targets

\* What holds of a handler h.
HandlerOK(h) ==
  /\ h.phase # "idle" => h.user \in Users
  /\ h.barred => h.user \in Users /\ ~Active(h.user) /\ h.phase \notin Granting
  /\ \A c \in h.targets : cred[c] # None
  /\ h.phase \notin {"deactivating", "sessions_gone", "sweeping"} => h.prior = {}
  /\ \A c \in h.prior : PriorOK(h, c)

IInv == TypeOK /\ \A r \in Requests : HandlerOK(req[r])

LEMMA InitInv == Init => IInv
<1> SUFFICES ASSUME Init PROVE IInv
  OBVIOUS
<1>1. TypeOK
  BY DEF Init, TypeOK, Request, Phases, IdleRequest
<1>2. \A r \in Requests : HandlerOK(req[r])
  BY DEF Init, HandlerOK, IdleRequest
<1>3. QED
  BY <1>1, <1>2 DEF IInv

-----------------------------------------------------------------------------
(* What the steps do to the credentials *)

\* Rows are made live and ended, and never change owner or kind or come back to life.
Evolves ==
  /\ cred' \in [Creds -> Credential \cup {None}]
  /\ \A c \in Creds : cred[c] # None =>
       /\ cred'[c] # None /\ cred'[c].user = cred[c].user /\ cred'[c].kind = cred[c].kind
       /\ cred'[c].live => cred[c].live

\* Ending stored rows.
LEMMA KillRows ==
  ASSUME TypeOK, NEW S, \A c \in S \cap Creds : cred[c] # None
  PROVE  /\ Kill(S) \in [Creds -> Credential \cup {None}]
         /\ \A c \in Creds : c \notin S => Kill(S)[c] = cred[c]
         /\ \A c \in Creds : c \in S => ~Kill(S)[c].live
         /\ \A c \in Creds : cred[c] # None =>
              /\ Kill(S)[c] # None /\ Kill(S)[c].user = cred[c].user
              /\ Kill(S)[c].kind = cred[c].kind /\ (Kill(S)[c].live => cred[c].live)
<1> DEFINE row(c) == [cred[c] EXCEPT !.live = FALSE]
<1>1. ASSUME NEW c \in Creds, cred[c] # None
      PROVE  /\ row(c) \in Credential /\ row(c) # None /\ ~row(c).live
             /\ row(c).user = cred[c].user /\ row(c).kind = cred[c].kind
  <2>1. cred[c] \in Credential
    BY <1>1 DEF TypeOK
  <2>2. QED
    BY <2>1, ConstantsAssumption DEF Credential
<1>2. Kill(S) = [c \in Creds |-> IF c \in S THEN row(c) ELSE cred[c]]
  BY DEF Kill
<1> HIDE DEF row
<1>3. \A c \in Creds : Kill(S)[c] = IF c \in S THEN row(c) ELSE cred[c]
  BY <1>2
<1>4. \A c \in Creds : Kill(S)[c] \in Credential \cup {None}
  BY <1>1, <1>3 DEF TypeOK
<1>5. Kill(S) \in [Creds -> Credential \cup {None}]
  BY <1>2, <1>4
<1>6. QED
  BY <1>1, <1>3, <1>5

\* A new row.
LEMMA NewRowTyped ==
  ASSUME NEW u \in Users, NEW k \in Kinds
  PROVE  NewRow(u, k) \in Credential /\ NewRow(u, k) # None
<1>1. NewRow(u, k) \in Credential
  BY DEF NewRow, Credential
<1>2. QED
  BY <1>1, ConstantsAssumption

LEMMA MakeEvolves ==
  ASSUME IInv, NEW r \in Requests, NEW from \in Phases \ {"idle"}, NEW c \in Creds,
         NEW k \in Kinds, Make(r, from, c, k)
  PROVE  Evolves
<1>1. TypeOK /\ req[r].user \in Users
  BY DEF IInv, HandlerOK, Make
<1>2. NewRow(req[r].user, k) \in Credential \cup {None}
  BY <1>1, NewRowTyped
<1>3. QED
  BY <1>1, <1>2 DEF Make, Evolves, TypeOK

LEMMA CredEvolves == IInv /\ [Next]_vars => Evolves
<1> SUFFICES ASSUME IInv, [Next]_vars PROVE Evolves
  OBVIOUS
<1>1. TypeOK
  BY DEF IInv
<1>2. ASSUME NEW S, \A c \in S \cap Creds : cred[c] # None, cred' = Kill(S) PROVE Evolves
  BY <1>1, <1>2, KillRows DEF Evolves
<1>3. CASE cred' = cred
  BY <1>1, <1>3 DEF Evolves, TypeOK
<1>4. ASSUME NEW r \in Requests, NEW c \in Creds,
             CreateSession(r, c) \/ CreateCode(r, c) \/ IssueRefresh(r, c)
      PROVE  Evolves
  BY <1>4, MakeEvolves DEF CreateSession, CreateCode, IssueRefresh, Phases, Kinds
<1>5. ASSUME NEW r \in Requests, NEW c \in Creds, ClaimCode(r, c) PROVE Evolves
  BY <1>2, <1>5 DEF ClaimCode
<1>6. ASSUME NEW r \in Requests, NEW c \in Creds, NEW n \in Creds, RefreshGrant(r, c, n)
      PROVE  Evolves
  <2>1. /\ cred[c] # None /\ cred[n] = None /\ cred[c].user \in Users
        /\ cred' = [Kill({c}) EXCEPT ![n] = NewRow(cred[c].user, "refresh")]
    BY <1>1, <1>6 DEF RefreshGrant, TypeOK, Credential
  <2>2. /\ Kill({c}) \in [Creds -> Credential \cup {None}]
        /\ \A d \in Creds : cred[d] # None =>
              /\ Kill({c})[d] # None /\ Kill({c})[d].user = cred[d].user
              /\ Kill({c})[d].kind = cred[d].kind /\ (Kill({c})[d].live => cred[d].live)
    BY <1>1, <2>1, KillRows
  <2>3. NewRow(cred[c].user, "refresh") \in Credential
    BY <2>1, NewRowTyped DEF Kinds
  <2>4. QED
    BY <2>1, <2>2, <2>3 DEF Evolves
<1>7. ASSUME NEW r \in Requests, NEW u \in Users, NEW c \in Creds \cup {None}, LogOut(r, u, c)
      PROVE  Evolves
  <2>1. \A d \in {c} \cap Creds : cred[d] # None
    BY <1>7, ConstantsAssumption DEF LogOut, LiveOf
  <2>2. QED
    BY <1>2, <1>7, <2>1 DEF LogOut
<1>8. ASSUME NEW r \in Requests, DeleteSessions(r) PROVE Evolves
  BY <1>2, <1>8 DEF DeleteSessions, LiveOf
<1>9. ASSUME NEW r \in Requests, ApplyRevocation(r) PROVE Evolves
  BY <1>2, <1>9 DEF ApplyRevocation, IInv, HandlerOK
<1>10. QED
  BY <1>3, <1>4, <1>5, <1>6, <1>7, <1>8, <1>9
  DEF Next, Serve, Arrive, vars, Activate, Abandon, SignIn, DirectLogin, Deactivate,
      Authorize, EvaluateSessionGate, CheckAuthorize, CheckExchange, CheckRefresh, Check,
      Respond, StartRevocation, StartLogoutRevocation

-----------------------------------------------------------------------------
(* What the steps do to the handlers *)

\* A handler that rests while others work keeps what it may rely on, unless an account
\* is activated.
LEMMA HandlerKept ==
  ASSUME IInv, Evolves, NEW h \in Request, HandlerOK(h),
         \A u \in Users : Active(u)' => Active(u)
  PROVE  HandlerOK(h)'
<1>1. \A c \in h.prior : PriorOK(h, c)'
  <2> SUFFICES ASSUME NEW c \in h.prior PROVE PriorOK(h, c)'
    OBVIOUS
  <2>1. c \in Creds /\ PriorOK(h, c)
    BY DEF Request, HandlerOK
  <2>2. QED
    BY <2>1 DEF PriorOK, Evolves
<1>2. \A c \in h.targets : cred'[c] # None
  BY DEF HandlerOK, Evolves, Request
<1>3. h.barred => ~Active(h.user)'
  BY DEF HandlerOK, Granting
<1>4. QED
  BY <1>1, <1>2, <1>3 DEF HandlerOK

\* A step of one handler, after which it has the record h.
LEMMA HandlerStep ==
  ASSUME IInv, Evolves, \A u \in Users : Active(u)' => Active(u),
         status' \in [Users -> {"active", "inactive"}], loggedOut' \subseteq Users,
         NEW r \in Requests, NEW h \in Request, req' = [req EXCEPT ![r] = h],
         HandlerOK(h)'
  PROVE  IInv'
<1>1. /\ req' \in [Requests -> Request] /\ req'[r] = h
      /\ \A q \in Requests : q # r => req'[q] = req[q]
  BY DEF IInv, TypeOK
<1>2. TypeOK'
  BY <1>1 DEF TypeOK, Evolves
<1>3. ASSUME NEW q \in Requests, q # r PROVE HandlerOK(req[q])'
  <2>1. PICK g \in Request : g = req[q]
    BY DEF IInv, TypeOK
  <2>2. HandlerOK(g)'
    BY <2>1, HandlerKept DEF IInv
  <2>3. req'[q] = g
    BY <1>1, <1>3, <2>1
  <2>4. QED
    BY <2>2, <2>3 DEF HandlerOK, PriorOK
<1>4. HandlerOK(req[r])'
  BY <1>1 DEF HandlerOK, PriorOK
<1>5. QED
  BY <1>2, <1>3, <1>4 DEF IInv

LEMMA IdleTyped == IdleRequest \in Request /\ IdleRequest.phase = "idle"
BY DEF IdleRequest, Request, Phases

\* A handler that has finished has nothing to rely on.
LEMMA FinishStep ==
  ASSUME IInv, Evolves, UNCHANGED status, loggedOut' \subseteq Users,
         NEW r \in Requests, Finish(r)
  PROVE  IInv'
<1>1. PICK h \in Request : h = IdleRequest
  BY IdleTyped
<1>2. HandlerOK(h)'
  BY <1>1 DEF IdleRequest, HandlerOK
<1>3. status' \in [Users -> {"active", "inactive"}]
      /\ \A u \in Users : Active(u)' => Active(u)
  BY DEF IInv, TypeOK, Active
<1>4. QED
  BY <1>1, <1>2, <1>3, HandlerStep DEF Finish

\* A handler begins, for a user who may be barred from then on.
LEMMA BeginStep ==
  ASSUME IInv, Evolves, UNCHANGED <<status, loggedOut>>,
         NEW r \in Requests, NEW u \in Users, NEW phase \in Phases, Begin(r, u, phase),
         phase \notin Granting \/ Active(u),
         phase \notin {"deactivating", "sessions_gone", "sweeping"}
  PROVE  IInv'
<1>1. Active(u) \in BOOLEAN
  BY DEF Active
<1>2. PICK h \in Request :
        h = [IdleRequest EXCEPT !.phase = phase, !.user = u, !.barred = ~Active(u)]
  BY <1>1, IdleTyped DEF Request
<1>3. /\ h.phase = phase /\ h.user = u /\ h.barred = ~Active(u)
      /\ h.targets = {} /\ h.prior = {}
  BY <1>2 DEF IdleRequest
<1>4. HandlerOK(h)'
  BY <1>3 DEF HandlerOK, Active
<1>5. /\ status' \in [Users -> {"active", "inactive"}] /\ loggedOut' \subseteq Users
      /\ \A v \in Users : Active(v)' => Active(v)
  BY DEF IInv, TypeOK, Active
<1>6. req' = [req EXCEPT ![r] = h]
  BY <1>2 DEF Begin
<1>7. QED
  BY <1>4, <1>5, <1>6, HandlerStep

\* A check of the status: a barred request does not pass.
LEMMA CheckStep ==
  ASSUME IInv, NEW r \in Requests, NEW from \in Phases, NEW to \in Granting, Check(r, from, to),
         from \notin {"idle", "deactivating", "sessions_gone", "sweeping"}, Evolves
  PROVE  IInv'
<1>1. CASE Finish(r)
  BY <1>1, FinishStep DEF Check, IInv, TypeOK
<1>2. CASE Active(req[r].user) /\ Advance(r, from, to)
  <2>1. req[r] \in Request /\ HandlerOK(req[r]) /\ req[r].phase = from
    BY <1>2 DEF IInv, TypeOK, Advance
  <2>2. PICK h \in Request : h = [req[r] EXCEPT !.phase = to]
    BY <2>1 DEF Request, Granting, Phases
  <2>3. /\ h.phase = to /\ h.user = req[r].user /\ h.barred = req[r].barred
        /\ h.targets = req[r].targets /\ h.prior = req[r].prior
    BY <2>1, <2>2 DEF Request
  <2>4. cred' = cred /\ status' = status /\ loggedOut' = loggedOut
    BY DEF Check
  <2>5. HandlerOK(h)'
    BY <1>2, <2>1, <2>3, <2>4 DEF HandlerOK, Active, Granting
  <2>6. req' = [req EXCEPT ![r] = h]
    BY <1>2, <2>2 DEF Advance, IInv, TypeOK
  <2>7. /\ status' \in [Users -> {"active", "inactive"}] /\ loggedOut' \subseteq Users
        /\ \A v \in Users : Active(v)' => Active(v)
    BY <2>4 DEF IInv, TypeOK, Active
  <2>8. QED
    BY <2>5, <2>6, <2>7, HandlerStep
<1>3. QED
  BY <1>1, <1>2 DEF Check

\* updateUser starts: what is live now is what it has to end.
LEMMA DeactivateStep ==
  ASSUME IInv, NEW r \in Requests, NEW u \in Users, Deactivate(r, u), Evolves
  PROVE  IInv'
<1> DEFINE P == LiveOf(u, {"session", "refresh"})
<1>1. P \subseteq Creds /\ cred' = cred /\ loggedOut' = loggedOut
  BY DEF LiveOf, Deactivate
<1>2. \A c \in P : /\ cred[c] # None /\ cred[c].user = u
                   /\ cred[c].kind \in {"session", "refresh"}
  BY DEF LiveOf
<1>3. req' = [req EXCEPT ![r] = [IdleRequest EXCEPT !.phase = "deactivating", !.user = u,
                                   !.killing = TRUE, !.prior = P]]
  BY DEF Deactivate
<1> HIDE DEF P
<1>4. PICK h \in Request :
        h = [IdleRequest EXCEPT !.phase = "deactivating", !.user = u, !.killing = TRUE,
                                !.prior = P]
  BY <1>1, IdleTyped DEF Request, Phases
<1>5. /\ h.phase = "deactivating" /\ h.user = u /\ h.barred = FALSE
      /\ h.targets = {} /\ h.prior = P
  BY <1>4 DEF IdleRequest
<1>6. HandlerOK(h)'
  BY <1>1, <1>2, <1>5 DEF HandlerOK, PriorOK
<1>7. /\ status' \in [Users -> {"active", "inactive"}] /\ loggedOut' \subseteq Users
      /\ \A v \in Users : Active(v)' => Active(v)
  BY <1>1 DEF Deactivate, IInv, TypeOK, Active
<1>8. QED
  BY <1>3, <1>4, <1>6, <1>7, HandlerStep

\* The sessions among them are ended ...
LEMMA SessionsStep ==
  ASSUME IInv, NEW r \in Requests, DeleteSessions(r), Evolves
  PROVE  IInv'
<1> DEFINE S == LiveOf(req[r].user, {"session"})
<1>1. /\ req[r] \in Request /\ HandlerOK(req[r]) /\ req[r].phase = "deactivating"
      /\ UNCHANGED <<status, loggedOut>>
  BY DEF IInv, TypeOK, DeleteSessions, Advance
<1>2. PICK h \in Request : h = [req[r] EXCEPT !.phase = "sessions_gone"]
  BY <1>1 DEF Request, Phases
<1>3. /\ h.phase = "sessions_gone" /\ h.user = req[r].user /\ h.barred = req[r].barred
      /\ h.targets = req[r].targets /\ h.prior = req[r].prior
      /\ h.prior \subseteq Creds /\ h.targets \subseteq Creds
  BY <1>1, <1>2 DEF Request
<1>4. \A c \in S : c \in Creds /\ cred[c] # None
  BY DEF LiveOf
<1>5. cred' = Kill(S)
  BY DEF DeleteSessions
<1>6. \A c \in Creds : c \in S => ~cred'[c].live
  BY <1>4, <1>5, KillRows DEF IInv
<1>7. ASSUME NEW c \in h.prior PROVE PriorOK(h, c)'
  <2>1. /\ c \in Creds /\ cred[c] # None /\ cred[c].user = req[r].user
        /\ cred[c].kind \in {"session", "refresh"}
    BY <1>1, <1>3, <1>7 DEF HandlerOK, PriorOK
  <2>2. cred[c].live /\ cred[c].kind = "session" => c \in S
    BY <2>1 DEF LiveOf
  <2> HIDE DEF S
  <2>3. QED
    BY <1>3, <1>6, <2>1, <2>2 DEF PriorOK, Evolves
<1> HIDE DEF S
<1>8. HandlerOK(h)'
  BY <1>1, <1>3, <1>7 DEF HandlerOK, Granting, Active, Evolves
<1>9. req' = [req EXCEPT ![r] = h]
  BY <1>2 DEF DeleteSessions, Advance, IInv, TypeOK
<1>10. /\ status' \in [Users -> {"active", "inactive"}] /\ loggedOut' \subseteq Users
       /\ \A v \in Users : Active(v)' => Active(v)
  BY <1>1 DEF IInv, TypeOK, Active
<1>11. QED
  BY <1>8, <1>9, <1>10, HandlerStep

\* ... and the refresh tokens among them are seen by the sweep, if they are live still.
LEMMA SweepStarts ==
  ASSUME IInv, NEW r \in Requests, NEW S \in SUBSET Creds,
         \/ StartLogoutRevocation(r, S)
         \/ StartRevocation(r) /\ S = LiveOf(req[r].user, {"refresh"}),
         Evolves
  PROVE  IInv'
<1>1. /\ req[r] \in Request /\ HandlerOK(req[r])
      /\ UNCHANGED <<status, cred, loggedOut>>
      /\ req' = [req EXCEPT ![r] = [req[r] EXCEPT !.phase = "sweeping", !.targets = S]]
  BY DEF IInv, TypeOK, StartLogoutRevocation, StartRevocation
<1>2. PICK h \in Request : h = [req[r] EXCEPT !.phase = "sweeping", !.targets = S]
  BY <1>1 DEF Request, Phases
<1>3. /\ h.phase = "sweeping" /\ h.user = req[r].user /\ h.barred = req[r].barred
      /\ h.targets = S /\ h.prior = req[r].prior /\ h.prior \subseteq Creds
  BY <1>1, <1>2 DEF Request
<1>4. \A c \in S : cred[c] # None
  BY DEF LiveOf, StartLogoutRevocation
<1>5. req[r].phase = "signed_out" => h.prior = {}
  BY <1>1, <1>3 DEF HandlerOK
<1>6. ASSUME NEW c \in h.prior PROVE PriorOK(h, c)
  <2>1. req[r].phase = "sessions_gone" /\ S = LiveOf(req[r].user, {"refresh"})
    BY <1>5, <1>6 DEF StartLogoutRevocation, StartRevocation
  <2>2. PriorOK(req[r], c) /\ c \in Creds
    BY <1>1, <1>3, <1>6 DEF HandlerOK
  <2>3. QED
    BY <1>3, <2>1, <2>2 DEF PriorOK, LiveOf
<1>7. HandlerOK(h)'
  BY <1>1, <1>3, <1>4, <1>6
  DEF HandlerOK, PriorOK, Granting, Active, StartLogoutRevocation, StartRevocation
<1>8. /\ status' \in [Users -> {"active", "inactive"}] /\ loggedOut' \subseteq Users
      /\ \A v \in Users : Active(v)' => Active(v)
  BY <1>1 DEF IInv, TypeOK, Active
<1>9. QED
  BY <1>1, <1>2, <1>7, <1>8, HandlerStep

\* An activation lifts the bar of all the user's requests.
LEMMA ActivateStep ==
  ASSUME IInv, NEW u \in Users, Activate(u)
  PROVE  IInv'
<1>1. TypeOK /\ cred' = cred /\ status' = [status EXCEPT ![u] = "active"]
      /\ loggedOut' \subseteq Users
  BY DEF IInv, TypeOK, Activate
<1>2. ASSUME NEW r \in Requests
      PROVE  \E h \in Request :
               /\ req'[r] = h /\ h.phase = req[r].phase /\ h.user = req[r].user
               /\ h.targets = req[r].targets /\ h.prior = req[r].prior
               /\ h.barred => req[r].barred /\ req[r].user # u
  <2>1. req[r] \in Request
    BY <1>1 DEF TypeOK
  <2>2. CASE req[r].user = u
    <3>1. PICK h : h = [req[r] EXCEPT !.barred = FALSE]
      OBVIOUS
    <3>2. /\ h \in Request /\ h.phase = req[r].phase /\ h.user = req[r].user
          /\ h.targets = req[r].targets /\ h.prior = req[r].prior /\ h.barred = FALSE
      BY <2>1, <3>1 DEF Request
    <3>3. req'[r] = h
      BY <2>2, <3>1 DEF Activate
    <3>4. QED
      BY <3>2, <3>3
  <2>3. CASE req[r].user # u
    BY <2>1, <2>3 DEF Activate
  <2>4. QED
    BY <2>2, <2>3
<1>3. req' \in [Requests -> Request]
  BY <1>2 DEF Activate
<1>4. TypeOK'
  BY <1>1, <1>3 DEF TypeOK
<1>5. ASSUME NEW r \in Requests PROVE HandlerOK(req[r])'
  <2>1. HandlerOK(req[r])
    BY DEF IInv
  <2>2. PICK h \in Request :
               /\ req'[r] = h /\ h.phase = req[r].phase /\ h.user = req[r].user
               /\ h.targets = req[r].targets /\ h.prior = req[r].prior
               /\ h.barred => req[r].barred /\ req[r].user # u
    BY <1>2
  <2>3. h.barred => ~Active(h.user)'
    BY <1>1, <2>1, <2>2 DEF HandlerOK, Active, TypeOK
  <2>4. QED
    BY <1>1, <2>1, <2>2, <2>3 DEF HandlerOK, PriorOK
<1>6. QED
  BY <1>4, <1>5 DEF IInv

LEMMA Inductive == IInv /\ [Next]_vars => IInv'
<1> SUFFICES ASSUME IInv, [Next]_vars PROVE IInv'
  OBVIOUS
<1>1. TypeOK /\ Evolves
  BY CredEvolves DEF IInv
<1>2. ASSUME NEW r \in Requests, Arrive(r) PROVE IInv'
  <2>1. ASSUME NEW u \in Users, SignIn(r, u) \/ DirectLogin(r, u) PROVE IInv'
    BY <1>1, <2>1, BeginStep DEF SignIn, DirectLogin, Phases, Granting
  <2>2. ASSUME NEW c \in Creds, Authorize(r, c) \/ ClaimCode(r, c) PROVE IInv'
    <3>1. cred[c].user \in Users
      BY <1>1, <2>2 DEF Authorize, ClaimCode, TypeOK, Credential
    <3>2. QED
      BY <1>1, <2>2, <3>1, BeginStep DEF Authorize, ClaimCode, Phases, Granting
  <2>3. ASSUME NEW c \in Creds, NEW n \in Creds, RefreshGrant(r, c, n) PROVE IInv'
    <3>1. cred[c].user \in Users
      BY <1>1, <2>3 DEF RefreshGrant, TypeOK, Credential
    <3>2. QED
      BY <1>1, <2>3, <3>1, BeginStep DEF RefreshGrant, Phases, Granting
  <2>4. ASSUME NEW u \in Users, NEW c \in Creds \cup {None}, LogOut(r, u, c) PROVE IInv'
    BY <1>1, <2>4, BeginStep DEF LogOut, Phases, Granting
  <2>5. QED
    BY <1>1, <1>2, <2>1, <2>2, <2>3, <2>4, DeactivateStep DEF Arrive
<1>3. ASSUME NEW r \in Requests, Serve(r) PROVE IInv'
  <2>1. ASSUME \/ EvaluateSessionGate(r) \/ CheckAuthorize(r)
               \/ CheckExchange(r) \/ CheckRefresh(r)
        PROVE  IInv'
    BY <1>1, <2>1, CheckStep
    DEF EvaluateSessionGate, CheckAuthorize, CheckExchange, CheckRefresh, Phases, Granting
  <2>2. ASSUME Respond(r) PROVE IInv'
    BY <1>1, <2>2, FinishStep DEF Respond, TypeOK
  <2>3. ASSUME NEW c \in Creds, CreateSession(r, c) \/ CreateCode(r, c) \/ IssueRefresh(r, c)
        PROVE  IInv'
    BY <1>1, <2>3, FinishStep DEF CreateSession, CreateCode, IssueRefresh, Make, TypeOK
  <2>4. ASSUME ApplyRevocation(r) PROVE IInv'
    <3>1. req[r].user \in Users
      BY <2>4 DEF ApplyRevocation, IInv, HandlerOK
    <3>2. QED
      BY <1>1, <2>4, <3>1, FinishStep DEF ApplyRevocation, TypeOK
  <2>5. ASSUME StartRevocation(r) PROVE IInv'
    <3>1. PICK S \in SUBSET Creds : S = LiveOf(req[r].user, {"refresh"})
      BY DEF LiveOf
    <3>2. QED
      BY <1>1, <2>5, <3>1, SweepStarts
  <2>6. ASSUME DeleteSessions(r) PROVE IInv'
    BY <1>1, <2>6, SessionsStep
  <2>7. ASSUME NEW S \in SUBSET Creds, StartLogoutRevocation(r, S) PROVE IInv'
    BY <1>1, <2>7, SweepStarts
  <2>8. QED
    BY <1>3, <2>1, <2>2, <2>3, <2>4, <2>5, <2>6, <2>7 DEF Serve
<1>4. ASSUME NEW r \in Requests, Abandon(r) PROVE IInv'
  BY <1>1, <1>4, FinishStep DEF Abandon, TypeOK
<1>5. CASE UNCHANGED vars
  BY <1>1, <1>5 DEF vars, IInv, TypeOK, HandlerOK, PriorOK, Active
<1>6. QED
  BY <1>2, <1>3, <1>4, <1>5, ActivateStep DEF Next

LEMMA Invariance == Spec => []IInv
BY InitInv, Inductive, PTL DEF Spec

-----------------------------------------------------------------------------
(* The theorems *)

\* The accounts, the credentials and the handlers stay well typed.
THEOREM TypeCorrect == Spec => []TypeOK
<1>1. IInv => TypeOK
  BY DEF IInv
<1>2. QED
  BY Invariance, <1>1, PTL

\* Whatever credential it presents and whatever else goes on, a request whose user has
\* been inactive ever since it came in ends without session, code and token.
THEOREM TheBarredGetNothing == Spec => BarredGetsNothing
<1> DEFINE Refused ==
      \A r \in Requests :
        /\ Respond(r) \/ \E c \in Creds :
             CreateSession(r, c) \/ CreateCode(r, c) \/ IssueRefresh(r, c)
        => ~req[r].barred
<1>1. IInv => [Refused]_vars
  BY DEF IInv, HandlerOK, Granting, Respond, CreateSession, CreateCode, IssueRefresh, Make
<1>2. Spec => [][Refused]_vars
  BY <1>1, Invariance, PTL
<1>3. QED
  BY <1>2 DEF BarredGetsNothing

\* A deactivation that succeeds has ended every session and refresh token that was live
\* when it began, whatever rotations, logouts and other deactivations it met.
THEOREM DeactivationsReach == Spec => DeactivationReaches
<1> DEFINE Reached ==
      \A r \in Requests :
        ApplyRevocation(r) => \A c \in req[r].prior : ~cred'[c].live
<1>1. IInv /\ [Next]_vars => [Reached]_vars
  <2> SUFFICES ASSUME IInv, [Next]_vars, NEW r \in Requests, ApplyRevocation(r),
                      NEW c \in req[r].prior
               PROVE  ~cred'[c].live
    OBVIOUS
  <2>1. TypeOK /\ HandlerOK(req[r]) /\ c \in Creds /\ req[r].phase = "sweeping"
    BY DEF IInv, TypeOK, Request, ApplyRevocation
  <2>2. cred[c] # None /\ (cred[c].live => c \in req[r].targets)
    BY <2>1 DEF HandlerOK, PriorOK
  <2>3. \A d \in Creds : d \in req[r].targets => ~Kill(req[r].targets)[d].live
    BY <2>1, KillRows DEF HandlerOK
  <2>4. QED
    BY <2>1, <2>2, <2>3, CredEvolves DEF ApplyRevocation, Evolves
<1>2. Spec => [][Reached]_vars
  BY <1>1, Invariance, PTL DEF Spec
<1>3. QED
  BY <1>2 DEF DeactivationReaches

-----------------------------------------------------------------------------
(***************************************************************************)
(* Tenancy.  What the helpers have read so far was held at some time       *)
(* during the request, for every Steadies: each permission in perms by     *)
(* itself, and one that lets the request pass once it has passed.          *)
(***************************************************************************)

\* What every endpoint asks for: nothing that the matrix would not let pass, and of a
\* target of his own no place but his own; system permissions by checkPermission only.
SoundlyAsked(ask) ==
  /\ ask \in Asked
  /\ ask.required \subseteq Gate(ask.label)
  /\ ask.target = "home" => ask.reach \subseteq {"home"}
  /\ Guarded(ask) # {} => ask.by = "org"

\* The first half of OnlyTheEntitled.
Entitled(q) ==
  \E p \in Gate(q.ask.label) : WasHeldBy(q, p) /\ (p \in Platforms \/ Reach(q) \subseteq {"home"})

QueryInv ==
  query.stage # "idle" =>
    /\ SoundlyAsked(query.ask)
    /\ (linked => query.everLinked) /\ (carried => query.everCarried) /\ (own => query.everOwn)
    /\ query.role => query.everLinked
    /\ \A p \in query.perms : WasHeldBy(query, p)
    /\ query.again => query.ask.by = "org" /\ Entitled(query)

TenancyInv == TenancyTypeOK /\ QueryInv

\* Lists and apps permit what CheckPermission permits: one that is held, and is the
\* platform's or reaches no further than home.
LEMMA PermittedIsEntitled ==
  ASSUME NEW q \in Query, SoundlyAsked(q.ask), \A p \in q.perms : WasHeldBy(q, p), Permitted(q)
  PROVE  Entitled(q)
<1>1. \E p \in q.perms : p \in Gate(q.ask.label) /\ (p \in Platforms \/ Reach(q) \subseteq {"home"})
  <2>1. CASE q.ask.by = "org"
    BY <2>1 DEF Permitted, CheckPermission, SoundlyAsked, Reach
  <2>2. CASE q.ask.by = "app"
    BY <2>2 DEF Permitted, CheckPermissionForApp, SoundlyAsked, Reach
  <2>3. CASE q.ask.by = "list"
    BY <2>3 DEF Permitted, ResolveListScope, SoundlyAsked, Reach
  <2>4. QED
    BY <2>1, <2>2, <2>3 DEF SoundlyAsked, Asked
<1>2. QED
  BY <1>1 DEF Entitled

-----------------------------------------------------------------------------
(* The endpoints ask soundly *)

AsksSoundly == \E ask \in Asked : SoundlyAsked(ask) /\ Ask(ask)

LEMMA PlatformAsksSoundly ==
  ASSUME NEW label \in Labels, NEW required \in SUBSET Names, required \subseteq Gate(label),
         AskPlatform(label, required)
  PROVE  AsksSoundly
<1>1. PICK p \in Places :
        Ask([NoAsked EXCEPT !.label = label, !.required = required, !.reach = {p}])
  BY DEF AskPlatform
<1>2. SoundlyAsked([NoAsked EXCEPT !.label = label, !.required = required, !.reach = {p}])
  BY DEF SoundlyAsked, NoAsked, Asked, Labels, Targets
<1>3. QED
  BY <1>1, <1>2 DEF AsksSoundly, SoundlyAsked

LEMMA OnUserAsksSoundly ==
  ASSUME NEW label \in {"users.read", "users.write"}, NEW p \in Places,
         NEW handed \in SUBSET Systems, NEW taken \in SUBSET Systems, NEW whole \in BOOLEAN,
         AskUser(label, p, handed, taken, whole)
  PROVE  AsksSoundly
<1> DEFINE ask == [NoAsked EXCEPT !.label = label, !.required = UsersManage, !.target = p,
                                  !.reach = {p}, !.handed = handed, !.taken = taken,
                                  !.whole = whole]
<1>1. Ask(ask)
  BY DEF AskUser
<1>2. SoundlyAsked(ask)
  BY DEF SoundlyAsked, NoAsked, Asked, Labels, Targets, UsersManage, Gate, Names, Platforms, Systems
<1>3. QED
  BY <1>1, <1>2 DEF AsksSoundly, SoundlyAsked

LEMMA RoleAsksSoundly ==
  ASSUME NEW handed \in SUBSET Systems, NEW taken \in SUBSET Systems, NEW whole \in BOOLEAN,
         AskRole(handed, taken, whole)
  PROVE  AsksSoundly
<1> DEFINE Of(p) == [NoAsked EXCEPT !.label = "roles.write",
                       !.required = {"platform.roles.manage"}, !.reach = {p},
                       !.handed = handed, !.taken = taken, !.whole = whole]
<1>1. PICK p \in Places : Ask(Of(p))
  BY DEF AskRole
<1>2. SoundlyAsked(Of(p))
  BY DEF SoundlyAsked, NoAsked, Asked, Labels, Targets, Gate, Names, Platforms
<1>3. QED
  BY <1>1, <1>2 DEF AsksSoundly, SoundlyAsked

\* The endpoints that change something or ask about users.
UserEndpoint ==
  \/ ListUsers \/ GetUser \/ GetUserDirectPermissions \/ CreateUser \/ UpdateUser \/ DeleteUser
  \/ AssignRole \/ RemoveRole \/ SetUserRoles \/ SetUserDirectPermissions
  \/ ResendInvitation \/ ResendActivationEmail \/ Reset2fa \/ ResetPassword

OtherEndpoint ==
  \/ ListRoles \/ GetRole \/ CreateRole \/ UpdateRole \/ DeleteRole
  \/ ListPermissions \/ GetPermission \/ CreatePermission \/ UpdatePermission
  \/ DeletePermission
  \/ ListOrgs \/ GetOrg \/ CreateOrg \/ UpdateOrg \/ DeleteOrg
  \/ ListApps \/ GetApp \/ CreateApp \/ UpdateApp \/ RotateClientSecret \/ DeleteApp
  \/ SocialSettings

LEMMA UsersAskSoundly ==
  ASSUME UserEndpoint
  PROVE  AsksSoundly
<1>1. CASE \E p \in Places, label \in {"users.read", "users.write"} :
             \E handed, taken \in SUBSET Systems, whole \in BOOLEAN :
               AskUser(label, p, handed, taken, whole)
  BY <1>1, OnUserAsksSoundly
<1>2. CASE ListUsers /\ ~\E p \in Places : OnUser("users.read", p)
  <2> DEFINE ask == [NoAsked EXCEPT !.label = "users.read", !.required = UsersManage,
                                    !.target = "everywhere", !.reach = Places]
  <2>1. Ask(ask)
    BY <1>2 DEF ListUsers
  <2>2. SoundlyAsked(ask)
    BY DEF SoundlyAsked, NoAsked, Asked, Labels, Targets, UsersManage, Gate, Names, Platforms, Systems
  <2>3. QED
    BY <2>1, <2>2 DEF AsksSoundly, SoundlyAsked
<1>3. CASE DeleteUser
  <2>1. PICK p \in Places :
          Ask([NoAsked EXCEPT !.label = "users.delete", !.required = {"platform.users.manage"},
                              !.target = p, !.reach = {p}])
    BY <1>3 DEF DeleteUser
  <2>2. SoundlyAsked([NoAsked EXCEPT !.label = "users.delete",
                                     !.required = {"platform.users.manage"},
                                     !.target = p, !.reach = {p}])
    BY DEF SoundlyAsked, NoAsked, Asked, Labels, Targets, Gate, Names, Platforms
  <2>3. QED
    BY <2>1, <2>2 DEF AsksSoundly, SoundlyAsked
<1>4. CASE \E p \in Places : OnUser("users.read", p) \/ OnUser("users.write", p)
  <2>1. {} \in SUBSET Systems /\ FALSE \in BOOLEAN
    OBVIOUS
  <2>2. QED
    BY <1>1, <1>4, <2>1 DEF OnUser
<1>5. CASE CreateUser \/ AssignRole \/ RemoveRole
  <2>1. {} \in SUBSET Systems /\ FALSE \in BOOLEAN
    OBVIOUS
  <2>2. QED
    BY <1>1, <1>5, <2>1 DEF CreateUser, AssignRole, RemoveRole
<1>6. CASE SetUserRoles \/ SetUserDirectPermissions
  <2>1. PICK p \in Places, handed \in SUBSET Systems, taken \in SUBSET Systems :
          AskUser("users.write", p, handed, taken \ handed, TRUE)
    BY <1>6 DEF SetUserRoles, SetUserDirectPermissions, ReplaceOfUser
  <2>2. taken \ handed \in SUBSET Systems /\ TRUE \in BOOLEAN
    OBVIOUS
  <2>3. QED
    BY <1>1, <2>1, <2>2
<1>7. QED
  BY <1>2, <1>3, <1>4, <1>5, <1>6
  DEF UserEndpoint, ListUsers, GetUser, GetUserDirectPermissions, UpdateUser, ResendInvitation,
      ResendActivationEmail, Reset2fa, ResetPassword

LEMMA OthersAskSoundly ==
  ASSUME OtherEndpoint
  PROVE  AsksSoundly
<1>0. Gate("orgs.read") = OrgsRead
  BY DEF Gate, OrgsRead
<1>1. CASE ListRoles
  <2> DEFINE Of(t) == [NoAsked EXCEPT !.label = "roles.read", !.by = "app",
                         !.required = RolesRead, !.target = t,
                         !.reach = Places \cap (IF t = "everywhere" THEN Places ELSE {t})]
  <2>1. PICK t \in Places \cup {"everywhere"} : Ask(Of(t))
    BY <1>1 DEF ListRoles
  <2>2. SoundlyAsked(Of(t))
    BY DEF SoundlyAsked, Guarded, NoAsked, Asked, Labels, Targets, RolesRead, Gate, Names, Platforms, Systems
  <2>3. QED
    BY <2>1, <2>2 DEF AsksSoundly, SoundlyAsked
<1>2. CASE GetRole
  <2> DEFINE Of(p) == [NoAsked EXCEPT !.label = "roles.read", !.by = "app",
                         !.required = RolesRead, !.target = p, !.reach = {p}]
  <2>1. PICK p \in Places : Ask(Of(p))
    BY <1>2 DEF GetRole
  <2>2. SoundlyAsked(Of(p))
    BY DEF SoundlyAsked, Guarded, NoAsked, Asked, Labels, Targets, RolesRead, Gate, Names, Platforms, Systems
  <2>3. QED
    BY <2>1, <2>2 DEF AsksSoundly, SoundlyAsked
<1>3. CASE ListOrgs
  <2> DEFINE ask == [NoAsked EXCEPT !.label = "orgs.read", !.by = "list", !.required = OrgsRead]
  <2>1. Ask(ask)
    BY <1>3 DEF ListOrgs
  <2>2. SoundlyAsked(ask)
    BY <1>0 DEF SoundlyAsked, Guarded, NoAsked, Asked, Labels, Targets, OrgsRead, Names, Platforms, Systems, Places
  <2>3. QED
    BY <2>1, <2>2 DEF AsksSoundly, SoundlyAsked
<1>4. CASE GetOrg
  <2> DEFINE Of(p) == [NoAsked EXCEPT !.label = "orgs.read", !.required = OrgsRead,
                         !.target = p, !.reach = {p}]
  <2>1. PICK p \in Places : Ask(Of(p))
    BY <1>4 DEF GetOrg
  <2>2. SoundlyAsked(Of(p))
    BY <1>0 DEF SoundlyAsked, NoAsked, Asked, Labels, Targets, OrgsRead, Names, Platforms, Systems, Places
  <2>3. QED
    BY <2>1, <2>2 DEF AsksSoundly, SoundlyAsked
<1>5. CASE \E label \in {"apps.read", "apps.write", "orgs.write", "roles.write",
                         "permissions.read", "permissions.write"} : AskPlatform(label, Gate(label))
  <2>1. PICK label \in {"apps.read", "apps.write", "orgs.write", "roles.write",
                        "permissions.read", "permissions.write"} : AskPlatform(label, Gate(label))
    BY <1>5
  <2>2. Gate(label) \in SUBSET Names
    BY DEF Gate, Names, Platforms
  <2>3. label \in Labels
    BY DEF Labels
  <2>4. QED
    BY <2>1, <2>2, <2>3, PlatformAsksSoundly
<1>6. CASE \/ ListPermissions \/ GetPermission \/ CreatePermission \/ UpdatePermission
           \/ DeletePermission \/ CreateOrg \/ UpdateOrg \/ DeleteOrg
           \/ ListApps \/ GetApp \/ CreateApp \/ UpdateApp \/ RotateClientSecret \/ DeleteApp
           \/ SocialSettings
  <2>1. /\ Gate("apps.read") = AppsRead /\ Gate("apps.write") = {"platform.apps.manage"}
        /\ Gate("orgs.write") = {"platform.orgs.manage"}
        /\ Gate("permissions.read") = PermissionsRead
        /\ Gate("permissions.write") = {"platform.permissions.manage"}
    BY DEF Gate, AppsRead, PermissionsRead
  <2>2. \E label \in {"apps.read", "apps.write", "orgs.write", "roles.write",
                      "permissions.read", "permissions.write"} : AskPlatform(label, Gate(label))
    BY <1>6, <2>1
    DEF ListPermissions, GetPermission, CreatePermission, UpdatePermission, DeletePermission, CreateOrg, UpdateOrg, DeleteOrg, ListApps, GetApp,
        CreateApp, UpdateApp, RotateClientSecret, DeleteApp, SocialSettings
  <2>3. QED
    BY <1>5, <2>2
<1>7. CASE CreateRole \/ UpdateRole \/ DeleteRole
  <2>1. /\ {} \in SUBSET Systems /\ {TRUE, FALSE} \subseteq BOOLEAN
        /\ \A A, B \in SUBSET Systems : A \ B \in SUBSET Systems
    OBVIOUS
  <2>2. \E handed, taken \in SUBSET Systems, whole \in BOOLEAN : AskRole(handed, taken, whole)
    BY <1>7, <2>1 DEF CreateRole, UpdateRole, DeleteRole
  <2>3. QED
    BY <2>2, RoleAsksSoundly
<1>8. QED
  BY <1>1, <1>2, <1>3, <1>4, <1>6, <1>7 DEF OtherEndpoint

-----------------------------------------------------------------------------
(* The steps *)

LEMMA TenancyInitInv == TenancyInit => TenancyInv
<1> SUFFICES ASSUME TenancyInit PROVE TenancyInv
  OBVIOUS
<1>1. NoAsked \in Asked
  BY DEF NoAsked, Asked, Labels, Targets
<1>2. query \in Query /\ query.stage = "idle"
  BY <1>1 DEF TenancyInit, NoQuery, Query, AskStages
<1>3. QED
  BY <1>2 DEF TenancyInit, TenancyInv, TenancyTypeOK, QueryInv

LEMMA AskingKeepsInv ==
  ASSUME TenancyInv, AsksSoundly
  PROVE  TenancyInv'
<1>1. PICK ask \in Asked : SoundlyAsked(ask) /\ Ask(ask)
  BY DEF AsksSoundly
<1>2. /\ query' = [NoQuery EXCEPT !.ask = ask, !.stage = "links", !.everLinked = linked,
                                  !.everCarried = carried, !.everOwn = own]
      /\ UNCHANGED <<contested, steady, linked, carried, own>>
  BY <1>1 DEF Ask
<1>3. query' \in Query
  BY <1>2 DEF TenancyInv, TenancyTypeOK, NoQuery, Query, AskStages
<1>4. /\ query'.ask = ask /\ query'.perms = {} /\ ~query'.role /\ ~query'.again
      /\ query'.everLinked = linked /\ query'.everCarried = carried /\ query'.everOwn = own
  BY <1>2 DEF NoQuery
<1>5. QED
  BY <1>1, <1>2, <1>3, <1>4 DEF TenancyInv, TenancyTypeOK, QueryInv

\* A request that has come in goes on to q, which knows no less than before.
Advances(q) ==
  /\ query.stage # "idle"
  /\ q \in Query /\ q.ask = query.ask
  /\ q.everLinked = query.everLinked /\ q.everCarried = query.everCarried
  /\ q.everOwn = query.everOwn

LEMMA ReadingKeepsInv ==
  ASSUME TenancyInv,
         ReadRoleLinks \/ ReadRoleGrants \/ ReadOwnPermissions \/ ReadAgain
  PROVE  TenancyInv'
<1> USE DEF TenancyInv, TenancyTypeOK
<1>1. UNCHANGED <<contested, steady, linked, carried, own>> /\ query.stage # "idle"
  BY DEF ReadRoleLinks, ReadRoleGrants, ReadOwnPermissions, ReadAgain, Go
<1>2. \A p : WasHeldBy(query, p) /\ Advances(query') => WasHeldBy(query, p)'
  BY <1>1 DEF WasHeldBy, Advances
<1>3. Entitled(query) /\ query.ask.by = "org" /\ Advances(query') => Entitled(query)'
  BY <1>1, <1>2 DEF Entitled, Reach, Advances
<1>4. CASE ReadRoleLinks
  <2>1. query' = [query EXCEPT !.stage = "grants", !.role = linked]
    BY <1>4 DEF ReadRoleLinks, Go
  <2>2. Advances(query')
    BY <1>1, <2>1 DEF Advances, Query, AskStages
  <2>3. /\ query'.role => query'.everLinked
        /\ query'.perms = query.perms /\ query'.again = query.again
    BY <1>1, <2>1 DEF QueryInv, Query
  <2>4. QED
    BY <1>1, <1>2, <1>3, <2>2, <2>3 DEF QueryInv, Advances
<1>5. CASE ReadRoleGrants
  <2>1. query' = [query EXCEPT !.stage = "direct",
                               !.perms = IF query.role /\ carried THEN {contested} ELSE {}]
    BY <1>5 DEF ReadRoleGrants, Go
  <2>2. Advances(query')
    BY <1>1, <2>1 DEF Advances, Query, AskStages
  <2>3. \A p \in query'.perms : WasHeldBy(query, p)
    BY <1>1, <2>1 DEF QueryInv, Query, WasHeldBy
  <2>4. query'.role = query.role /\ query'.again = query.again
    BY <2>1 DEF Query
  <2>5. QED
    BY <1>1, <1>2, <1>3, <2>2, <2>3, <2>4 DEF QueryInv, Advances
<1>6. CASE ReadOwnPermissions
  <2>1. query' = [query EXCEPT !.stage = "decide",
                               !.perms = @ \cup steady \cup IF own THEN {contested} ELSE {}]
    BY <1>6 DEF ReadOwnPermissions, Go
  <2>2. Advances(query')
    BY <1>1, <2>1, SteadiesAssumption DEF Advances, Query, AskStages
  <2>3. \A p \in query'.perms : WasHeldBy(query, p)
    BY <1>1, <2>1 DEF QueryInv, Query, WasHeldBy
  <2>4. query'.role = query.role /\ query'.again = query.again
    BY <2>1 DEF Query
  <2>5. QED
    BY <1>1, <1>2, <1>3, <2>2, <2>3, <2>4 DEF QueryInv, Advances
<1>7. CASE ReadAgain
  <2>1. /\ query' = [query EXCEPT !.stage = "links", !.again = TRUE, !.role = FALSE, !.perms = {}]
        /\ Guarded(query.ask) # {} /\ Permitted(query)
    BY <1>7 DEF ReadAgain, Go
  <2>2. Advances(query')
    BY <1>1, <2>1 DEF Advances, Query, AskStages
  <2>3. Entitled(query) /\ query.ask.by = "org"
    BY <1>1, <2>1, PermittedIsEntitled DEF QueryInv, SoundlyAsked
  <2>4. ~query'.role /\ query'.perms = {}
    BY <2>1 DEF Query
  <2>5. QED
    BY <1>1, <1>3, <2>2, <2>3, <2>4 DEF QueryInv, Advances
<1>8. QED
  BY <1>4, <1>5, <1>6, <1>7

LEMMA EndingKeepsInv ==
  ASSUME TenancyInv, Comply \/ Refuse
  PROVE  TenancyInv'
<1>1. UNCHANGED <<contested, steady, linked, carried, own>> /\ query' = NoQuery
  BY DEF Comply, Refuse, Go
<1>2. NoAsked \in Asked
  BY DEF NoAsked, Asked, Labels, Targets
<1>3. query' \in Query /\ query'.stage = "idle"
  BY <1>1, <1>2 DEF NoQuery, Query, AskStages
<1>4. QED
  BY <1>1, <1>3 DEF TenancyInv, TenancyTypeOK, QueryInv

\* What was held stays held in retrospect.
LEMMA GivingKeepsInv ==
  ASSUME TenancyInv, GiveOrTake
  PROVE  TenancyInv'
<1> USE DEF TenancyInv, TenancyTypeOK
<1>1. UNCHANGED <<contested, steady>> /\ {linked', carried', own'} \subseteq BOOLEAN
  BY DEF GiveOrTake
<1>2. CASE query.stage = "idle"
  BY <1>1, <1>2 DEF GiveOrTake, QueryInv
<1>3. CASE query.stage # "idle"
  <2>1. query' = [query EXCEPT !.everLinked = @ \/ linked', !.everCarried = @ \/ carried',
                               !.everOwn = @ \/ own']
    BY <1>3 DEF GiveOrTake
  <2>2. /\ query' \in Query /\ query'.ask = query.ask /\ query'.perms = query.perms
        /\ query'.role = query.role /\ query'.again = query.again
    BY <1>1, <2>1 DEF Query
  <2>3. /\ query'.everLinked = (query.everLinked \/ linked')
        /\ query'.everCarried = (query.everCarried \/ carried')
        /\ query'.everOwn = (query.everOwn \/ own')
    BY <2>1 DEF Query
  <2>4. \A p : WasHeldBy(query, p) => WasHeldBy(query, p)'
    BY <1>1, <2>3 DEF WasHeldBy
  <2>5. Entitled(query) /\ query.ask.by = "org" => Entitled(query)'
    BY <2>2, <2>4 DEF Entitled, Reach
  <2>6. QED
    BY <1>1, <1>3, <2>2, <2>3, <2>4, <2>5 DEF QueryInv
<1>4. QED
  BY <1>2, <1>3

LEMMA TenancyNextInv == TenancyInv /\ [TenancyNext]_tenancyVars => TenancyInv'
<1> SUFFICES ASSUME TenancyInv, [TenancyNext]_tenancyVars PROVE TenancyInv'
  OBVIOUS
<1>1. CASE UserEndpoint
  BY <1>1, UsersAskSoundly, AskingKeepsInv
<1>2. CASE OtherEndpoint
  BY <1>2, OthersAskSoundly, AskingKeepsInv
<1>3. CASE ReadRoleLinks \/ ReadRoleGrants \/ ReadOwnPermissions \/ ReadAgain
  BY <1>3, ReadingKeepsInv
<1>4. CASE Comply \/ Refuse
  BY <1>4, EndingKeepsInv
<1>5. CASE GiveOrTake
  BY <1>5, GivingKeepsInv
<1>6. CASE UNCHANGED tenancyVars
  BY <1>6 DEF TenancyInv, TenancyTypeOK, QueryInv, tenancyVars, Entitled, WasHeldBy
<1>7. QED
  BY <1>1, <1>2, <1>3, <1>4, <1>5, <1>6 DEF TenancyNext, UserEndpoint, OtherEndpoint

\* Each variable of the model of the admin API's checks has its type.
THEOREM TenancyTypeCorrect == TenancySpec => []TenancyTypeOK
<1>1. TenancyInv => TenancyTypeOK
  BY DEF TenancyInv
<1>2. QED
  BY TenancyInitInv, TenancyNextInv, <1>1, PTL DEF TenancySpec

\* However rights change while requests run, nothing is done that no permission the
\* caller held during his request allows (checkPermission), and of system permissions he
\* hands users, and takes from them one role at a time, those only that he was entrusted
\* with (assertCallerCanGrantSystemPerms).
THEOREM NothingBeyondRights == TenancySpec => OnlyTheEntitled
<1> DEFINE Rightly ==
      /\ Entitled(query)
      /\ query.ask.label # "roles.write" =>
           /\ \A p \in query.ask.handed : Entrusted(query, p)
           /\ query.ask.whole \/ \A p \in query.ask.taken : Entrusted(query, p)
<1>1. TenancyInv /\ [TenancyNext]_tenancyVars => [Comply => Rightly]_tenancyVars
  <2> SUFFICES ASSUME TenancyInv, Comply PROVE Rightly
    OBVIOUS
  <2>1. /\ query \in Query /\ SoundlyAsked(query.ask)
        /\ \A p \in query.perms : WasHeldBy(query, p)
        /\ query.again => Entitled(query)
    BY DEF Comply, Go, TenancyInv, TenancyTypeOK, QueryInv
  <2>2. Entitled(query) /\ \A p \in Guarded(query.ask) : Entrusted(query, p)
    <3>1. CASE query.again
      BY <2>1, <3>1 DEF Comply, AssertCallerCanGrantSystemPerms, Entrusted
    <3>2. CASE ~query.again
      <4>1. Permitted(query) /\ Guarded(query.ask) = {}
        BY <3>2 DEF Comply
      <4>2. QED
        BY <2>1, <4>1, PermittedIsEntitled
    <3>3. QED
      BY <3>1, <3>2
  <2>3. QED
    BY <2>2 DEF Guarded
<1>2. QED
  BY TenancyInitInv, TenancyNextInv, <1>1, PTL DEF TenancySpec, OnlyTheEntitled, Entitled

-----------------------------------------------------------------------------
(***************************************************************************)
(* Deployment.  From the sync on, what a service has saved is what the run *)
(* has worked out, so that every deploy made since then brings the same: a *)
(* run that is not behind its own waits for one of these.  And the halves  *)
(* of the pair are unequal only between two writes, or when a run has      *)
(* stopped there.                                                          *)
(***************************************************************************)

\* The two halves of a pair, as far as both are there.
Matches(env) ==
  env["RSA_PRIVATE_KEY"] = 0 \/ env["RSA_PUBLIC_KEY"] = 0
    \/ env["RSA_PRIVATE_KEY"] = env["RSA_PUBLIC_KEY"]

StoredPair ==
  /\ ~split /\ run.phase # "public" => Matches(github)
  /\ run.phase = "public" =>
       /\ run.made["RSA_PRIVATE_KEY"] # 0
       /\ github["RSA_PRIVATE_KEY"] \in {0, run.made["RSA_PRIVATE_KEY"]}

RunPair ==
  /\ run.phase \in {"none", "keys"} => run.made = NoEnv
  /\ run.phase # "public" => run.made["RSA_PUBLIC_KEY"] = run.made["RSA_PRIVATE_KEY"]
  /\ ~split /\ run.made["RSA_PRIVATE_KEY"] = 0 => Matches(run.exposed)

BeforeSync == {"none", "keys", "public", "secret", "database", "provision", "check", "sync"}

Complete(env) == \A n \in Secrets : env[n] # 0

\* The values are complete, and saved for s.
Synced(s) ==
  /\ envVars[s] = SecretValues
  /\ Complete(SecretValues)

\* The run has asked for a deploy of s.
Triggered(s) ==
  run.phase \in {"latest_admin", "wait", "seed", "vibecast"}
                  \cup (IF s = "admin" THEN {} ELSE {"latest", "trigger_admin"})

\* That deploy has been made, so that the newest of s is that one or a later one.
Fresh(s) ==
  /\ building[s] \in {NoEnv, envVars[s]}
  /\ building[s] = NoEnv /\ last[s] = "live" => live[s] = envVars[s]

\* The run waits for a deploy of what is saved.
Awaited(s) ==
  /\ run.deploy[s] = "building" => building[s] = envVars[s]
  /\ run.deploy[s] = "live" => live[s] = envVars[s]

DeploysOf(s) ==
  /\ run.deploy[s] # "none" \/ s \in run.behind => Triggered(s)
  /\ Triggered(s) => Fresh(s) \/ (s \in run.behind /\ queued[s])
  /\ Awaited(s) \/ s \in run.behind

RunDeploys ==
  /\ run.phase = "sync" => Complete(SecretValues)
  /\ run.phase \notin BeforeSync => Synced("auth-server")
  /\ run.phase \notin BeforeSync \cup {"sync_admin"} => Synced("admin")
  /\ \A s \in Services : DeploysOf(s)
  /\ run.phase \in {"seed", "vibecast"} => \A s \in Services : run.deploy[s] = "live"

DeploymentInv == DeploymentTypeOK /\ StoredPair /\ RunPair /\ RunDeploys

LEMMA NoEnvType == NoEnv \in Env
BY DeploymentAssumption DEF NoEnv, Env

LEMMA DeploymentInitInv == DeploymentInit => DeploymentInv
<1> SUFFICES ASSUME DeploymentInit PROVE DeploymentInv
  OBVIOUS
<1>1. DeploymentTypeOK
  <2>1. NoRun \in Run
    BY NoEnvType DEF NoRun, Run, RunPhases
  <2>5. last \in [Services -> {"none", "live", "failed"}]
    BY DEF DeploymentInit
  <2>2. minted \in 0 .. MaxMinted
    BY DeploymentAssumption DEF DeploymentInit
  <2>3. project \in BOOLEAN /\ split \in BOOLEAN
    BY DEF DeploymentInit
  <2>4. QED
    BY <2>1, <2>2, <2>3, <2>5, NoEnvType DEF DeploymentInit, DeploymentTypeOK
<1>2. StoredPair /\ RunPair
  BY DEF DeploymentInit, StoredPair, RunPair, NoRun, NoEnv, Matches, Secrets
<1>3. RunDeploys
  BY DEF DeploymentInit, RunDeploys, DeploysOf, Triggered, Awaited, NoRun, BeforeSync
<1>4. QED
  BY <1>1, <1>2, <1>3 DEF DeploymentInv

-----------------------------------------------------------------------------
(* What the steps that make a secret do to the run *)

Recorded(phase, n, generation) == [run EXCEPT !.phase = phase, !.made[n] = generation]

LEMMA RecordedRun ==
  ASSUME run \in Run, NEW phase \in RunPhases, NEW n \in Secrets,
         NEW generation \in 0 .. MaxMinted + 1
  PROVE  /\ Recorded(phase, n, generation) \in Run
         /\ Recorded(phase, n, generation).phase = phase
         /\ Recorded(phase, n, generation).exposed = run.exposed
         /\ Recorded(phase, n, generation).deploy = run.deploy
         /\ Recorded(phase, n, generation).behind = run.behind
         /\ Recorded(phase, n, generation).made = [run.made EXCEPT ![n] = generation]
<1>1. run.made \in Env /\ [run.made EXCEPT ![n] = generation] \in Env
  BY DEF Run, Env
<1>2. Recorded(phase, n, generation) =
        [run EXCEPT !.phase = phase, !.made = [run.made EXCEPT ![n] = generation]]
  BY DEF Recorded, Run
<1>3. QED
  BY <1>1, <1>2 DEF Run

LEMMA MadeTypes ==
  /\ {"public", "database", "check"} \subseteq RunPhases
  /\ {"RSA_PRIVATE_KEY", "BETTER_AUTH_SECRET", "DATABASE_URL"} \subseteq Secrets
  /\ 1 .. MaxMinted \subseteq 0 .. MaxMinted + 1 /\ MaxMinted + 1 \in 0 .. MaxMinted + 1
BY DeploymentAssumption DEF RunPhases, Secrets

-----------------------------------------------------------------------------
(* Types *)

LEMMA TriggeredRun ==
  ASSUME run \in Run, NEW s \in Services, TriggerDeploy(s)
  PROVE  /\ run' \in Run
         /\ run'.deploy[s] \in {run.deploy[s], "building"}
         /\ \A z \in Services : z # s => /\ run'.deploy[z] = run.deploy[z]
                                       /\ (z \in run'.behind <=> z \in run.behind)
<1> USE DEF Run
<1>0. {TriggeredPhase(s), LatestPhase(s)} \subseteq RunPhases
  BY DEF TriggeredPhase, LatestPhase, RunPhases
<1>1. CASE run' = [run EXCEPT !.phase = TriggeredPhase(s), !.deploy[s] = "building"]
  BY <1>0, <1>1
<1>2. CASE run' = [run EXCEPT !.phase = LatestPhase(s)]
  BY <1>0, <1>2
<1>3. CASE run' = [run EXCEPT !.phase = LatestPhase(s), !.behind = @ \cup {s}]
  BY <1>0, <1>3
<1>4. QED
  BY <1>1, <1>2, <1>3 DEF TriggerDeploy, To

LEMMA DeploymentNextType ==
  ASSUME DeploymentTypeOK, DeploymentNext
  PROVE  DeploymentTypeOK'
<1> USE NoEnvType, DeploymentAssumption DEF DeploymentTypeOK, renderVars
<1>0. NoRun \in Run
  BY DEF NoRun, Run, RunPhases
<1>1. CASE StartRun
  BY <1>0, <1>1 DEF StartRun, Run, RunPhases
<1>2. CASE StopRun \/ CompleteRun
  BY <1>0, <1>2 DEF StopRun, CompleteRun
<1>3. CASE EnsureKeys
  <2>1. CASE UNCHANGED minted
    BY <1>3, <2>1 DEF EnsureKeys, To, Run, RunPhases
  <2>2. CASE minted' # minted
    <3>1. minted' \in 1 .. MaxMinted
      BY <1>3, <2>2 DEF EnsureKeys
    <3>2. /\ github' = [github EXCEPT !["RSA_PRIVATE_KEY"] = minted']
          /\ run' = Recorded("public", "RSA_PRIVATE_KEY", minted')
      BY <1>3, <2>2 DEF EnsureKeys, Recorded
    <3>3. github' \in Env /\ run' \in Run
      BY <3>1, <3>2, MadeTypes, RecordedRun DEF Env
    <3>4. QED
      BY <1>3, <3>1, <3>3 DEF EnsureKeys
  <2>3. QED
    BY <2>1, <2>2
<1>4. CASE StorePublicKey
  BY <1>4 DEF StorePublicKey, Run, RunPhases, Env, Secrets
<1>5. CASE EnsureAuthSecret
  <2>1. CASE UNCHANGED minted
    BY <1>5, <2>1 DEF EnsureAuthSecret, To, Run, RunPhases
  <2>2. CASE minted' # minted
    <3>1. minted' \in 1 .. MaxMinted
      BY <1>5, <2>2 DEF EnsureAuthSecret
    <3>2. /\ github' = [github EXCEPT !["BETTER_AUTH_SECRET"] = minted']
          /\ run' = Recorded("database", "BETTER_AUTH_SECRET", minted')
      BY <1>5, <2>2 DEF EnsureAuthSecret, Recorded
    <3>3. github' \in Env /\ run' \in Run
      BY <3>1, <3>2, MadeTypes, RecordedRun DEF Env
    <3>4. QED
      BY <1>5, <3>1, <3>3 DEF EnsureAuthSecret
  <2>3. QED
    BY <2>1, <2>2
<1>6. CASE CheckDatabaseUrl \/ CheckValues \/ WaitForDeploys \/ SeedPlatform
  BY <1>6 DEF CheckDatabaseUrl, CheckValues, WaitForDeploys, SeedPlatform, To, Run, RunPhases
<1>7. CASE CreateProject
  BY <1>7 DEF CreateProject
<1>8. CASE StoreDatabaseUrl
  <2>1. /\ github' = [github EXCEPT !["DATABASE_URL"] = MaxMinted + 1]
        /\ run' = Recorded("check", "DATABASE_URL", MaxMinted + 1)
    BY <1>8 DEF StoreDatabaseUrl, Recorded
  <2>2. github' \in Env /\ run' \in Run
    BY <2>1, MadeTypes, RecordedRun DEF Env
  <2>3. QED
    BY <1>8, <2>2 DEF StoreDatabaseUrl
<1>9. ASSUME NEW s \in Services, SyncManagedEnvVars(s) PROVE DeploymentTypeOK'
  <2>1. SecretValues \in Env
    BY DEF SecretValues, Env, Run
  <2>2. QED
    BY <1>9, <2>1 DEF SyncManagedEnvVars, To, Run, RunPhases
<1>10. ASSUME NEW s \in Services, TriggerDeploy(s) \/ LatestDeploy(s) PROVE DeploymentTypeOK'
  <2>1. building' \in [Services -> Env] /\ queued' \in [Services -> BOOLEAN]
    BY <1>10 DEF TriggerDeploy, LatestDeploy, NewDeploy
  <2>2. /\ {TriggeredPhase(s), LatestPhase(s)} \subseteq RunPhases
        /\ last[s] \in {"none", "live", "failed"}
    BY DEF TriggeredPhase, LatestPhase, RunPhases
  <2>3. run' \in Run
    <3>1. CASE TriggerDeploy(s)
      BY <3>1, TriggeredRun
    <3>2. CASE LatestDeploy(s)
      BY <2>2, <3>2 DEF LatestDeploy, Run
    <3>3. QED
      BY <1>10, <3>1, <3>2
  <2>4. QED
    BY <1>10, <2>1, <2>3 DEF TriggerDeploy, LatestDeploy
<1>11. ASSUME NEW s \in Services, DeployGoesLive(s) \/ DeployFails(s) \/ AutoDeploy(s)
       PROVE  DeploymentTypeOK'
  <2>1. run' \in Run
    BY <1>11 DEF DeployGoesLive, DeployFails, DeployEnds, AutoDeploy, Report, Run
  <2>2. building' \in [Services -> Env] /\ live' \in [Services -> Env]
    BY <1>11 DEF DeployGoesLive, DeployFails, DeployEnds, AutoDeploy, NewDeploy
  <2>3. last' \in [Services -> {"none", "live", "failed"}]
    BY <1>11 DEF DeployGoesLive, DeployFails, DeployEnds, AutoDeploy
  <2>4. QED
    BY <1>11, <2>1, <2>2, <2>3 DEF DeployGoesLive, DeployFails, DeployEnds, AutoDeploy
<1>12. ASSUME NEW n \in Deletable, DeleteSecret(n) PROVE DeploymentTypeOK'
  BY <1>12 DEF DeleteSecret, Env
<1>13. ASSUME NEW s \in Services, QueuedStarts(s) PROVE DeploymentTypeOK'
  BY <1>13 DEF QueuedStarts, NewDeploy
<1>14. QED
  BY <1>1, <1>2, <1>3, <1>4, <1>5, <1>6, <1>7, <1>8, <1>9, <1>10, <1>11, <1>12, <1>13
     DEF DeploymentNext

-----------------------------------------------------------------------------
(* The pair *)

\* A step that leaves the secrets alone, and of the run what it has worked with.
LEMMA PairUndisturbed ==
  ASSUME DeploymentInv, UNCHANGED <<github, split>>,
         run'.made = run.made, run'.exposed = run.exposed,
         run.phase \notin {"none", "public"}, run'.phase \notin {"none", "keys", "public"}
  PROVE  StoredPair' /\ RunPair'
BY DEF DeploymentInv, StoredPair, RunPair, Matches

LEMMA PairInv ==
  ASSUME DeploymentInv, DeploymentNext
  PROVE  StoredPair' /\ RunPair'
<1> USE DEF DeploymentInv, DeploymentTypeOK
<1>0. NoRun.phase = "none" /\ NoRun.made = NoEnv /\ Matches(NoRun.exposed)
      /\ NoEnv["RSA_PUBLIC_KEY"] = 0 /\ NoEnv["RSA_PRIVATE_KEY"] = 0
  BY DEF NoRun, NoEnv, Matches, Secrets
<1>1. CASE StartRun
  <2>1. run'.phase = "keys" /\ run'.exposed = github /\ run'.made = NoEnv
    BY <1>1 DEF StartRun, NoRun
  <2>2. run.phase = "none" /\ UNCHANGED <<github, split>>
    BY <1>1 DEF StartRun
  <2>3. QED
    BY <1>0, <2>1, <2>2 DEF StoredPair, RunPair, Matches
<1>2. CASE StopRun \/ CompleteRun
  <2>1. run' = NoRun /\ github' = github
    BY <1>2 DEF StopRun, CompleteRun
  <2>2. ~split' => ~split /\ run.phase # "public"
    BY <1>2 DEF StopRun, CompleteRun
  <2>3. QED
    BY <1>0, <2>1, <2>2 DEF StoredPair, RunPair, Matches
<1>3. CASE EnsureKeys
  <2>1. CASE UNCHANGED minted
    <3>1. run'.phase = "secret" /\ run'.made = run.made /\ run'.exposed = run.exposed
          /\ UNCHANGED <<github, split>> /\ run.phase = "keys"
      BY <1>3, <2>1 DEF EnsureKeys, To, Run
    <3>2. QED
      BY <3>1, PairUndisturbed
  <2>2. CASE minted' # minted
    <3>1. minted' \in 1 .. MaxMinted
      BY <1>3, <2>2, DeploymentAssumption DEF EnsureKeys
    <3>2. /\ github' = [github EXCEPT !["RSA_PRIVATE_KEY"] = minted']
          /\ run' = Recorded("public", "RSA_PRIVATE_KEY", minted')
      BY <1>3, <2>2 DEF EnsureKeys, Recorded
    <3>3. run'.phase = "public" /\ run'.made = [run.made EXCEPT !["RSA_PRIVATE_KEY"] = minted']
      BY <3>1, <3>2, MadeTypes, RecordedRun, DeploymentAssumption
    <3>4. github'["RSA_PRIVATE_KEY"] = minted' /\ run'.made["RSA_PRIVATE_KEY"] = minted'
      BY <3>2, <3>3 DEF Run, Env, Secrets
    <3>5. QED
      BY <3>1, <3>3, <3>4 DEF StoredPair, RunPair
  <2>3. QED
    BY <2>1, <2>2
<1>4. CASE StorePublicKey
  <2>1. /\ github'["RSA_PUBLIC_KEY"] = run.made["RSA_PRIVATE_KEY"]
        /\ github'["RSA_PRIVATE_KEY"] = github["RSA_PRIVATE_KEY"]
    BY <1>4 DEF StorePublicKey, Env, Secrets
  <2>2. /\ run'.phase = "secret"
        /\ run'.made["RSA_PUBLIC_KEY"] = run.made["RSA_PRIVATE_KEY"]
        /\ run'.made["RSA_PRIVATE_KEY"] = run.made["RSA_PRIVATE_KEY"]
    BY <1>4 DEF StorePublicKey, Run, Env, Secrets
  <2>3. run.phase = "public"
    BY <1>4 DEF StorePublicKey
  <2>4. QED
    BY <2>1, <2>2, <2>3 DEF StoredPair, RunPair, Matches
<1>5. CASE EnsureAuthSecret
  <2>1. /\ github'["RSA_PUBLIC_KEY"] = github["RSA_PUBLIC_KEY"]
        /\ github'["RSA_PRIVATE_KEY"] = github["RSA_PRIVATE_KEY"]
    BY <1>5 DEF EnsureAuthSecret, Env, Secrets
  <2>2. /\ run'.phase = "database" /\ run'.exposed = run.exposed
        /\ run'.made["RSA_PUBLIC_KEY"] = run.made["RSA_PUBLIC_KEY"]
        /\ run'.made["RSA_PRIVATE_KEY"] = run.made["RSA_PRIVATE_KEY"]
    <3>1. CASE UNCHANGED minted
      BY <1>5, <3>1 DEF EnsureAuthSecret, To, Run
    <3>2. CASE minted' # minted
      <4>1. /\ minted' \in 0 .. MaxMinted + 1
            /\ run' = Recorded("database", "BETTER_AUTH_SECRET", minted')
        BY <1>5, <3>2, DeploymentAssumption DEF EnsureAuthSecret, Recorded
      <4>2. /\ run'.phase = "database" /\ run'.exposed = run.exposed
            /\ run'.made = [run.made EXCEPT !["BETTER_AUTH_SECRET"] = minted']
        BY <4>1, MadeTypes, RecordedRun, DeploymentAssumption
      <4>3. QED
        BY <4>2 DEF Run, Env, Secrets
    <3>3. QED
      BY <3>1, <3>2
  <2>3. run.phase = "secret" /\ split' = split
    BY <1>5 DEF EnsureAuthSecret
  <2>4. QED
    BY <2>1, <2>2, <2>3 DEF StoredPair, RunPair, Matches
<1>6. CASE CheckDatabaseUrl \/ CheckValues \/ WaitForDeploys \/ SeedPlatform
  <2>1. /\ UNCHANGED <<github, split>> /\ run'.made = run.made /\ run'.exposed = run.exposed
        /\ run.phase \notin {"none", "public"} /\ run'.phase \notin {"none", "keys", "public"}
    BY <1>6 DEF CheckDatabaseUrl, CheckValues, WaitForDeploys, SeedPlatform, To, Run
  <2>2. QED
    BY <2>1, PairUndisturbed
<1>7. CASE CreateProject
  BY <1>7 DEF CreateProject, StoredPair, RunPair
<1>8. CASE StoreDatabaseUrl
  <2>1. /\ github'["RSA_PUBLIC_KEY"] = github["RSA_PUBLIC_KEY"]
        /\ github'["RSA_PRIVATE_KEY"] = github["RSA_PRIVATE_KEY"]
    BY <1>8 DEF StoreDatabaseUrl, Env, Secrets
  <2>2. /\ run'.phase = "check" /\ run'.exposed = run.exposed
        /\ run'.made["RSA_PUBLIC_KEY"] = run.made["RSA_PUBLIC_KEY"]
        /\ run'.made["RSA_PRIVATE_KEY"] = run.made["RSA_PRIVATE_KEY"]
    BY <1>8 DEF StoreDatabaseUrl, Run, Env, Secrets
  <2>3. run.phase = "provision" /\ split' = split
    BY <1>8 DEF StoreDatabaseUrl
  <2>4. QED
    BY <2>1, <2>2, <2>3 DEF StoredPair, RunPair, Matches
<1>9. ASSUME NEW s \in Services, SyncManagedEnvVars(s) \/ TriggerDeploy(s) \/ LatestDeploy(s)
      PROVE  StoredPair' /\ RunPair'
  <2>1. /\ UNCHANGED <<github, split>> /\ run'.made = run.made /\ run'.exposed = run.exposed
        /\ run.phase \notin {"none", "public"} /\ run'.phase \notin {"none", "keys", "public"}
    BY <1>9 DEF SyncManagedEnvVars, TriggerDeploy, LatestDeploy, TriggerPhase, LatestPhase,
                TriggeredPhase, To, Run
  <2>2. QED
    BY <2>1, PairUndisturbed
<1>10. ASSUME NEW s \in Services,
              DeployGoesLive(s) \/ DeployFails(s) \/ QueuedStarts(s) \/ AutoDeploy(s)
       PROVE  StoredPair' /\ RunPair'
  <2>1. /\ UNCHANGED <<github, split>> /\ run'.made = run.made /\ run'.exposed = run.exposed
        /\ run'.phase = run.phase
    BY <1>10 DEF DeployGoesLive, DeployFails, DeployEnds, QueuedStarts, AutoDeploy, Report, Run
  <2>2. QED
    BY <2>1 DEF StoredPair, RunPair, Matches
<1>11. ASSUME NEW n \in Deletable, DeleteSecret(n) PROVE StoredPair' /\ RunPair'
  <2>1. /\ github'["RSA_PRIVATE_KEY"] \in {0, github["RSA_PRIVATE_KEY"]}
        /\ github'["RSA_PUBLIC_KEY"] \in {0, github["RSA_PUBLIC_KEY"]}
        /\ UNCHANGED <<run, split>>
    BY <1>11 DEF DeleteSecret, Env, Secrets
  <2>2. QED
    BY <2>1 DEF StoredPair, RunPair, Matches
<1>12. QED
  BY <1>1, <1>2, <1>3, <1>4, <1>5, <1>6, <1>7, <1>8, <1>9, <1>10, <1>11 DEF DeploymentNext

-----------------------------------------------------------------------------
(* The deploys *)

\* Only a trigger or Render changes what these talk of.
LEMMA DeploysUndisturbed ==
  ASSUME DeploymentInv, UNCHANGED <<envVars, renderVars>>,
         run'.deploy = run.deploy, run'.behind = run.behind,
         run'.phase \in BeforeSync \ {"sync"}, run.phase \in BeforeSync
  PROVE  RunDeploys'
BY DEF DeploymentInv, RunDeploys, DeploysOf, Triggered, Fresh, Awaited, BeforeSync, renderVars

LEMMA DeploysInv ==
  ASSUME DeploymentInv, DeploymentNext
  PROVE  RunDeploys'
<1> USE DEF DeploymentInv, DeploymentTypeOK, renderVars
<1>1. CASE StartRun \/ StopRun \/ CompleteRun
  <2>1. /\ run'.phase \in {"none", "keys"} /\ run'.deploy = [s \in Services |-> "none"]
        /\ run'.behind = {}
    <3>1. NoRun.phase = "none" /\ NoRun.deploy = [s \in Services |-> "none"] /\ NoRun.behind = {}
      BY DEF NoRun
    <3>2. run' = NoRun \/ run' = [NoRun EXCEPT !.phase = "keys", !.exposed = github]
      BY <1>1 DEF StartRun, StopRun, CompleteRun
    <3>3. QED
      BY <3>1, <3>2 DEF NoRun
  <2>2. QED
    BY <2>1 DEF RunDeploys, DeploysOf, Triggered, Awaited, BeforeSync
<1>2. CASE EnsureKeys \/ StorePublicKey \/ EnsureAuthSecret \/ CheckDatabaseUrl
           \/ CreateProject \/ StoreDatabaseUrl
  <2>1. /\ UNCHANGED <<envVars, renderVars>>
        /\ run'.deploy = run.deploy /\ run'.behind = run.behind
        /\ run'.phase \in BeforeSync \ {"sync"} /\ run.phase \in BeforeSync
    BY <1>2 DEF EnsureKeys, StorePublicKey, EnsureAuthSecret, CheckDatabaseUrl, CreateProject,
                StoreDatabaseUrl, To, Run, BeforeSync
  <2>2. QED
    BY <2>1, DeploysUndisturbed
<1>3. CASE CheckValues
  <2>1. /\ run'.phase = "sync" /\ run.phase = "check" /\ UNCHANGED <<envVars, renderVars>>
        /\ run'.deploy = run.deploy /\ run'.behind = run.behind
        /\ run'.made = run.made /\ run'.exposed = run.exposed
        /\ Complete(SecretValues)
    BY <1>3 DEF CheckValues, To, Run, Complete
  <2>2. SecretValues' = SecretValues
    BY <2>1 DEF SecretValues
  <2>3. QED
    BY <2>1, <2>2 DEF RunDeploys, DeploysOf, Triggered, Fresh, Awaited, BeforeSync, Complete
<1>4. CASE WaitForDeploys \/ SeedPlatform
  <2>1. /\ run'.phase \in {"seed", "vibecast"} /\ run.phase \in {"wait", "seed"}
        /\ UNCHANGED <<envVars, renderVars>>
        /\ run'.deploy = run.deploy /\ run'.behind = run.behind
        /\ run'.made = run.made /\ run'.exposed = run.exposed
    BY <1>4 DEF WaitForDeploys, SeedPlatform, To, Run
  <2>2. SecretValues' = SecretValues
    BY <2>1 DEF SecretValues
  <2>3. \A s \in Services : run.deploy[s] = "live"
    BY <1>4 DEF WaitForDeploys, SeedPlatform, RunDeploys
  <2>4. \A s \in Services : DeploysOf(s)'
    BY <2>1 DEF RunDeploys, DeploysOf, Triggered, Fresh, Awaited
  <2>5. QED
    BY <2>1, <2>2, <2>3, <2>4 DEF RunDeploys, BeforeSync, Synced, Complete
<1>5. ASSUME NEW s \in Services, SyncManagedEnvVars(s) PROVE RunDeploys'
  <2>1. /\ run'.phase = (IF s = "admin" THEN "trigger" ELSE "sync_admin")
        /\ run.phase = (IF s = "admin" THEN "sync_admin" ELSE "sync")
        /\ envVars' = [envVars EXCEPT ![s] = SecretValues] /\ UNCHANGED renderVars
        /\ run'.deploy = run.deploy /\ run'.behind = run.behind
        /\ run'.made = run.made /\ run'.exposed = run.exposed
    BY <1>5 DEF SyncManagedEnvVars, To, Run
  <2>2. SecretValues' = SecretValues
    BY <2>1 DEF SecretValues
  <2>3. Complete(SecretValues)
    BY <2>1 DEF RunDeploys, Synced, Complete, BeforeSync
  <2>4. \A z \in Services : DeploysOf(z)'
    <3>1. \A z \in Services : run.deploy[z] = "none" /\ z \notin run.behind
      BY <2>1 DEF RunDeploys, DeploysOf, Triggered
    <3>2. QED
      BY <2>1, <3>1 DEF DeploysOf, Triggered, Awaited
  <2>5. CASE s = "admin"
    BY <2>1, <2>2, <2>3, <2>4, <2>5 DEF RunDeploys, BeforeSync, Synced, Complete, Services
  <2>6. CASE s # "admin"
    BY <2>1, <2>2, <2>3, <2>4, <2>6 DEF RunDeploys, BeforeSync, Synced, Complete, Services
  <2>7. QED
    BY <2>5, <2>6
<1>6. ASSUME NEW s \in Services, TriggerDeploy(s) PROVE RunDeploys'
  <2>1. /\ run.phase = TriggerPhase(s) /\ run'.phase \in {LatestPhase(s), TriggeredPhase(s)}
        /\ UNCHANGED <<envVars, live, last>>
        /\ run'.made = run.made /\ run'.exposed = run.exposed
    BY <1>6 DEF TriggerDeploy, To, Run
  <2>2. SecretValues' = SecretValues
    BY <2>1 DEF SecretValues
  <2>3. envVars[s] # NoEnv
    BY <2>1 DEF RunDeploys, Synced, Complete, TriggerPhase, BeforeSync, NoEnv, Secrets, Services
  <2>4. Triggered(s)' /\ ~Triggered(s)
    BY <2>1 DEF Triggered, TriggerPhase, LatestPhase, TriggeredPhase, Services
  <2>5. run.deploy[s] = "none" /\ s \notin run.behind
    BY <2>4 DEF RunDeploys, DeploysOf
  <2>6. DeploysOf(s)'
    <3>1. CASE NewDeploy(s)
      <4>1. building'[s] = envVars[s] /\ envVars'[s] = envVars[s]
        BY <2>1, <3>1 DEF NewDeploy
      <4>2. Fresh(s)'
        BY <2>3, <4>1 DEF Fresh
      <4>3. run'.deploy[s] \in {"none", "building"}
        BY <1>6, <2>5, TriggeredRun
      <4>4. Awaited(s)'
        BY <4>1, <4>3 DEF Awaited
      <4>5. QED
        BY <2>4, <4>2, <4>4 DEF DeploysOf
    <3>2. CASE ~NewDeploy(s)
      <4>1. queued' = [queued EXCEPT ![s] = TRUE] /\ run'.behind = run.behind \cup {s}
        BY <1>6, <3>2 DEF TriggerDeploy, Run
      <4>2. queued'[s] /\ s \in run'.behind
        BY <4>1
      <4>3. QED
        BY <2>4, <4>2 DEF DeploysOf
    <3>3. QED
      BY <3>1, <3>2
  <2>7. ASSUME NEW z \in Services, z # s PROVE DeploysOf(z)'
    <3>1. /\ building'[z] = building[z] /\ queued'[z] = queued[z]
          /\ run'.deploy[z] = run.deploy[z] /\ (z \in run'.behind <=> z \in run.behind)
      <4>1. building'[z] = building[z] /\ queued'[z] = queued[z]
        BY <1>6, <2>7 DEF TriggerDeploy, NewDeploy
      <4>2. QED
        BY <1>6, <2>7, <4>1, TriggeredRun
    <3>2. Triggered(z)' <=> Triggered(z)
      BY <2>1, <2>7 DEF Triggered, TriggerPhase, LatestPhase, TriggeredPhase, Services
    <3>3. QED
      BY <2>1, <3>1, <3>2 DEF RunDeploys, DeploysOf, Fresh, Awaited
  <2>8. QED
    BY <2>1, <2>2, <2>6, <2>7
       DEF RunDeploys, BeforeSync, Synced, Complete, TriggerPhase, LatestPhase, TriggeredPhase
<1>7. ASSUME NEW s \in Services, LatestDeploy(s) PROVE RunDeploys'
  <2>1. /\ run.phase = LatestPhase(s) /\ run'.phase = TriggeredPhase(s)
        /\ UNCHANGED <<envVars, renderVars>>
        /\ run'.made = run.made /\ run'.exposed = run.exposed
        /\ run'.deploy = [run.deploy EXCEPT ![s] = IF building[s] # NoEnv THEN "building" ELSE last[s]]
        /\ run'.behind = IF queued[s] THEN run.behind ELSE run.behind \ {s}
    BY <1>7 DEF LatestDeploy, Run
  <2>2. SecretValues' = SecretValues
    BY <2>1 DEF SecretValues
  <2>3. Triggered(s)' /\ Triggered(s)
    BY <2>1 DEF Triggered, LatestPhase, TriggeredPhase, Services
  <2>4. DeploysOf(s)'
    <3>1. CASE s \in run'.behind
      <4>1. DeploysOf(s) /\ s \in run.behind /\ Triggered(s)'
        BY <2>1, <2>3, <3>1 DEF RunDeploys
      <4>2. QED
        BY <2>1, <2>3, <3>1, <4>1 DEF DeploysOf, Fresh
    <3>2. CASE s \notin run'.behind
      <4>1. Fresh(s)
        BY <2>1, <2>3, <3>2 DEF RunDeploys, DeploysOf
      <4>2. /\ run'.deploy[s] = IF building[s] # NoEnv THEN "building" ELSE last[s]
            /\ building'[s] = building[s] /\ last'[s] = last[s]
            /\ envVars'[s] = envVars[s] /\ live'[s] = live[s]
        BY <2>1 DEF Run
      <4>3. Awaited(s)' /\ Fresh(s)'
        BY <4>1, <4>2 DEF Fresh, Awaited
      <4>4. QED
        BY <2>3, <4>3 DEF DeploysOf
    <3>3. QED
      BY <3>1, <3>2
  <2>5. ASSUME NEW z \in Services, z # s PROVE DeploysOf(z)'
    <3>1. run'.deploy[z] = run.deploy[z] /\ (z \in run'.behind <=> z \in run.behind)
      BY <2>1, <2>5 DEF Run
    <3>2. Triggered(z)' <=> Triggered(z)
      BY <2>1, <2>5 DEF Triggered, LatestPhase, TriggeredPhase, Services
    <3>3. QED
      BY <2>1, <3>1, <3>2 DEF RunDeploys, DeploysOf, Fresh, Awaited
  <2>6. QED
    BY <2>1, <2>2, <2>4, <2>5
       DEF RunDeploys, BeforeSync, Synced, Complete, LatestPhase, TriggeredPhase
<1>8. ASSUME NEW s \in Services,
             DeployGoesLive(s) \/ DeployFails(s) \/ QueuedStarts(s) \/ AutoDeploy(s)
      PROVE  RunDeploys'
  <2> USE DEF DeployGoesLive, DeployFails, DeployEnds, QueuedStarts, AutoDeploy, NewDeploy
  <2>1. /\ run'.phase = run.phase /\ run'.made = run.made /\ run'.exposed = run.exposed
        /\ run'.behind = run.behind
        /\ run'.deploy \in [Services -> {"none", "building", "live", "failed"}]
        /\ \A z \in Services : z # s \/ run.deploy[z] # "building" => run'.deploy[z] = run.deploy[z]
    BY <1>8 DEF Report, Run
  <2>2. SecretValues' = SecretValues /\ envVars' = envVars
    BY <1>8, <2>1 DEF SecretValues
  <2>3. /\ \A z \in Services : z # s => /\ building'[z] = building[z] /\ live'[z] = live[z]
                                       /\ queued'[z] = queued[z] /\ last'[z] = last[z]
        /\ \A z \in Services : run.deploy[z] = "none" <=> run'.deploy[z] = "none"
    BY <1>8 DEF Report, Run
  <2>4. Triggered(s)' <=> Triggered(s)
    BY <2>1 DEF Triggered
  <2>5. DeploysOf(s)
    BY DEF RunDeploys
  <2>6. DeploysOf(s)'
    <3>1. CASE DeployGoesLive(s)
      <4>1. /\ building[s] # NoEnv /\ live'[s] = building[s] /\ building'[s] = NoEnv
            /\ queued'[s] = queued[s] /\ run'.deploy[s] # "building"
            /\ run'.deploy[s] = "live" => run.deploy[s] \in {"building", "live"}
        BY <3>1 DEF Report, Run
      <4>2. Fresh(s) => Fresh(s)' /\ live'[s] = envVars'[s]
        BY <2>2, <4>1 DEF Fresh
      <4>3. Triggered(s) /\ Awaited(s) /\ run.deploy[s] \in {"building", "live"} /\ Fresh(s)
              => Awaited(s)'
        BY <2>2, <4>1, <4>2 DEF Awaited
      <4>4. QED
        BY <2>1, <2>3, <2>4, <2>5, <4>1, <4>2, <4>3 DEF DeploysOf, Awaited
    <3>2. CASE DeployFails(s)
      <4>1. /\ live'[s] = live[s] /\ building'[s] = NoEnv /\ last'[s] = "failed"
            /\ queued'[s] = queued[s]
            /\ run'.deploy[s] # "building" /\ (run'.deploy[s] = "live" => run.deploy[s] = "live")
        BY <3>2 DEF Report, Run
      <4>2. QED
        BY <2>1, <2>2, <2>3, <2>4, <2>5, <4>1 DEF DeploysOf, Fresh, Awaited
    <3>3. CASE AutoDeploy(s) \/ QueuedStarts(s)
      <4>1. /\ live'[s] = live[s] /\ building'[s] = envVars[s] /\ last'[s] = last[s]
            /\ (run'.deploy[s] = "live" => run.deploy[s] = "live")
        BY <3>3 DEF Report, Run
      <4>2. Triggered(s) => Fresh(s)'
        <5>1. Triggered(s) => envVars[s] # NoEnv
          BY DEF RunDeploys, Synced, Complete, Triggered, BeforeSync, NoEnv, Secrets, Services
        <5>2. QED
          BY <2>2, <4>1, <5>1 DEF Fresh
      <4>3. Awaited(s) => Awaited(s)'
        BY <2>2, <4>1 DEF Awaited
      <4>4. QED
        BY <2>1, <2>3, <2>4, <2>5, <4>2, <4>3 DEF DeploysOf
    <3>4. QED
      BY <1>8, <3>1, <3>2, <3>3
  <2>7. ASSUME NEW z \in Services, z # s PROVE DeploysOf(z)'
    BY <2>1, <2>2, <2>3, <2>7 DEF RunDeploys, DeploysOf, Fresh, Awaited, Triggered
  <2>8. run.phase \in {"seed", "vibecast"} => \A z \in Services : run'.deploy[z] = "live"
    BY <2>1 DEF RunDeploys
  <2>9. QED
    BY <2>1, <2>2, <2>6, <2>7, <2>8 DEF RunDeploys, Synced, Complete
<1>9. ASSUME NEW n \in Deletable, DeleteSecret(n) PROVE RunDeploys'
  BY <1>9 DEF DeleteSecret, RunDeploys, Synced, Complete, SecretValues, DeploysOf, Triggered, Fresh,
              Awaited
<1>10. QED
  BY <1>1, <1>2, <1>3, <1>4, <1>5, <1>6, <1>7, <1>8, <1>9 DEF DeploymentNext

LEMMA DeploymentNextInv == DeploymentInv /\ [DeploymentNext]_deployVars => DeploymentInv'
<1> SUFFICES ASSUME DeploymentInv, [DeploymentNext]_deployVars PROVE DeploymentInv'
  OBVIOUS
<1>1. CASE DeploymentNext
  BY <1>1, DeploymentNextType, PairInv, DeploysInv DEF DeploymentInv
<1>2. CASE UNCHANGED deployVars
  BY <1>2 DEF deployVars, DeploymentInv, DeploymentTypeOK, StoredPair, RunPair, RunDeploys, Synced, Complete,
              SecretValues, DeploysOf, Triggered, Fresh, Awaited, Matches, renderVars
<1>3. QED
  BY <1>1, <1>2

\* Each variable of the pipeline's model has its type.
THEOREM DeploymentTypeCorrect == DeploymentSpec => []DeploymentTypeOK
<1>1. DeploymentInv => DeploymentTypeOK
  BY DEF DeploymentInv
<1>2. QED
  BY DeploymentInitInv, DeploymentNextInv, <1>1, PTL DEF DeploymentSpec

\* A run of packages/deploy-render that ends as a success has deployed what it says, but to
\* a service whose deploy it has not waited for because it was queued, and with a matching
\* pair unless a run has stopped between its halves; for any number of generations and any
\* set of secrets that operators delete.
THEOREM SuccessIsDeployed == DeploymentSpec => DeployedIsTrue
<1>1. DeploymentInv /\ [DeploymentNext]_deployVars =>
        [CompleteRun =>
           /\ \A s \in Services : live[s] = SecretValues \/ s \in run.behind
           /\ split \/ SecretValues["RSA_PRIVATE_KEY"] = SecretValues["RSA_PUBLIC_KEY"]]_deployVars
  <2> SUFFICES ASSUME DeploymentInv, CompleteRun
               PROVE  /\ \A s \in Services : live[s] = SecretValues \/ s \in run.behind
                      /\ split \/ SecretValues["RSA_PRIVATE_KEY"] = SecretValues["RSA_PUBLIC_KEY"]
    OBVIOUS
  <2>1. \A s \in Services : live[s] = SecretValues \/ s \in run.behind
    BY DEF CompleteRun, DeploymentInv, RunDeploys, DeploysOf, Awaited, Synced, BeforeSync, Services
  <2>2. ~split => SecretValues["RSA_PRIVATE_KEY"] = SecretValues["RSA_PUBLIC_KEY"]
    <3>1. Complete(SecretValues)
      BY DEF CompleteRun, DeploymentInv, RunDeploys, Synced, BeforeSync
    <3>2. SecretValues["RSA_PRIVATE_KEY"] # 0 /\ SecretValues["RSA_PUBLIC_KEY"] # 0
      BY <3>1 DEF Complete, Secrets
    <3>3. QED
      BY <3>2 DEF CompleteRun, DeploymentInv, RunPair, Matches, SecretValues, Secrets
  <2>3. QED
    BY <2>1, <2>2
<1>2. QED
  BY DeploymentInitInv, DeploymentNextInv, <1>1, PTL DEF DeploymentSpec, DeployedIsTrue

-----------------------------------------------------------------------------
(***************************************************************************)
(* Seeding.  What a script has passed stays in place, as rows are only     *)
(* added and verified accounts are never swept; and a job that has been    *)
(* alone since it started finds what it has looked up unchanged, unless    *)
(* the sweep came by.                                                      *)
(***************************************************************************)

RowNames ==
  {"app", "org", "permission", "superAdminRole", "superAdminPermission",
   "demoApp", "demoOrg", "demoPermission", "demoRole", "demoRolePermission",
   "mtApp", "mtOrg", "mtPermission", "oidcApp", "oidcRedirectUri", "oidcOrg",
   "vcApp", "vcRedirectUri", "vcOrg", "vcPermission", "vcRole", "vcRolePermission",
   "vcDefaults"}

KindOf(person) ==
  CASE person = "admin" -> "admin"
    [] person = "oidcUser" -> "member"
    [] OTHER -> "tenant"

\* Steps of scripts: everyone is seeded in one way only.
ScriptSteps ==
  [kind : {"ensure", "upsert", "settle"}, row : RowNames]
    \cup {[kind |-> KindOf(p), row |-> p] : p \in Persons}

LEMMA EachProgram ==
  /\ Platform \in Seq(ScriptSteps) /\ Len(Platform) = 6
  /\ DemoResourceServer \in Seq(ScriptSteps) /\ Len(DemoResourceServer) = 6
  /\ DemoMultitenant \in Seq(ScriptSteps) /\ Len(DemoMultitenant) = 4
  /\ E2eOidcClient \in Seq(ScriptSteps) /\ Len(E2eOidcClient) = 4
  /\ Vibecast \in Seq(ScriptSteps) /\ Len(Vibecast) = 8
<1>1. \A r \in RowNames : {Ensure(r), Upsert(r), Default(r)} \subseteq ScriptSteps
  BY DEF Ensure, Upsert, Default, ScriptSteps
<1>2. /\ Admin("admin") \in ScriptSteps /\ Member("oidcUser") \in ScriptSteps
      /\ \A p \in {"demoUser", "mtUser", "vcAdmin"} : Tenant(p) \in ScriptSteps
  BY DEF Admin, Member, Tenant, ScriptSteps, KindOf, Persons
<1>3. Platform \in Seq(ScriptSteps) /\ Len(Platform) = 6
  BY <1>1, <1>2 DEF Platform, RowNames
<1>4. DemoResourceServer \in Seq(ScriptSteps) /\ Len(DemoResourceServer) = 6
  BY <1>1, <1>2 DEF DemoResourceServer, RowNames
<1>5. DemoMultitenant \in Seq(ScriptSteps) /\ Len(DemoMultitenant) = 4
  BY <1>1, <1>2 DEF DemoMultitenant, RowNames
<1>6. E2eOidcClient \in Seq(ScriptSteps) /\ Len(E2eOidcClient) = 4
  BY <1>1, <1>2 DEF E2eOidcClient, RowNames
<1>7. Vibecast \in Seq(ScriptSteps) /\ Len(Vibecast) = 8
  BY <1>1, <1>2 DEF Vibecast, RowNames
<1>8. QED
  BY <1>3, <1>4, <1>5, <1>6, <1>7

LEMMA ScriptType ==
  ASSUME program \in Programs
  PROVE  /\ Script \in Seq(ScriptSteps)
         /\ Len(Script) \in 1 .. 20
<1>1. CASE program = "platform"
  BY <1>1, EachProgram DEF Script, ScriptOf
<1>2. CASE program = "demo"
  <2>1. Script = DemoResourceServer \o DemoMultitenant \o E2eOidcClient
    BY <1>2 DEF Script, ScriptOf
  <2> DEFINE first == DemoResourceServer \o DemoMultitenant
  <2>2. /\ first \in Seq(ScriptSteps)
        /\ Len(first) = Len(DemoResourceServer) + Len(DemoMultitenant)
    BY EachProgram, ConcatProperties, Zenon
  <2>3. Len(first) = 10
    BY <2>2, EachProgram
  <2> HIDE DEF first
  <2>4. /\ first \o E2eOidcClient \in Seq(ScriptSteps)
        /\ Len(first \o E2eOidcClient) = Len(first) + Len(E2eOidcClient)
    BY <2>2, EachProgram, ConcatProperties, Zenon
  <2> DEFINE all == first \o E2eOidcClient
  <2>5. all \in Seq(ScriptSteps) /\ Len(all) = Len(first) + Len(E2eOidcClient) /\ Script = all
    BY <2>1, <2>4 DEF first
  <2> HIDE DEF all
  <2>6. Script \in Seq(ScriptSteps) /\ Len(Script) = 14
    BY <2>3, <2>5, EachProgram
  <2>7. QED
    BY <2>6
<1>3. CASE program = "vibecast"
  BY <1>3, EachProgram DEF Script, ScriptOf
<1>4. QED
  BY <1>1, <1>2, <1>3, ProgramsAssumption

LEMMA StepFacts ==
  ASSUME program \in Programs, NEW i \in DOMAIN Script
  PROVE  /\ Script[i].kind \in {"ensure", "upsert", "settle"} \cup UserKinds
         /\ Script[i].kind \in UserKinds =>
              Script[i].row \in Persons /\ Script[i].kind = KindOf(Script[i].row)
<1>1. Script[i] \in ScriptSteps
  BY ScriptType
<1>2. CASE Script[i] \in [kind : {"ensure", "upsert", "settle"}, row : RowNames]
  BY <1>2 DEF UserKinds
<1>3. CASE Script[i] \in {[kind |-> KindOf(p), row |-> p] : p \in Persons}
  BY <1>3 DEF UserKinds, KindOf
<1>4. QED
  BY <1>1, <1>2, <1>3 DEF ScriptSteps

-----------------------------------------------------------------------------
(* The invariant *)

\* The part of Seeded that does not depend on where other jobs stand.
Passed(step) ==
  CASE step.kind = "admin" -> Profile(step.row) \in stored /\ account[step.row] = "verified"
    [] step.kind = "tenant" -> {Profile(step.row), Grant(step.row)} \subseteq stored
    [] step.kind = "member" -> Profile(step.row) \in stored
    [] OTHER -> RowKey(step.row) \in stored

Finished == \A i \in DOMAIN Script : Passed(Script[i])

\* What a job that was never disturbed knows of the rows of step s.
Alone(stage, s) ==
  /\ stage = "write" /\ s.kind = "ensure" => RowKey(s.row) \notin stored
  /\ stage = "signup" => account[s.row] = "none"
  /\ stage \in {"verify", "lookup", "profile"} => account[s.row] # "none"
  /\ stage = "verify" /\ s.kind = "admin" => Profile(s.row) \notin stored
  /\ stage = "profile" => Profile(s.row) \notin stored
  /\ stage = "grant" /\ s.kind = "admin" => Grant(s.row) \notin stored

\* What any running job knows of them.
Known(stage, s) ==
  /\ stage \notin {"find", "write"} => s.kind \in UserKinds
  /\ stage = "profile" /\ s.kind = "admin" => account[s.row] = "verified"
  /\ stage = "grant" => Profile(s.row) \in stored

AloneOK(j) == Alone(job[j].stage, StepOf(j))

KnownOK(j) ==
  /\ job[j].step \in DOMAIN Script
  /\ \A i \in 1 .. job[j].step - 1 : Passed(Script[i])
  /\ Known(job[j].stage, StepOf(j))

JobOK(j) ==
  /\ Running(j) => KnownOK(j)
  /\ Running(j) /\ ~job[j].shared /\ ~job[j].robbed => AloneOK(j)
  /\ job[j].exit = "done" => Finished
  /\ job[j].exit = "failed" => job[j].shared \/ job[j].robbed

TogetherOK ==
  \A j, k \in Jobs : j # k /\ Running(j) /\ Running(k) => job[j].shared

PersonOK(p) ==
  /\ Profile(p) \in stored /\ KindOf(p) = "admin" => account[p] = "verified"
  /\ Grant(p) \in stored => Profile(p) \in stored

SeedingInv ==
  /\ program \in Programs /\ SeedingTypeOK
  /\ \A j \in Jobs : JobOK(j)
  /\ TogetherOK
  /\ \A p \in Persons : PersonOK(p)

LEMMA SeedingInitInv == SeedingInit => SeedingInv
<1> SUFFICES ASSUME SeedingInit PROVE SeedingInv
  OBVIOUS
<1>1. SeedingTypeOK
  BY DEF SeedingInit, SeedingTypeOK, NoJob, Job, Stages
<1>2. \A j \in Jobs : job[j] = NoJob
  BY DEF SeedingInit
<1>3. QED
  BY <1>1, <1>2 DEF SeedingInit, SeedingInv, JobOK, TogetherOK, PersonOK, Running, NoJob

-----------------------------------------------------------------------------
(* What the steps have in common *)

\* Nothing is undone that a script has done.
Grows ==
  /\ stored \subseteq stored'
  /\ \A p \in Persons : account[p] = "verified" => account'[p] = "verified"
  /\ program' = program

LEMMA PassedStays ==
  ASSUME SeedingInv, Grows, NEW i \in DOMAIN Script, Passed(Script[i])
  PROVE  Passed(Script[i])'
<1>1. Script' = Script
  BY DEF Grows, Script
<1>2. Script[i].kind = "admin" => Script[i].row \in Persons
  BY StepFacts DEF SeedingInv, UserKinds
<1>3. QED
  BY <1>1, <1>2 DEF Passed, Grows

LEMMA KnownStays ==
  ASSUME SeedingInv, Grows, NEW k \in Jobs, KnownOK(k),
         job'[k].step = job[k].step, job'[k].stage = job[k].stage
  PROVE  KnownOK(k)'
<1>1. Script' = Script /\ StepOf(k)' = StepOf(k)
  BY DEF Grows, Script, StepOf
<1>2. job[k].step \in DOMAIN Script /\ DOMAIN Script = 1 .. Len(Script) /\ Len(Script) \in Nat
  BY ScriptType DEF KnownOK, SeedingInv
<1>3. \A i \in 1 .. job[k].step - 1 : i \in DOMAIN Script /\ Passed(Script[i])
  BY <1>2 DEF KnownOK
<1>4. \A i \in 1 .. job'[k].step - 1 : Passed(Script[i])'
  BY <1>3, PassedStays
<1>5. StepOf(k).kind = "admin" => StepOf(k).row \in Persons
  BY <1>2, StepFacts DEF SeedingInv, StepOf, UserKinds
<1>6. QED
  BY <1>1, <1>2, <1>4, <1>5 DEF KnownOK, Known, Grows

LEMMA FinishedStays ==
  ASSUME SeedingInv, Grows, Finished
  PROVE  Finished'
<1>1. Script' = Script
  BY DEF Grows, Script
<1>2. \A i \in DOMAIN Script : Passed(Script[i])'
  BY PassedStays DEF Finished
<1>3. QED
  BY <1>1, <1>2 DEF Finished

LEMMA DoneStays ==
  ASSUME SeedingInv, Grows, NEW k \in Jobs, job'[k].exit = job[k].exit
  PROVE  job'[k].exit = "done" => Finished'
BY FinishedStays DEF SeedingInv, JobOK

\* A step of one job says nothing new of the others: those that run were told.
LEMMA OthersUndisturbed ==
  ASSUME SeedingInv, Grows, NEW j \in Jobs, Running(j),
         NEW k \in Jobs, k # j, job'[k] = job[k]
  PROVE  JobOK(k)'
<1>1. Running(k)' = Running(k)
  BY DEF Running
<1>2. Running(k) => KnownOK(k)'
  BY KnownStays DEF SeedingInv, JobOK
<1>3. Running(k) => job'[k].shared
  BY DEF SeedingInv, TogetherOK
<1>4. QED
  BY <1>1, <1>2, <1>3, DoneStays DEF JobOK, SeedingInv

\* A job goes on, or ends.
LEMMA TogetherStays ==
  ASSUME SeedingInv, NEW j \in Jobs, Running(j), NEW q \in Job,
         job' = [job EXCEPT ![j] = q], q.stage # "idle" => q.shared = job[j].shared
  PROVE  TogetherOK'
BY DEF SeedingInv, SeedingTypeOK, TogetherOK, Running

LEMMA RunningStep ==
  ASSUME SeedingInv, NEW j \in Jobs, Running(j)
  PROVE  /\ job[j] \in Job /\ job[j].step \in DOMAIN Script
         /\ DOMAIN Script = 1 .. Len(Script) /\ Len(Script) \in 1 .. 20
         /\ StepOf(j).kind \in {"ensure", "upsert", "settle"} \cup UserKinds
         /\ StepOf(j).kind \in UserKinds =>
              StepOf(j).row \in Persons /\ StepOf(j).kind = KindOf(StepOf(j).row)
<1>1. job[j] \in Job /\ job[j].step \in DOMAIN Script /\ program \in Programs
  BY DEF SeedingInv, SeedingTypeOK, JobOK, KnownOK
<1>2. QED
  BY <1>1, ScriptType, StepFacts DEF StepOf

\* What is left to show of a step of job j.
JobsInv == job' \in [Jobs -> Job] /\ (\A k \in Jobs : JobOK(k)') /\ TogetherOK'

\* Results of the updates below.
LEMMA JobUpdates ==
  ASSUME NEW q \in Job
  PROVE  /\ \A n \in 0 .. 20 : [q EXCEPT !.step = n, !.stage = "find"] \in Job
         /\ [q EXCEPT !.step = 0, !.stage = "idle", !.exit = "failed"] \in Job
         /\ [q EXCEPT !.exit = "done"] \in Job
<1>1. 0 \in 0 .. 20
  OBVIOUS
<1>2. QED
  BY <1>1 DEF Job, Stages

LEMMA NextStepInv ==
  ASSUME SeedingInv, Grows, NEW j \in Jobs, Running(j), NextStep(j),
         NEW n \in DOMAIN Script, n = job[j].step, Passed(Script[n])'
  PROVE  JobsInv
<1> DEFINE q == IF n = Len(Script) THEN [NoJob EXCEPT !.exit = "done"]
                ELSE [job[j] EXCEPT !.step = n + 1, !.stage = "find"]
<1>1. job' = [job EXCEPT ![j] = q] /\ job \in [Jobs -> Job]
  BY DEF NextStep, SeedingInv, SeedingTypeOK
<1>2. job[j] \in Job /\ DOMAIN Script = 1 .. Len(Script) /\ Len(Script) \in 1 .. 20
  BY RunningStep
<1>3. Script' = Script
  BY DEF Grows, Script
<1>4. \A i \in 1 .. n : i \in DOMAIN Script /\ Passed(Script[i])'
  <2>1. \A i \in 1 .. n - 1 : i \in DOMAIN Script /\ Passed(Script[i])
    BY <1>2 DEF SeedingInv, JobOK, KnownOK
  <2>2. \A i \in 1 .. n - 1 : i \in DOMAIN Script /\ Passed(Script[i])'
    BY <2>1, PassedStays
  <2>3. \A i \in 1 .. n : i \in 1 .. n - 1 \/ i = n
    BY <1>2
  <2>4. QED
    BY <2>2, <2>3
<1>5. CASE n = Len(Script)
  <2>1. q = [NoJob EXCEPT !.exit = "done"]
    BY <1>5
  <2>2. q.stage = "idle" /\ q.exit = "done"
    BY <2>1 DEF NoJob
  <2>13. NoJob \in Job
    BY DEF NoJob, Job, Stages
  <2>14. q \in Job
    BY <2>1, <2>13, JobUpdates
  <2>3. Finished'
    BY <1>2, <1>3, <1>4, <1>5 DEF Finished
  <2>4. JobOK(j)'
    BY <1>1, <2>2, <2>3 DEF JobOK, Running
  <2>5. job' \in [Jobs -> Job] /\ TogetherOK'
    BY <1>1, <2>2, <2>14, TogetherStays
  <2>6. \A k \in Jobs \ {j} : JobOK(k)'
    BY <1>1, OthersUndisturbed
  <2>7. QED
    BY <2>4, <2>5, <2>6 DEF JobsInv
<1>6. CASE n # Len(Script)
  <2>1. q = [job[j] EXCEPT !.step = n + 1, !.stage = "find"]
    BY <1>6
  <2>2. q \in Job
    <3>0. \A len \in 1 .. 20 : \A m \in 1 .. len : m # len => m + 1 \in 0 .. 20
      OBVIOUS
    <3>1. n + 1 \in 0 .. 20
      BY <1>2, <1>6, <3>0, Zenon
    <3>2. QED
      BY <1>2, <2>1, <3>1, JobUpdates
  <2>3. /\ q.step = n + 1 /\ q.stage = "find" /\ q.exit = job[j].exit
        /\ q.shared = job[j].shared /\ q.robbed = job[j].robbed
    BY <1>2, <2>1 DEF Job
  <2>4. job'[j] = q
    BY <1>1
  <2>5. KnownOK(j)'
    <3>1. n + 1 \in DOMAIN Script /\ \A i \in 1 .. (n + 1) - 1 : i \in 1 .. n
      BY <1>2, <1>6
    <3>2. QED
      BY <1>3, <1>4, <2>3, <2>4, <3>1 DEF KnownOK, Known
  <2>6. AloneOK(j)'
    BY <2>3, <2>4 DEF AloneOK, Alone
  <2>7. job'[j].exit = "done" => Finished'
    BY <2>3, <2>4, DoneStays
  <2>8. job'[j].exit = "failed" => job'[j].shared \/ job'[j].robbed
    BY <2>3, <2>4 DEF SeedingInv, JobOK
  <2>9. JobOK(j)'
    BY <2>5, <2>6, <2>7, <2>8 DEF JobOK
  <2>10. job' \in [Jobs -> Job] /\ TogetherOK'
    BY <1>1, <2>2, <2>3, TogetherStays
  <2>11. \A k \in Jobs \ {j} : JobOK(k)'
    BY <1>1, OthersUndisturbed
  <2>12. QED
    BY <2>9, <2>10, <2>11 DEF JobsInv
<1>7. QED
  BY <1>5, <1>6

LEMMA EnterInv ==
  ASSUME SeedingInv, Grows, NEW j \in Jobs, Running(j), NEW stage \in Stages \ {"idle"},
         Enter(j, stage), NEW s, s = StepOf(j),
         Known(stage, s)', job[j].shared \/ job[j].robbed \/ Alone(stage, s)'
  PROVE  JobsInv
<1> DEFINE q == [job[j] EXCEPT !.stage = stage]
<1>1. job' = [job EXCEPT ![j] = q] /\ job \in [Jobs -> Job] /\ job[j] \in Job
  BY DEF Enter, SeedingInv, SeedingTypeOK
<1>2. q \in Job
  BY <1>1 DEF Job
<1>3. /\ q.shared = job[j].shared /\ q.robbed = job[j].robbed /\ q.exit = job[j].exit
  BY <1>1 DEF Job
<1>4. job' \in [Jobs -> Job] /\ TogetherOK'
  BY <1>1, <1>2, <1>3, TogetherStays
<1>5. /\ job'[j].shared = job[j].shared /\ job'[j].robbed = job[j].robbed
      /\ job'[j].exit = job[j].exit
  BY <1>1, <1>3
<1>9. /\ Script' = Script /\ job'[j].stage = stage /\ job'[j].step = job[j].step
      /\ StepOf(j)' = s
  BY <1>1 DEF Grows, Script, StepOf, Job
<1>10. KnownOK(j)'
  <2>1. /\ job[j].step \in DOMAIN Script
        /\ \A i \in 1 .. job[j].step - 1 : i \in DOMAIN Script /\ Passed(Script[i])
    BY RunningStep DEF SeedingInv, JobOK, KnownOK
  <2>2. \A i \in 1 .. job[j].step - 1 : Passed(Script[i])'
    BY <2>1, PassedStays
  <2>3. QED
    BY <1>9, <2>1, <2>2 DEF KnownOK
<1>6. JobOK(j)'
  <2>1. job'[j].exit = "done" => Finished'
    BY <1>5, DoneStays
  <2>2. job'[j].exit = "failed" => job'[j].shared \/ job'[j].robbed
    BY <1>5 DEF SeedingInv, JobOK
  <2>3. QED
    BY <1>5, <1>9, <1>10, <2>1, <2>2 DEF JobOK, AloneOK
<1>7. \A k \in Jobs \ {j} : JobOK(k)'
  BY <1>1, OthersUndisturbed
<1>8. QED
  BY <1>4, <1>6, <1>7 DEF JobsInv

LEMMA FailInv ==
  ASSUME SeedingInv, Grows, NEW j \in Jobs, Running(j), FailJob(j),
         job[j].shared \/ job[j].robbed
  PROVE  JobsInv
<1> DEFINE q == [job[j] EXCEPT !.step = 0, !.stage = "idle", !.exit = "failed"]
<1>1. job \in [Jobs -> Job] /\ job[j] \in Job
  BY DEF SeedingInv, SeedingTypeOK
<1>2. job' = [job EXCEPT ![j] = q]
  BY <1>1 DEF FailJob
<1>3. q \in Job
  BY <1>1, JobUpdates
<1>4. /\ q.stage = "idle" /\ q.exit = "failed"
      /\ q.shared = job[j].shared /\ q.robbed = job[j].robbed
  BY <1>1 DEF Job
<1>5. job' \in [Jobs -> Job] /\ TogetherOK'
  BY <1>1, <1>2, <1>3, <1>4, TogetherStays
<1>6. JobOK(j)'
  BY <1>1, <1>2, <1>4 DEF JobOK, Running
<1>7. \A k \in Jobs \ {j} : JobOK(k)'
  BY <1>2, OthersUndisturbed
<1>8. QED
  BY <1>5, <1>6, <1>7 DEF JobsInv

-----------------------------------------------------------------------------
(* The steps of a job *)

\* A step that writes no person's rows.
LEMMA PersonsStay ==
  ASSUME SeedingInv, account' = account, recent' = recent,
         \A p \in Persons : /\ Profile(p) \in stored' <=> Profile(p) \in stored
                            /\ Grant(p) \in stored' <=> Grant(p) \in stored
  PROVE  /\ \A p \in Persons : PersonOK(p)'
         /\ \A p \in Persons : Profile(p) \in stored' => account'[p] # "none"
         /\ account' \in [Persons -> {"none", "unverified", "verified"}] /\ recent' \subseteq Persons
BY DEF SeedingInv, SeedingTypeOK, PersonOK, Profile, Grant

LEMMA InvFromJobs ==
  ASSUME SeedingInv, JobsInv, program' = program, \A p \in Persons : PersonOK(p)',
         \A p \in Persons : Profile(p) \in stored' => account'[p] # "none",
         account' \in [Persons -> {"none", "unverified", "verified"}], recent' \subseteq Persons,
         cut' = cut \/ cut' \subseteq ({"verify", "grant"} \X Persons)
  PROVE  SeedingInv'
BY DEF SeedingInv, SeedingTypeOK, JobsInv, Profile

LEMMA RowSteps ==
  ASSUME SeedingInv, NEW j \in Jobs, FindRow(j) \/ WriteRow(j) \/ UpsertRow(j)
  PROVE  SeedingInv'
<1>1. /\ Running(j) /\ StepOf(j).kind \in {"ensure", "settle", "upsert"}
      /\ UNCHANGED <<program, account, recent, cut>>
  BY DEF FindRow, WriteRow, UpsertRow, Doing
<1>2. PICK n, s : n \in DOMAIN Script /\ n = job[j].step /\ s = StepOf(j) /\ s = Script[n]
  BY <1>1, RunningStep DEF StepOf
<1>3. stored \subseteq stored' /\ stored' \subseteq stored \cup {RowKey(s.row)}
  BY <1>2 DEF FindRow, WriteRow, UpsertRow
<1>4. Grows /\ Script' = Script
  BY <1>1, <1>3 DEF Grows, Script
<1>5. RowKey(s.row) \in stored' => Passed(Script[n])'
  BY <1>1, <1>2, <1>4 DEF Passed, UserKinds
<1>6. JobsInv
  <2>1. CASE NextStep(j) /\ RowKey(s.row) \in stored'
    BY <1>1, <1>2, <1>4, <1>5, <2>1, NextStepInv
  <2>2. CASE Enter(j, "write") /\ RowKey(s.row) \notin stored /\ stored' = stored
    <3>1. Known("write", s)' /\ Alone("write", s)'
      BY <2>2 DEF Known, Alone, RowKey
    <3>2. QED
      BY <1>1, <1>2, <1>4, <2>2, <3>1, EnterInv DEF Stages
  <2>3. CASE FailJob(j) /\ s.kind = "ensure" /\ RowKey(s.row) \in stored /\ job[j].stage = "write"
    <3>1. job[j].shared \/ job[j].robbed
      BY <1>1, <1>2, <2>3 DEF SeedingInv, JobOK, AloneOK, Alone
    <3>2. QED
      BY <1>1, <1>4, <2>3, <3>1, FailInv
  <2>4. QED
    BY <1>2, <2>1, <2>2, <2>3 DEF FindRow, WriteRow, UpsertRow, Doing
<1>7. \A p \in Persons : /\ Profile(p) \in stored' <=> Profile(p) \in stored
                         /\ Grant(p) \in stored' <=> Grant(p) \in stored
  BY <1>3 DEF Profile, Grant, RowKey
<1>8. QED
  BY <1>1, <1>6, <1>7, PersonsStay, InvFromJobs

LEMMA FindAccountInv ==
  ASSUME SeedingInv, NEW j \in Jobs, FindAccount(j)
  PROVE  SeedingInv'
<1>1. /\ Running(j) /\ StepOf(j).kind \in UserKinds
      /\ UNCHANGED <<program, stored, account, recent, cut>>
  BY DEF FindAccount, Doing
<1>2. PICK s : s = StepOf(j)
  OBVIOUS
<1>3. PICK stage \in {"signup", "lookup"} :
        Enter(j, stage) /\ stage = IF account[s.row] = "none" THEN "signup" ELSE "lookup"
  BY <1>2 DEF FindAccount
<1>4. Known(stage, s)' /\ Alone(stage, s)'
  BY <1>1, <1>2, <1>3 DEF Known, Alone
<1>5. JobsInv
  BY <1>1, <1>2, <1>3, <1>4, EnterInv DEF Grows, Stages
<1>6. QED
  BY <1>1, <1>5, PersonsStay, InvFromJobs

LEMMA SignUpInv ==
  ASSUME SeedingInv, NEW j \in Jobs, SignUpEmail(j)
  PROVE  SeedingInv'
<1>1. /\ Running(j) /\ StepOf(j).kind \in UserKinds /\ job[j].stage = "signup"
      /\ UNCHANGED <<program, stored, cut>>
  BY DEF SignUpEmail, Doing
<1>2. PICK s : s = StepOf(j)
  OBVIOUS
<1>3. s.row \in Persons /\ account \in [Persons -> {"none", "unverified", "verified"}]
  BY <1>1, <1>2, RunningStep DEF SeedingInv, SeedingTypeOK
<1>4. CASE account[s.row] = "none"
  <2>1. /\ account' = [account EXCEPT ![s.row] = "unverified"] /\ recent' = recent \cup {s.row}
        /\ Enter(j, "verify")
    BY <1>2, <1>4 DEF SignUpEmail
  <2>2. Grows
    BY <1>1, <1>3, <1>4, <2>1 DEF Grows
  <2>3. Profile(s.row) \notin stored
    BY <1>3, <1>4 DEF SeedingInv, SeedingTypeOK
  <2>4. Known("verify", s)' /\ Alone("verify", s)'
    BY <1>1, <1>2, <1>3, <2>1, <2>3 DEF Known, Alone, Profile
  <2>5. JobsInv
    BY <1>1, <1>2, <2>1, <2>2, <2>4, EnterInv DEF Stages
  <2>6. /\ account' \in [Persons -> {"none", "unverified", "verified"}] /\ recent' \subseteq Persons
        /\ \A p \in Persons : Profile(p) \in stored' => account'[p] # "none"
    BY <1>1, <1>3, <2>1 DEF SeedingInv, SeedingTypeOK, Profile
  <2>7. \A p \in Persons : PersonOK(p)'
    BY <1>1, <1>3, <2>1, <2>3 DEF SeedingInv, PersonOK, Profile, Grant
  <2>8. QED
    BY <1>1, <2>5, <2>6, <2>7, InvFromJobs
<1>5. CASE account[s.row] # "none"
  <2>1. FailJob(j) /\ UNCHANGED <<account, recent>>
    BY <1>2, <1>5 DEF SignUpEmail
  <2>2. job[j].shared \/ job[j].robbed
    BY <1>1, <1>2, <1>5 DEF SeedingInv, JobOK, AloneOK, Alone
  <2>3. JobsInv
    BY <1>1, <2>1, <2>2, FailInv DEF Grows
  <2>4. QED
    BY <1>1, <2>1, <2>3, PersonsStay, InvFromJobs
<1>6. QED
  BY <1>4, <1>5

LEMMA VerifyInv ==
  ASSUME SeedingInv, NEW j \in Jobs, VerifyEmail(j)
  PROVE  SeedingInv'
<1>1. /\ Running(j) /\ StepOf(j).kind \in UserKinds /\ job[j].stage = "verify"
      /\ UNCHANGED <<program, stored, recent, cut>>
  BY DEF VerifyEmail, Doing
<1>2. PICK s : s = StepOf(j)
  OBVIOUS
<1>3. s.row \in Persons /\ account \in [Persons -> {"none", "unverified", "verified"}]
  BY <1>1, <1>2, RunningStep DEF SeedingInv, SeedingTypeOK
<1>4. CASE account[s.row] = "none"
  <2>1. FailJob(j) /\ UNCHANGED account
    BY <1>2, <1>4 DEF VerifyEmail
  <2>2. job[j].shared \/ job[j].robbed
    BY <1>1, <1>2, <1>4 DEF SeedingInv, JobOK, AloneOK, Alone
  <2>3. JobsInv
    BY <1>1, <2>1, <2>2, FailInv DEF Grows
  <2>4. QED
    BY <1>1, <2>1, <2>3, PersonsStay, InvFromJobs
<1>5. CASE account[s.row] # "none"
  <2>1. account' = [account EXCEPT ![s.row] = "verified"]
    BY <1>2, <1>5 DEF VerifyEmail
  <2>2. PICK stage \in {"profile", "lookup"} :
          Enter(j, stage) /\ stage = IF s.kind = "admin" THEN "profile" ELSE "lookup"
    BY <1>2, <1>5 DEF VerifyEmail
  <2>3. Grows
    BY <1>1, <1>3, <2>1 DEF Grows
  <2>4. Known(stage, s)'
    BY <1>1, <1>2, <1>3, <2>1, <2>2 DEF Known
  <2>5. job[j].shared \/ job[j].robbed \/ Alone(stage, s)'
    BY <1>1, <1>2, <1>3, <2>1, <2>2 DEF SeedingInv, JobOK, AloneOK, Alone, Profile
  <2>6. JobsInv
    BY <1>1, <1>2, <2>2, <2>3, <2>4, <2>5, EnterInv DEF Stages
  <2>7. /\ account' \in [Persons -> {"none", "unverified", "verified"}] /\ recent' \subseteq Persons
        /\ \A p \in Persons : Profile(p) \in stored' => account'[p] # "none"
    BY <1>1, <1>3, <2>1 DEF SeedingInv, SeedingTypeOK, Profile
  <2>8. \A p \in Persons : PersonOK(p)'
    BY <1>1, <1>3, <2>1 DEF SeedingInv, PersonOK, Profile, Grant
  <2>9. QED
    BY <1>1, <2>6, <2>7, <2>8, InvFromJobs
<1>6. QED
  BY <1>4, <1>5

LEMMA FindProfileInv ==
  ASSUME SeedingInv, NEW j \in Jobs, FindProfile(j)
  PROVE  SeedingInv'
<1>1. /\ Running(j) /\ StepOf(j).kind \in UserKinds /\ job[j].stage = "lookup"
      /\ UNCHANGED <<program, stored, account, recent, cut>>
  BY DEF FindProfile, Doing
<1>2. PICK n, s : n \in DOMAIN Script /\ n = job[j].step /\ s = StepOf(j) /\ s = Script[n]
  BY <1>1, RunningStep DEF StepOf
<1>3. s.row \in Persons /\ s.kind = KindOf(s.row) /\ s.kind \in UserKinds
  BY <1>1, <1>2, RunningStep
<1>4. Grows /\ Script' = Script
  BY <1>1 DEF Grows, Script
<1>5. JobsInv
  <2>1. CASE Profile(s.row) \in stored /\ s.kind = "tenant"
    <3>1. Enter(j, "grant")
      BY <1>2, <2>1 DEF FindProfile
    <3>2. Known("grant", s)' /\ Alone("grant", s)'
      BY <1>1, <1>3, <2>1 DEF Known, Alone, Profile
    <3>3. QED
      BY <1>1, <1>2, <1>4, <3>1, <3>2, EnterInv DEF Stages
  <2>2. CASE Profile(s.row) \in stored /\ s.kind # "tenant"
    <3>1. NextStep(j)
      BY <1>2, <2>2 DEF FindProfile
    <3>2. Passed(Script[n])'
      BY <1>1, <1>2, <1>3, <1>4, <2>2 DEF Passed, UserKinds, SeedingInv, PersonOK, Profile
    <3>3. QED
      BY <1>1, <1>2, <1>4, <3>1, <3>2, NextStepInv
  <2>3. CASE Profile(s.row) \notin stored
    <3>1. PICK stage \in {"verify", "profile"} :
            Enter(j, stage) /\ stage = IF s.kind = "admin" THEN "verify" ELSE "profile"
      BY <1>2, <2>3 DEF FindProfile
    <3>2. Known(stage, s)'
      BY <1>1, <1>3, <3>1 DEF Known
    <3>3. job[j].shared \/ job[j].robbed \/ Alone(stage, s)'
      BY <1>1, <1>2, <2>3, <3>1 DEF SeedingInv, JobOK, AloneOK, Alone, Profile
    <3>4. QED
      BY <1>1, <1>2, <1>4, <3>1, <3>2, <3>3, EnterInv DEF Stages
  <2>4. QED
    BY <2>1, <2>2, <2>3
<1>6. QED
  BY <1>1, <1>5, PersonsStay, InvFromJobs

LEMMA CreateSaUserInv ==
  ASSUME SeedingInv, NEW j \in Jobs, CreateSaUser(j)
  PROVE  SeedingInv'
<1>1. /\ Running(j) /\ StepOf(j).kind \in UserKinds /\ job[j].stage = "profile"
      /\ UNCHANGED <<program, account, recent, cut>>
  BY DEF CreateSaUser, Doing
<1>2. PICK n, s : n \in DOMAIN Script /\ n = job[j].step /\ s = StepOf(j) /\ s = Script[n]
  BY <1>1, RunningStep DEF StepOf
<1>3. s.row \in Persons /\ s.kind = KindOf(s.row) /\ s.kind \in UserKinds
  BY <1>1, <1>2, RunningStep
<1>4. CASE account[s.row] = "none" \/ Profile(s.row) \in stored
  <2>1. FailJob(j) /\ UNCHANGED stored
    BY <1>2, <1>4 DEF CreateSaUser
  <2>2. job[j].shared \/ job[j].robbed
    BY <1>1, <1>2, <1>4 DEF SeedingInv, JobOK, AloneOK, Alone
  <2>3. JobsInv
    BY <1>1, <2>1, <2>2, FailInv DEF Grows
  <2>4. QED
    BY <1>1, <2>1, <2>3, PersonsStay, InvFromJobs
<1>5. CASE account[s.row] # "none" /\ Profile(s.row) \notin stored
  <2>1. stored' = stored \cup {Profile(s.row)}
    BY <1>2, <1>5 DEF CreateSaUser
  <2>2. Grows /\ Script' = Script
    BY <1>1, <2>1 DEF Grows, Script
  <2>3. JobsInv
    <3>1. CASE s.kind = "member"
      <4>1. NextStep(j)
        BY <1>2, <1>5, <3>1 DEF CreateSaUser
      <4>2. Passed(Script[n])'
        BY <1>2, <2>1, <2>2, <3>1 DEF Passed, Profile
      <4>3. QED
        BY <1>1, <1>2, <2>2, <4>1, <4>2, NextStepInv
    <3>2. CASE s.kind # "member"
      <4>1. Enter(j, "grant")
        BY <1>2, <1>5, <3>2 DEF CreateSaUser
      <4>2. Grant(s.row) \notin stored
        BY <1>3, <1>5 DEF SeedingInv, PersonOK
      <4>3. Known("grant", s)' /\ Alone("grant", s)'
        BY <1>3, <2>1, <4>2 DEF Known, Alone, Profile, Grant
      <4>4. QED
        BY <1>1, <1>2, <2>2, <4>1, <4>3, EnterInv DEF Stages
    <3>3. QED
      BY <3>1, <3>2
  <2>4. s.kind = "admin" => account[s.row] = "verified"
    BY <1>1, <1>2 DEF SeedingInv, JobOK, KnownOK, Known
  <2>5. \A p \in Persons : PersonOK(p)'
    BY <1>1, <1>3, <2>1, <2>4 DEF SeedingInv, PersonOK, Profile, Grant
  <2>6. /\ account' \in [Persons -> {"none", "unverified", "verified"}] /\ recent' \subseteq Persons
        /\ \A p \in Persons : Profile(p) \in stored' => account'[p] # "none"
    BY <1>1, <1>3, <1>5, <2>1 DEF SeedingInv, SeedingTypeOK, Profile
  <2>7. QED
    BY <1>1, <2>3, <2>5, <2>6, InvFromJobs
<1>6. QED
  BY <1>4, <1>5

LEMMA ApplyGrantInv ==
  ASSUME SeedingInv, NEW j \in Jobs, ApplyGrant(j)
  PROVE  SeedingInv'
<1>1. /\ Running(j) /\ StepOf(j).kind \in UserKinds /\ job[j].stage = "grant"
      /\ UNCHANGED <<program, account, recent, cut>>
  BY DEF ApplyGrant, Doing
<1>2. PICK n, s : n \in DOMAIN Script /\ n = job[j].step /\ s = StepOf(j) /\ s = Script[n]
  BY <1>1, RunningStep DEF StepOf
<1>3. s.row \in Persons /\ s.kind = KindOf(s.row) /\ s.kind \in UserKinds
  BY <1>1, <1>2, RunningStep
<1>4. CASE s.kind = "admin" /\ Grant(s.row) \in stored
  <2>1. FailJob(j) /\ UNCHANGED stored
    BY <1>2, <1>4 DEF ApplyGrant
  <2>2. job[j].shared \/ job[j].robbed
    BY <1>1, <1>2, <1>4 DEF SeedingInv, JobOK, AloneOK, Alone
  <2>3. JobsInv
    BY <1>1, <2>1, <2>2, FailInv DEF Grows
  <2>4. QED
    BY <1>1, <2>1, <2>3, PersonsStay, InvFromJobs
<1>5. CASE ~(s.kind = "admin" /\ Grant(s.row) \in stored)
  <2>1. NextStep(j) /\ stored' = stored \cup {Grant(s.row)}
    BY <1>2, <1>5 DEF ApplyGrant
  <2>2. Grows /\ Script' = Script
    BY <1>1, <2>1 DEF Grows, Script
  <2>3. Profile(s.row) \in stored
    BY <1>1, <1>2 DEF SeedingInv, JobOK, KnownOK, Known
  <2>4. Passed(Script[n])'
    BY <1>1, <1>2, <1>3, <2>1, <2>2, <2>3
    DEF Passed, UserKinds, SeedingInv, PersonOK, Profile, Grant
  <2>5. JobsInv
    BY <1>1, <1>2, <2>1, <2>2, <2>4, NextStepInv
  <2>6. \A p \in Persons : PersonOK(p)'
    BY <1>1, <1>3, <2>1, <2>3 DEF SeedingInv, PersonOK, Profile, Grant
  <2>7. /\ account' \in [Persons -> {"none", "unverified", "verified"}] /\ recent' \subseteq Persons
        /\ \A p \in Persons : Profile(p) \in stored' => account'[p] # "none"
    BY <1>1, <2>1 DEF SeedingInv, SeedingTypeOK, Profile, Grant
  <2>8. QED
    BY <1>1, <2>5, <2>6, <2>7, InvFromJobs
<1>6. QED
  BY <1>4, <1>5

-----------------------------------------------------------------------------
(* Jobs come and go; the world *)

LEMMA StartInv ==
  ASSUME SeedingInv, NEW j \in Jobs, StartJob(j)
  PROVE  SeedingInv'
<1> DEFINE others == {k \in Jobs : Running(k)}
           fresh == [NoJob EXCEPT !.step = 1, !.stage = "find", !.shared = others # {}]
<1>1. /\ job' = [k \in Jobs |->
                   IF k = j THEN fresh
                   ELSE IF k \in others THEN [job[k] EXCEPT !.shared = TRUE] ELSE job[k]]
      /\ ~Running(j) /\ UNCHANGED <<program, stored, account, recent, cut>>
  BY DEF StartJob
<1>2. /\ fresh.step = 1 /\ fresh.stage = "find" /\ fresh.shared = (others # {})
      /\ fresh.exit = "none" /\ ~fresh.robbed
  BY DEF NoJob
<1>3. fresh \in Job
  <2>1. NoJob \in Job /\ 1 \in 0 .. 20
    BY DEF NoJob, Job, Stages
  <2>2. \A b \in BOOLEAN : [NoJob EXCEPT !.step = 1, !.stage = "find", !.shared = b] \in Job
    BY <2>1 DEF Job, Stages
  <2>3. (others # {}) \in BOOLEAN
    OBVIOUS
  <2> HIDE DEF others
  <2>4. QED
    BY <2>2, <2>3
<1> HIDE DEF fresh
<1>4. Grows /\ Script' = Script
  BY <1>1 DEF Grows, Script
<1>5. \A k \in others : /\ job'[k].step = job[k].step /\ job'[k].stage = job[k].stage
                        /\ job'[k].exit = job[k].exit /\ job'[k].shared /\ job'[k] \in Job
  <2> TAKE k \in others
  <2>1. job'[k] = [job[k] EXCEPT !.shared = TRUE] /\ job[k] \in Job
    BY <1>1 DEF SeedingInv, SeedingTypeOK
  <2>2. QED
    BY <2>1 DEF Job
<1>6. \A k \in Jobs \ (others \cup {j}) : job'[k] = job[k] /\ ~Running(k)'
  BY <1>1 DEF Running
<1>7. \A k \in Jobs : JobOK(k)'
  <2> TAKE k \in Jobs
  <2>1. CASE k = j
    <3>1. job'[j] = fresh
      BY <1>1
    <3>2. 1 \in DOMAIN Script
      BY ScriptType DEF SeedingInv
    <3>3. KnownOK(j)'
      BY <1>2, <1>4, <3>1, <3>2 DEF KnownOK, Known
    <3>4. AloneOK(j)'
      BY <1>2, <3>1 DEF AloneOK, Alone
    <3>5. QED
      BY <1>2, <2>1, <3>1, <3>3, <3>4 DEF JobOK
  <2>2. CASE k \in others
    <3>1. KnownOK(k)'
      BY <1>4, <1>5, <2>2, KnownStays DEF SeedingInv, JobOK
    <3>2. job'[k].exit = "done" => Finished'
      BY <1>4, <1>5, <2>2, DoneStays
    <3>3. QED
      BY <1>5, <2>2, <3>1, <3>2 DEF JobOK
  <2>3. CASE k \notin others \cup {j}
    <3>1. job'[k].exit = "done" => Finished'
      BY <1>4, <1>6, <2>3, DoneStays
    <3>2. QED
      BY <1>6, <2>3, <3>1 DEF JobOK, SeedingInv
  <2>4. QED
    BY <2>1, <2>2, <2>3
<1>8. TogetherOK'
  <2> SUFFICES ASSUME NEW i \in Jobs, NEW k \in Jobs, i # k, Running(i)', Running(k)'
               PROVE  job'[i].shared
    BY DEF TogetherOK
  <2>1. CASE i = j
    <3>1. k \in others
      BY <1>6, <2>1
    <3>2. job'[i] = fresh
      BY <1>1, <2>1
    <3>3. QED
      BY <1>2, <3>1, <3>2
  <2>2. CASE i # j
    BY <1>5, <1>6, <2>2
  <2>3. QED
    BY <2>1, <2>2
<1>9. job' \in [Jobs -> Job]
  BY <1>1, <1>3, <1>5 DEF SeedingInv, SeedingTypeOK
<1>10. QED
  BY <1>1, <1>7, <1>8, <1>9, PersonsStay, InvFromJobs DEF JobsInv

LEMMA CrashInv ==
  ASSUME SeedingInv, NEW j \in Jobs, Crash(j)
  PROVE  SeedingInv'
<1>1. /\ Running(j) /\ job' = [job EXCEPT ![j] = NoJob] /\ job \in [Jobs -> Job]
      /\ UNCHANGED <<program, stored, account, recent>>
  BY DEF Crash, SeedingInv, SeedingTypeOK
<1>2. NoJob \in Job
  BY DEF NoJob, Job, Stages
<1>3. NoJob.stage = "idle" /\ NoJob.exit = "none"
  BY DEF NoJob
<1>4. job' \in [Jobs -> Job] /\ TogetherOK'
  BY <1>1, <1>2, <1>3, TogetherStays
<1>5. JobOK(j)'
  BY <1>1, <1>3 DEF JobOK, Running
<1>6. Grows
  BY <1>1 DEF Grows
<1>7. \A k \in Jobs \ {j} : JobOK(k)'
  BY <1>1, <1>6, OthersUndisturbed
<1>9. cut' = cut \/ cut' \subseteq ({"verify", "grant"} \X Persons)
  <2>1. job[j].stage \in {"verify", "grant"} => StepOf(j).row \in Persons
    BY <1>1, RunningStep DEF SeedingInv, JobOK, KnownOK, Known
  <2>2. QED
    BY <2>1 DEF Crash, SeedingInv, SeedingTypeOK
<1>8. QED
  BY <1>1, <1>9, <1>4, <1>5, <1>7, PersonsStay, InvFromJobs DEF JobsInv

LEMMA SweepInv ==
  ASSUME SeedingInv, SweepAbandoned
  PROVE  SeedingInv'
<1> DEFINE abandoned ==
      {p \in Persons \ recent : account[p] = "unverified" /\ Profile(p) \notin stored}
<1>1. /\ account' = [p \in Persons |-> IF p \in abandoned THEN "none" ELSE account[p]]
      /\ job' = [j \in Jobs |-> IF Running(j) THEN [job[j] EXCEPT !.robbed = TRUE] ELSE job[j]]
      /\ UNCHANGED <<program, stored, recent, cut>>
  BY DEF SweepAbandoned
<1>2. Grows
  BY <1>1 DEF Grows
<1>3. \A k \in Jobs : job[k] \in Job
  BY DEF SeedingInv, SeedingTypeOK
<1>4. \A k \in Jobs : /\ job'[k].step = job[k].step /\ job'[k].stage = job[k].stage
                      /\ job'[k].exit = job[k].exit /\ job'[k].shared = job[k].shared
                      /\ job'[k] \in Job
  BY <1>1, <1>3 DEF Job
<1>5. \A k \in Jobs : /\ Running(k)' <=> Running(k)
                      /\ Running(k) => job'[k].robbed
                      /\ ~Running(k) => job'[k] = job[k]
  BY <1>1, <1>3, <1>4 DEF Running, Job
<1>6. \A k \in Jobs : JobOK(k)'
  <2> TAKE k \in Jobs
  <2>1. job'[k].exit = "done" => Finished'
    BY <1>2, <1>4, DoneStays
  <2>2. CASE Running(k)
    <3>1. KnownOK(k)'
      BY <1>2, <1>4, <2>2, KnownStays DEF SeedingInv, JobOK
    <3>2. QED
      BY <1>5, <2>1, <2>2, <3>1 DEF JobOK
  <2>3. CASE ~Running(k)
    BY <1>5, <2>1, <2>3 DEF JobOK, SeedingInv
  <2>4. QED
    BY <2>2, <2>3
<1>7. TogetherOK'
  BY <1>4, <1>5 DEF SeedingInv, TogetherOK
<1>8. job' \in [Jobs -> Job]
  BY <1>1, <1>4
<1>9. /\ account' \in [Persons -> {"none", "unverified", "verified"}] /\ recent' \subseteq Persons
      /\ \A p \in Persons : Profile(p) \in stored' => account'[p] # "none"
  BY <1>1 DEF SeedingInv, SeedingTypeOK, Profile
<1>10. \A p \in Persons : PersonOK(p)'
  BY <1>1 DEF SeedingInv, PersonOK, Profile, Grant
<1>11. QED
  BY <1>1, <1>6, <1>7, <1>8, <1>9, <1>10, InvFromJobs DEF JobsInv

LEMMA DayInv ==
  ASSUME SeedingInv, UNCHANGED <<program, stored, account, cut, job>>, recent' \subseteq recent
  PROVE  SeedingInv'
<1>1. Script' = Script
  BY DEF Script
<1>2. \A k \in Jobs : StepOf(k)' = StepOf(k) /\ (Running(k)' <=> Running(k))
  BY <1>1 DEF StepOf, Running
<1>3. \A k \in Jobs : JobOK(k)'
  <2> TAKE k \in Jobs
  <2>1. Grows
    BY DEF Grows
  <2>2. Running(k) => KnownOK(k)'
    BY <2>1, KnownStays DEF SeedingInv, JobOK
  <2>3. AloneOK(k) => AloneOK(k)'
    BY <1>2 DEF AloneOK, Alone, Profile, Grant, RowKey
  <2>4. job'[k].exit = "done" => Finished'
    BY <2>1, DoneStays
  <2>5. QED
    BY <1>2, <2>2, <2>3, <2>4 DEF JobOK, SeedingInv
<1>4. QED
  BY <1>2, <1>3 DEF SeedingInv, SeedingTypeOK, TogetherOK, PersonOK, Profile, Grant

LEMMA SeedingNextInv == SeedingInv /\ [SeedingNext]_seedVars => SeedingInv'
<1> SUFFICES ASSUME SeedingInv, [SeedingNext]_seedVars PROVE SeedingInv'
  OBVIOUS
<1>1. ASSUME NEW j \in Jobs, JobStep(j) PROVE SeedingInv'
  BY <1>1, RowSteps, FindAccountInv, SignUpInv, VerifyInv, FindProfileInv, CreateSaUserInv,
     ApplyGrantInv DEF JobStep
<1>2. ASSUME NEW j \in Jobs, StartJob(j) \/ Crash(j) PROVE SeedingInv'
  BY <1>2, StartInv, CrashInv
<1>3. CASE DayPasses \/ UNCHANGED seedVars
  BY <1>3, DayInv DEF DayPasses, seedVars
<1>4. CASE SweepAbandoned
  BY <1>4, SweepInv
<1>5. QED
  BY <1>1, <1>2, <1>3, <1>4 DEF SeedingNext

\* Each variable of the seeds' model has its type.
THEOREM SeedingTypeCorrect == SeedingSpec => []SeedingTypeOK
<1>1. SeedingInv => SeedingTypeOK
  BY DEF SeedingInv
<1>2. QED
  BY SeedingInitInv, SeedingNextInv, <1>1, PTL DEF SeedingSpec

(* What a rerun does not repair is pending somewhere. *)

LeftOpen(p) ==
  /\ account[p] = "unverified" => Pending("verify", p)
  /\ KindOf(p) = "admin" /\ Profile(p) \in stored => Grant(p) \in stored \/ Pending("grant", p)

OpenInv == \A p \in Persons : LeftOpen(p)

AtIt(k, stage, p) == Doing(k, UserKinds, stage) /\ StepOf(k).row = p

\* It stays so unless the job that stands there moves on.
LEMMA PendingStays ==
  ASSUME SeedingInv, program' = program, cut \subseteq cut', NEW J \in SUBSET Jobs,
         \A k \in J : job'[k].step = job[k].step /\ job'[k].stage = job[k].stage,
         NEW stage, NEW p, Pending(stage, p), \A k \in Jobs \ J : ~AtIt(k, stage, p)
  PROVE  Pending(stage, p)'
<1>1. \A k \in J : /\ Running(k)' = Running(k) /\ StepOf(k)' = StepOf(k)
                   /\ job'[k].stage = job[k].stage
  BY DEF Running, StepOf, Script
<1>2. CASE <<stage, p>> \in cut
  BY <1>2 DEF Pending
<1>3. ASSUME NEW k \in Jobs, AtIt(k, stage, p) PROVE Pending(stage, p)'
  <2>1. k \in J
    BY <1>3
  <2>2. AtIt(k, stage, p)'
    BY <1>1, <1>3, <2>1 DEF AtIt, Doing
  <2>3. QED
    BY <2>2 DEF AtIt, Pending
<1>4. QED
  BY <1>2, <1>3 DEF Pending, AtIt

LEMMA OthersStand ==
  ASSUME SeedingInv, NEW j \in Jobs, JobStep(j) \/ Crash(j)
  PROVE  /\ \A k \in Jobs \ {j} : job'[k].step = job[k].step /\ job'[k].stage = job[k].stage
         /\ program' = program /\ cut \subseteq cut'
<1>1. job \in [Jobs -> Job]
  BY DEF SeedingInv, SeedingTypeOK
<1>2. NextStep(j) \/ FailJob(j) \/ (\E stage \in Stages : Enter(j, stage)) \/ Crash(j)
  BY DEF JobStep, FindRow, WriteRow, UpsertRow, FindAccount, SignUpEmail, VerifyEmail,
         FindProfile, CreateSaUser, ApplyGrant, Stages
<1>3. \A k \in Jobs \ {j} : job'[k] = job[k]
  BY <1>1, <1>2 DEF NextStep, FailJob, Enter, Crash
<1>4. program' = program /\ cut \subseteq cut'
  BY DEF JobStep, FindRow, WriteRow, UpsertRow, FindAccount, SignUpEmail, VerifyEmail,
         FindProfile, CreateSaUser, ApplyGrant, Crash
<1>5. QED
  BY <1>3, <1>4

\* A step at another stage disturbs nothing that is pending.
LEMMA ElsewherePending ==
  ASSUME SeedingInv, NEW j \in Jobs, JobStep(j),
         NEW stage, NEW p, Pending(stage, p), ~AtIt(j, stage, p)
  PROVE  Pending(stage, p)'
<1>1. /\ \A k \in Jobs \ {j} : job'[k].step = job[k].step /\ job'[k].stage = job[k].stage
      /\ program' = program /\ cut \subseteq cut'
  BY OthersStand
<1>2. (Jobs \ {j}) \in SUBSET Jobs /\ \A k \in Jobs \ (Jobs \ {j}) : ~AtIt(k, stage, p)
  OBVIOUS
<1>3. QED
  BY <1>1, <1>2, PendingStays

\* Where a job goes, it stands.
LEMMA EnteredPending ==
  ASSUME SeedingInv, NEW j \in Jobs, Running(j), StepOf(j).kind \in UserKinds, program' = program,
         NEW stage \in Stages \ {"idle"}, Enter(j, stage), NEW p, p = StepOf(j).row
  PROVE  Pending(stage, p)'
<1>1. job'[j].stage = stage /\ job'[j].step = job[j].step
  BY DEF Enter, SeedingInv, SeedingTypeOK, Job
<1>2. StepOf(j)' = StepOf(j) /\ Running(j)'
  BY <1>1 DEF StepOf, Script, Running
<1>3. QED
  BY <1>1, <1>2 DEF Pending, Doing

LEMMA OpenStep ==
  ASSUME SeedingInv, OpenInv, NEW j \in Jobs, JobStep(j)
  PROVE  OpenInv'
<1> SUFFICES ASSUME NEW p \in Persons PROVE LeftOpen(p)'
  BY DEF OpenInv
<1>0. PICK s : s = StepOf(j)
  OBVIOUS
<1>1. LeftOpen(p) /\ account \in [Persons -> {"none", "unverified", "verified"}]
  BY DEF OpenInv, SeedingInv, SeedingTypeOK
<1>2. CASE FindRow(j) \/ WriteRow(j) \/ UpsertRow(j) \/ FindAccount(j) \/ FindProfile(j)
  <2>1. /\ account' = account /\ job[j].stage \in {"find", "write", "lookup"}
        /\ stored \subseteq stored' /\ (Profile(p) \in stored' => Profile(p) \in stored)
    BY <1>2 DEF FindRow, WriteRow, UpsertRow, FindAccount, FindProfile, Doing, Profile, RowKey
  <2>2. \A stage \in {"verify", "grant"} : Pending(stage, p) => Pending(stage, p)'
    BY <2>1, ElsewherePending DEF AtIt, Doing
  <2>3. QED
    BY <1>1, <2>1, <2>2 DEF LeftOpen, Profile, Grant
<1>3. CASE SignUpEmail(j)
  <2>1. /\ Running(j) /\ job[j].stage = "signup" /\ s.kind \in UserKinds
        /\ program' = program /\ stored' = stored
    BY <1>0, <1>3 DEF SignUpEmail, Doing
  <2>2. \A stage \in {"verify", "grant"} : Pending(stage, p) => Pending(stage, p)'
    BY <2>1, ElsewherePending DEF AtIt, Doing
  <2>3. account'[p] = account[p] \/ (p = s.row /\ Enter(j, "verify"))
    BY <1>0, <1>1, <1>3 DEF SignUpEmail
  <2>4. p = s.row /\ Enter(j, "verify") => Pending("verify", p)'
    BY <1>0, <2>1, EnteredPending DEF Stages
  <2>5. QED
    BY <1>1, <2>1, <2>2, <2>3, <2>4 DEF LeftOpen, Profile, Grant
<1>4. CASE VerifyEmail(j)
  <2>1. job[j].stage = "verify" /\ stored' = stored
    BY <1>4 DEF VerifyEmail, Doing
  <2>2. Pending("grant", p) => Pending("grant", p)'
    BY <2>1, ElsewherePending DEF AtIt, Doing
  <2>3. p # s.row => (Pending("verify", p) => Pending("verify", p)')
    BY <1>0, ElsewherePending DEF AtIt
  <2>4. IF p = s.row THEN account'[p] # "unverified" ELSE account'[p] = account[p]
    BY <1>0, <1>1, <1>4 DEF VerifyEmail
  <2>5. QED
    BY <1>1, <2>1, <2>2, <2>3, <2>4 DEF LeftOpen, Profile, Grant
<1>5. CASE CreateSaUser(j)
  <2>1. /\ Running(j) /\ job[j].stage = "profile" /\ s.kind \in UserKinds
        /\ program' = program /\ account' = account
    BY <1>0, <1>5 DEF CreateSaUser, Doing
  <2>2. \A stage \in {"verify", "grant"} : Pending(stage, p) => Pending(stage, p)'
    BY <2>1, ElsewherePending DEF AtIt, Doing
  <2>3. s.row \in Persons /\ s.kind = KindOf(s.row)
    BY <1>0, <2>1, RunningStep
  <2>4. \/ stored' = stored
        \/ /\ stored' = stored \cup {Profile(s.row)}
           /\ s.kind = "admin" => Enter(j, "grant")
    BY <1>0, <1>5 DEF CreateSaUser
  <2>5. Enter(j, "grant") => Pending("grant", s.row)'
    BY <1>0, <2>1, EnteredPending DEF Stages
  <2>6. QED
    BY <1>1, <2>1, <2>2, <2>3, <2>4, <2>5 DEF LeftOpen, Profile, Grant
<1>6. CASE ApplyGrant(j)
  <2>1. /\ Running(j) /\ job[j].stage = "grant" /\ account' = account /\ s.kind \in UserKinds
    BY <1>0, <1>6 DEF ApplyGrant, Doing
  <2>2. Pending("verify", p) => Pending("verify", p)'
    BY <2>1, ElsewherePending DEF AtIt, Doing
  <2>3. p # s.row => (Pending("grant", p) => Pending("grant", p)')
    BY <1>0, ElsewherePending DEF AtIt
  <2>4. /\ stored \subseteq stored' /\ Grant(s.row) \in stored'
        /\ Profile(p) \in stored' => Profile(p) \in stored
    BY <1>0, <1>6 DEF ApplyGrant, Profile, Grant
  <2>5. QED
    BY <1>1, <2>1, <2>2, <2>3, <2>4 DEF LeftOpen, Profile, Grant
<1>7. QED
  BY <1>2, <1>3, <1>4, <1>5, <1>6 DEF JobStep

LEMMA OpenCrash ==
  ASSUME SeedingInv, OpenInv, NEW j \in Jobs, Crash(j)
  PROVE  OpenInv'
<1> SUFFICES ASSUME NEW p \in Persons PROVE LeftOpen(p)'
  BY DEF OpenInv
<1>1. /\ \A k \in Jobs \ {j} : job'[k].step = job[k].step /\ job'[k].stage = job[k].stage
      /\ program' = program /\ cut \subseteq cut'
  BY OthersStand
<1>2. \A stage \in {"verify", "grant"} : Pending(stage, p) => Pending(stage, p)'
  <2> TAKE stage \in {"verify", "grant"}
  <2> HAVE Pending(stage, p)
  <2>1. CASE AtIt(j, stage, p)
    BY <2>1 DEF Crash, AtIt, Doing, Pending
  <2>2. CASE ~AtIt(j, stage, p)
    <3>1. (Jobs \ {j}) \in SUBSET Jobs /\ \A k \in Jobs \ (Jobs \ {j}) : ~AtIt(k, stage, p)
      BY <2>2
    <3>2. QED
      BY <1>1, <3>1, PendingStays
  <2>3. QED
    BY <2>1, <2>2
<1>3. QED
  BY <1>2 DEF OpenInv, LeftOpen, Crash, Profile, Grant

\* A job that starts, a day that passes and the sweep leave every job where it stands.
LEMMA OpenWorld ==
  ASSUME SeedingInv, OpenInv,
         \A k \in Jobs : Running(k) => job'[k].step = job[k].step /\ job'[k].stage = job[k].stage,
         program' = program, cut' = cut, stored' = stored,
         \A p \in Persons : account'[p] = "unverified" => account[p] = "unverified"
  PROVE  OpenInv'
<1>1. ASSUME NEW p \in Persons, NEW stage, Pending(stage, p) PROVE Pending(stage, p)'
  <2>1. PICK J \in SUBSET Jobs : J = {k \in Jobs : Running(k)}
    OBVIOUS
  <2>2. \A k \in J : job'[k].step = job[k].step /\ job'[k].stage = job[k].stage
    BY <2>1
  <2>3. \A k \in Jobs \ J : ~AtIt(k, stage, p)
    BY <2>1 DEF AtIt, Doing
  <2>4. QED
    BY <1>1, <2>2, <2>3, PendingStays
<1>2. QED
  BY <1>1 DEF OpenInv, LeftOpen, Profile, Grant

LEMMA OpenNextInv == SeedingInv /\ OpenInv /\ [SeedingNext]_seedVars => OpenInv'
<1> SUFFICES ASSUME SeedingInv, OpenInv, [SeedingNext]_seedVars PROVE OpenInv'
  OBVIOUS
<1>1. job \in [Jobs -> Job]
  BY DEF SeedingInv, SeedingTypeOK
<1>2. ASSUME NEW j \in Jobs, StartJob(j) PROVE OpenInv'
  <2>1. /\ \A k \in Jobs : Running(k) => job'[k].step = job[k].step /\ job'[k].stage = job[k].stage
        /\ UNCHANGED <<program, cut, stored, account>>
    BY <1>1, <1>2 DEF StartJob, Job, Running
  <2>2. QED
    BY <2>1, OpenWorld
<1>3. CASE SweepAbandoned
  <2>1. \A k \in Jobs : job'[k].step = job[k].step /\ job'[k].stage = job[k].stage
    BY <1>1, <1>3 DEF SweepAbandoned, Job
  <2>2. UNCHANGED <<program, cut, stored>>
    BY <1>3 DEF SweepAbandoned
  <2>3. \A p \in Persons : account'[p] = "unverified" => account[p] = "unverified"
    BY <1>3 DEF SweepAbandoned
  <2>4. QED
    BY <2>1, <2>2, <2>3, OpenWorld
<1>4. CASE DayPasses \/ UNCHANGED seedVars
  <2>1. UNCHANGED <<program, cut, stored, account, job>>
    BY <1>4 DEF DayPasses, seedVars
  <2>2. QED
    BY <2>1, OpenWorld
<1>5. QED
  BY <1>2, <1>3, <1>4, OpenStep, OpenCrash DEF SeedingNext

\* For any number of jobs of seed.ts, its demo parts or vibecast-migration.ts, dying and
\* overlapping in any way: exit codes tell what ExitIsTrue says, and no more.
THEOREM ExitsAreTrue == SeedingSpec => []ExitIsTrue
<1>1. SeedingInit => OpenInv
  BY DEF SeedingInit, OpenInv, LeftOpen
<1>2. SeedingInv /\ OpenInv => ExitIsTrue
  <2> SUFFICES ASSUME SeedingInv, OpenInv, NEW j \in Jobs PROVE
        /\ job[j].exit = "done" => \A i \in DOMAIN Script : Seeded(Script[i])
        /\ job[j].exit = "failed" => job[j].shared \/ job[j].robbed
    BY DEF ExitIsTrue
  <2>1. ASSUME job[j].exit = "done", NEW i \in DOMAIN Script PROVE Seeded(Script[i])
    <3>1. Passed(Script[i])
      BY <2>1 DEF SeedingInv, JobOK, Finished
    <3>2. PICK s : s = Script[i]
      OBVIOUS
    <3>3. /\ s.kind \in {"ensure", "upsert", "settle"} \cup UserKinds
          /\ s.kind \in UserKinds => s.row \in Persons /\ s.kind = KindOf(s.row)
      BY <3>2, StepFacts DEF SeedingInv
    <3>4. CASE s.kind \in UserKinds
      <4>1. LeftOpen(s.row) /\ account[s.row] \in {"none", "unverified", "verified"}
        BY <3>3, <3>4 DEF OpenInv, SeedingInv, SeedingTypeOK
      <4>2. Profile(s.row) \in stored => account[s.row] # "none"
        BY <3>3, <3>4 DEF SeedingInv, SeedingTypeOK
      <4>3. Profile(s.row) \in stored => account[s.row] = "verified" \/ Pending("verify", s.row)
        BY <4>1, <4>2 DEF LeftOpen
      <4>4. QED
        BY <3>1, <3>2, <3>3, <3>4, <4>1, <4>3 DEF Passed, Seeded, LeftOpen, UserKinds
    <3>5. CASE s.kind \notin UserKinds
      BY <3>1, <3>2, <3>5 DEF Passed, Seeded, UserKinds
    <3>6. QED
      BY <3>4, <3>5
  <2>2. job[j].exit = "failed" => job[j].shared \/ job[j].robbed
    BY DEF SeedingInv, JobOK
  <2>3. QED
    BY <2>1, <2>2
<1>3. QED
  BY SeedingInitInv, SeedingNextInv, OpenNextInv, <1>1, <1>2, PTL DEF SeedingSpec

-----------------------------------------------------------------------------
(* The four together *)

\* In MCAdministration each part does what its own specification allows.
LEMMA PartsKeepTheirSpecs ==
  AdministrationSpec => Spec /\ SeedingSpec /\ DeploymentSpec /\ TenancySpec
<1>1. AdministrationInit => Init /\ SeedingInit /\ DeploymentInit /\ TenancyInit
  BY DEF AdministrationInit
<1>2. [AdministrationNext]_AdministrationVars =>
        /\ [Next]_vars /\ [SeedingNext]_seedVars
        /\ [DeploymentNext]_deployVars /\ [TenancyNext]_tenancyVars
  BY DEF AdministrationNext, AdministrationVars, Rest
<1>3. QED
  BY <1>1, <1>2, PTL DEF AdministrationSpec, Spec, SeedingSpec, DeploymentSpec, TenancySpec

\* Every variable of the four parts has its type.
THEOREM AdministrationTypes == AdministrationSpec => []AdministrationTypeOK
<1>1. TypeOK /\ SeedingTypeOK /\ DeploymentTypeOK /\ TenancyTypeOK => AdministrationTypeOK
  BY DEF AdministrationTypeOK
<1>2. QED
  BY <1>1, PartsKeepTheirSpecs, TypeCorrect, SeedingTypeCorrect, DeploymentTypeCorrect,
     TenancyTypeCorrect, PTL
=============================================================================
