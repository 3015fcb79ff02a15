-------------------------- MODULE SignupPagesProofs --------------------------
(***************************************************************************)
(* Proofs about self-service sign-up, pages and server together, for any   *)
(* number of tabs and of requests at the same time, any apps, and any      *)
(* number of failing statements and restarts.                              *)
(*                                                                         *)
(* Handlers share the row of the account and no lock, so the invariant     *)
(* says for each handler what it may rely on about that row: whose row it  *)
(* is by who made it, that it is verified once the handler has a code or a *)
(* link accepted, and that the profile stands once the handler is bound to *)
(* announce it or to tell the browser.  What could take a profile away     *)
(* again is the social handler that made it; nobody else has a duty to the *)
(* same account then.                                                      *)
(***************************************************************************)
EXTENDS SignupPages, FiniteSetTheorems, TLAPS

\* The phases of a handler of each kind.
PhasesOf(kind) ==
  CASE kind = "none" -> {"idle"}
    [] kind = "register" ->
         {"signUp", "readBack", "profile", "mail", "sendCode", "mint", "undoUser", "answered"}
    [] kind = "start" -> {"lookup", "signUp", "createOtp", "sendCode", "answered"}
    [] kind = "verify" -> {"check", "answered"}
    [] kind = "complete" ->
         {"verifyOtp", "promote", "announce", "post", "repost", "audit", "password",
          "profile", "mint", "undoUser", "answered"}
    [] kind = "social" ->
         {"signUp", "eligibility", "provision", "role", "gate", "undoProfile", "undoUser",
          "answered"}
    [] kind = "link" ->
         {"mark", "promote", "announce", "post", "repost", "audit", "answered"}
    [] kind = "mail" -> {"mail", "sendCode", "answered"}

Announcing(q) == q.phase \in {"announce", "post", "repost", "audit"}

\* Social handlers that made the profile and may have to take it back.
Provisioning(q) == q.kind = "social" /\ q.phase \in {"role", "undoProfile"}

\* What the fields of a handler are at each phase.
RouteOK(q) ==
  /\ q.phase \in PhasesOf(q.kind)
  /\ q.phase \in {"signUp", "lookup", "check", "verifyOtp"} => q.uid = None
  /\ q.phase \in {"readBack", "profile", "mint", "undoUser", "undoProfile", "eligibility",
                 "provision", "role", "gate", "mark", "promote", "password"} => q.uid # None
  /\ q.kind = "register" /\ q.phase \in {"mail", "sendCode"} => q.uid # None
  /\ Announcing(q) => q.uid # None
  /\ q.kind = "link" /\ (q.phase = "promote" \/ Announcing(q)) => q.after = "answered"
  /\ q.kind = "complete" /\ q.phase = "promote" => q.after = "password"
  /\ q.kind = "complete" /\ Announcing(q) => q.after \in {"password", "mint"}
  /\ q.phase \in {"post", "repost", "audit"} => q.nonce \in {q.uid} \X {1, 2}
  /\ q.kind = "social" /\ q.phase \in {"provision", "role", "gate", "undoProfile"} => app.eligible

\* The account with this id is the one that has the address now.
Stands(uid) == account # None /\ account.uid = uid

\* Handlers that have made the profile and mean to say so, and those that said so.
Committed(q) ==
  \/ q.kind = "register" /\ q.phase \in {"mail", "sendCode", "mint"}
  \/ q.kind = "complete" /\ (q.phase = "mint" \/ (Announcing(q) /\ q.after = "mint"))
  \/ q.kind = "social" /\ q.phase \in {"role", "undoProfile", "gate"}
  \/ /\ q.kind \in {"register", "complete", "social"} /\ q.phase = "answered"
     /\ q.answer \in {"ok", "redirect", "consent"} /\ q.uid # None

\* What a handler knows of its account.
CallOK(q) ==
  /\ q.uid # None => q.uid <= born
  /\ q.uid # None /\ Stands(q.uid) =>
       /\ q.kind \in {"register", "social"} => account.by = q.kind
       /\ q.kind = "complete" \/ (q.kind = "link" /\ q.phase # "mark") => account.verified
       /\ q.kind = "complete" /\ q.phase = "profile" => account.password = "chosen"
       /\ Announcing(q) => account.profile = "active"
  /\ Committed(q) =>
       /\ Stands(q.uid) /\ account.profile # "none"
       /\ q.kind # "register" => account.profile = "active"
       /\ q.kind = "complete" => account.password = "chosen"

AccountOK ==
  account # None =>
    /\ account.uid <= born
    /\ account.profile = "unverified" => account.by = "register"

\* While a social handler may still take its profile back, nobody was told of it.
TakenBackUntold ==
  \A c \in Calls : Provisioning(call[c]) =>
    /\ \A d \in Calls \ {c} :
         call[d].uid = call[c].uid => ~Committed(call[d]) /\ ~Announcing(call[d])
    /\ \A t \in Tabs : tab[t].uid # call[c].uid
    /\ \A n \in received : n[1] # call[c].uid

\* A profile is taken back only because the role could not be given.
UndoneForCause(q) == q.kind = "social" /\ q.phase = "undoProfile" => faults >= 1

\* One handler at a time announces an activation, with one nonce, and never again.
OneAnnouncer ==
  /\ \A c, d \in Calls :
       Announcing(call[c]) /\ Announcing(call[d]) /\ call[c].uid = call[d].uid => c = d
  /\ \A c \in Calls, n \in received :
       Announcing(call[c]) /\ n[1] = call[c].uid =>
         call[c].phase # "announce" /\ n = call[c].nonce
  /\ \A m, n \in received : m[1] = n[1] => m = n
  /\ \A n \in received : n[1] <= born /\ (Stands(n[1]) => account.profile = "active")

\* An activation that is not recorded has its announcer, unless something failed.
ActivationIsTold ==
  account # None /\ account.by # "social" /\ account.profile = "active" /\ app.webhook
    => \/ faults + crashes > 0
       \/ account.uid \in audited
       \/ \E c \in Calls : Announcing(call[c]) /\ call[c].uid = account.uid

\* A half-made account has the handler that is making it or undoing it, unless more
\* went wrong than the compensation copes with, or it was left where there is none.
RegisterTends(q) ==
  /\ q.kind = "register" /\ q.uid = account.uid
  /\ q.phase \in {"readBack", "profile"} \/ (q.phase = "undoUser" /\ faults >= 1)

AttendedRegister ==
  account.profile = "none" =>
    account.stranded \/ faults >= 2 \/ \E c \in Calls : RegisterTends(call[c])

SocialTends(q) ==
  /\ q.kind = "social" /\ q.uid = account.uid
  /\ \/ q.phase \in {"eligibility", "provision"} /\ account.profile = "none"
     \/ q.phase = "role"
     \/ q.phase = "undoProfile" /\ faults >= ToleratedFaults
     \/ /\ q.phase = "undoUser" /\ faults >= ToleratedFaults
        /\ account.profile = "none"

AttendedSocial ==
  account.profile # "active" \/ account.role # app.eligible =>
    \/ account.stranded /\ account.profile = "none"
    \/ faults > ToleratedFaults
    \/ \E c \in Calls : SocialTends(call[c])

HalfMadeIsAttended ==
  account # None /\ crashes = 0 =>
    /\ account.by = "register" => AttendedRegister
    /\ account.by = "social" => AttendedSocial

\* call is a function: TypeOK only says of what kind its values are.
Typed == TypeOK /\ call \in [Calls -> Call]

Shared ==
  /\ AccountOK
  /\ \A c \in Calls : RouteOK(call[c]) /\ CallOK(call[c]) /\ UndoneForCause(call[c])
  /\ TakenBackUntold
  /\ OneAnnouncer

IInv ==
  /\ Typed /\ Shared
  /\ ActiveIsVerified /\ DoneStaysDone
  /\ ActivationIsTold /\ HalfMadeIsAttended

-----------------------------------------------------------------------------
(* How a handler moves *)

Moves(c, q) == call' = [call EXCEPT ![c] = q]

LEMMA Nones ==
  /\ None \notin Account /\ None \notin Otp /\ None \notin Uids
  /\ Wrong \in {Wrong, Live} /\ Live \in {Wrong, Live}
BY NoneAssumption

LEMMA IdleOK ==
  /\ IdleCall \in Call
  /\ IdleCall.kind = "none" /\ IdleCall.phase = "idle" /\ IdleCall.uid = None
  /\ IdleCall.nonce = None
BY DEF IdleCall, Call, Kinds, Phases, Answers

LEMMA GoMoves ==
  ASSUME Typed, NEW c \in Calls, NEW phase \in Phases, Go(c, phase)
  PROVE  \E q \in Call :
           /\ Moves(c, q) /\ q.phase = phase /\ q.kind = call[c].kind /\ q.uid = call[c].uid
           /\ q.nonce = call[c].nonce /\ q.after = call[c].after /\ q.answer = call[c].answer
<1>1. call[c] \in Call
  BY DEF Typed
<1>2. [call[c] EXCEPT !.phase = phase] \in Call
  BY <1>1 DEF Call
<1>3. Moves(c, [call[c] EXCEPT !.phase = phase])
  BY DEF Go, Moves
<1>4. QED
  BY <1>1, <1>2, <1>3 DEF Call

LEMMA AnswerMoves ==
  ASSUME Typed, NEW c \in Calls, NEW a \in Answers, Answer(c, a)
  PROVE  \E q \in Call :
           /\ Moves(c, q) /\ q.phase = "answered" /\ q.kind = call[c].kind /\ q.answer = a
           /\ q.uid \in {call[c].uid, None} /\ q.nonce = None
<1> DEFINE uid == IF a # "error" /\ call[c].kind \in {"register", "complete", "social"}
                    THEN call[c].uid ELSE None
<1>1. call[c] \in Call
  BY DEF Typed
<1>2. PICK u \in Uids \cup {None} : u = uid /\ u \in {call[c].uid, None}
  BY <1>1 DEF Call
<1>3. [IdleCall EXCEPT !.kind = call[c].kind, !.phase = "answered", !.answer = a, !.uid = u]
        \in Call
  BY <1>1, IdleOK DEF Call, Phases
<1>4. Moves(c, [IdleCall EXCEPT !.kind = call[c].kind, !.phase = "answered", !.answer = a,
                                !.uid = u])
  BY <1>2 DEF Answer, Moves
<1>5. QED
  BY <1>2, <1>3, <1>4, IdleOK DEF Call

LEMMA BeginMoves ==
  ASSUME Typed, NEW c \in Calls, NEW kind \in Kinds, NEW phase \in Phases,
         NEW code \in {Wrong, Live}, Begin(c, kind, phase, code)
  PROVE  \E q \in Call :
           /\ Moves(c, q) /\ Idle(c) /\ q.phase = phase /\ q.kind = kind /\ q.uid = None
           /\ q.nonce = None /\ q.answer = "none"
<1>1. [IdleCall EXCEPT !.kind = kind, !.phase = phase, !.code = code] \in Call
  BY IdleOK DEF Call
<1>2. Moves(c, [IdleCall EXCEPT !.kind = kind, !.phase = phase, !.code = code]) /\ Idle(c)
  BY DEF Begin, Moves
<1>3. IdleCall.answer = "none"
  BY DEF IdleCall
<1>4. QED
  BY <1>1, <1>2, <1>3, IdleOK DEF Call

LEMMA RefuseMoves ==
  ASSUME Typed, NEW c \in Calls, NEW kind \in Kinds, NEW why \in Answers, Refuse(c, kind, why)
  PROVE  \E q \in Call :
           /\ Moves(c, q) /\ Idle(c) /\ q.phase = "answered" /\ q.kind = kind /\ q.uid = None
           /\ q.nonce = None /\ q.answer = why
<1>1. [IdleCall EXCEPT !.kind = kind, !.phase = "answered", !.answer = why] \in Call
  BY IdleOK DEF Call, Phases
<1>2. /\ Moves(c, [IdleCall EXCEPT !.kind = kind, !.phase = "answered", !.answer = why])
      /\ Idle(c)
  BY DEF Refuse, Moves
<1>3. QED
  BY <1>1, <1>2, IdleOK DEF Call

LEMMA Moved ==
  ASSUME Typed, NEW c \in Calls, NEW q \in Call, Moves(c, q)
  PROVE  /\ call' \in [Calls -> Call] /\ call'[c] = q
         /\ \A d \in Calls : d # c => call'[d] = call[d]
BY DEF Moves, Typed

-----------------------------------------------------------------------------
(* A step of one handler or page, unless an account or a profile goes *)

\* The row of the account stays, and what was true of it for good stays true.
Grown ==
  /\ app' = app /\ born' = born
  /\ account = None => account' = None
  /\ account # None =>
       /\ account' # None /\ account'.uid = account.uid /\ account'.by = account.by
       /\ account.verified => account'.verified
       /\ account.password = "chosen" => account'.password = "chosen"
       /\ account.profile = "active" => account'.profile = "active"
       /\ account.profile # "none" => account'.profile # "none"

Alike(p, q) ==
  /\ p.kind = q.kind /\ p.phase = q.phase /\ p.uid = q.uid
  /\ p.nonce = q.nonce /\ p.after = q.after /\ p.answer = q.answer

\* Whoever takes on a duty to an account has it from before, or finds the account not
\* active yet.
Fresh(uid) == Stands(uid) /\ account.profile # "active"

Duties(p, q) ==
  /\ Provisioning(q) =>
       (Provisioning(p) /\ q.uid = p.uid) \/ (Stands(q.uid) /\ account.profile = "none")
  /\ Committed(q) \/ Announcing(q) =>
       (q.uid = p.uid /\ (Committed(p) \/ Announcing(p))) \/ Fresh(q.uid)
  /\ Announcing(q) =>
       \/ /\ Announcing(p) /\ q.uid = p.uid /\ (q.phase = "announce" => p.phase = "announce")
          /\ \A n \in received : n[1] = q.uid => n = q.nonce
       \/ q.phase = "announce" /\ Fresh(q.uid)

\* The announcer's request reaches the receiver.
Delivered(p, q) ==
  /\ Announcing(p) /\ Announcing(q) /\ q.phase # "announce"
  /\ q.uid = p.uid /\ q.nonce = p.nonce /\ q.nonce[1] = q.uid
  /\ received' = received \cup {q.nonce}

\* What a tab is told, somebody has made sure of.
Hears(t) ==
  tab'[t].uid # None =>
    \/ tab'[t].uid = tab[t].uid /\ (tab'[t].page = "ready" => tab[t].page = "ready")
    \/ \E d \in Calls :
         /\ Committed(call[d]) /\ call[d].phase = "answered" /\ tab'[t].uid = call[d].uid
         /\ tab'[t].page = "ready" => call[d].kind = "complete"

LEMMA AlikeDuties ==
  ASSUME NEW p, NEW q, Alike(p, q)
  PROVE  /\ Provisioning(q) <=> Provisioning(p)
         /\ Announcing(q) <=> Announcing(p)
         /\ Committed(q) <=> Committed(p)
         /\ q.uid = p.uid /\ q.kind = p.kind /\ q.phase = p.phase /\ q.nonce = p.nonce
BY DEF Alike, Provisioning, Announcing, Committed

LEMMA AlikeRoute ==
  ASSUME NEW p, NEW q, Alike(p, q), RouteOK(p), app' = app
  PROVE  RouteOK(q)'
BY DEF Alike, RouteOK, Announcing

LEMMA GrownCall ==
  ASSUME NEW p \in Call, NEW q, Alike(p, q), CallOK(p), Grown
  PROVE  CallOK(q)'
<1>1. /\ q.uid = p.uid /\ q.kind = p.kind /\ q.phase = p.phase
      /\ Announcing(q) <=> Announcing(p)
      /\ Committed(q) <=> Committed(p)
  BY AlikeDuties
<1>2. Stands(p.uid)' <=> Stands(p.uid)
  BY DEF Stands, Grown
<1>3. Stands(p.uid) =>
        /\ account'.by = account.by
        /\ account.verified => account'.verified
        /\ account.password = "chosen" => account'.password = "chosen"
        /\ account.profile = "active" => account'.profile = "active"
        /\ account.profile # "none" => account'.profile # "none"
  BY DEF Stands, Grown
<1>4. born' = born
  BY DEF Grown
<1>5. QED
  BY <1>1, <1>2, <1>3, <1>4 DEF CallOK

\* Duties of the new record of a handler and of another's are to different accounts.
LEMMA Apart ==
  ASSUME IInv, NEW c \in Calls, NEW d \in Calls, c # d, NEW q, Duties(call[c], q),
         call[d].uid = q.uid
  PROVE  /\ Provisioning(call[d]) => ~Committed(q) /\ ~Announcing(q)
         /\ Provisioning(q) => ~Committed(call[d]) /\ ~Announcing(call[d])
         /\ Announcing(q) => ~Announcing(call[d])
<1>1. CallOK(call[d]) /\ (Provisioning(call[d]) => Committed(call[d]))
  BY DEF IInv, Shared, Committed, Provisioning
<1>2. Announcing(call[d]) /\ Stands(q.uid) => account.profile = "active"
  BY <1>1, Nones DEF CallOK, Stands, IInv, Typed, TypeOK, Account
<1>3. Committed(call[d]) => Stands(q.uid) /\ account.profile # "none"
  BY <1>1 DEF CallOK
<1>4. Provisioning(call[d]) => account.profile = "active" /\ Stands(q.uid)
  BY <1>1 DEF CallOK, Provisioning
<1>5. Provisioning(call[c]) /\ call[d].uid = call[c].uid =>
        ~Committed(call[d]) /\ ~Announcing(call[d])
  BY DEF IInv, Shared, TakenBackUntold
<1>6. Provisioning(call[d]) /\ call[d].uid = call[c].uid =>
        ~Committed(call[c]) /\ ~Announcing(call[c])
  BY DEF IInv, Shared, TakenBackUntold
<1>7. Announcing(call[d]) /\ Announcing(call[c]) => call[d].uid # call[c].uid
  BY DEF IInv, Shared, OneAnnouncer
<1>8. QED
  BY <1>2, <1>3, <1>4, <1>5, <1>6, <1>7 DEF Duties, Fresh

LEMMA Step ==
  ASSUME IInv, Typed', NEW c \in Calls, NEW q \in Call, call'[c] = q,
         \A d \in Calls \ {c} : Alike(call[d], call'[d]),
         Grown, received' = received \/ Delivered(call[c], q), AccountOK', ActiveIsVerified',
         \A t \in Tabs : Hears(t),
         RouteOK(q)', CallOK(q)', Duties(call[c], q),
         UndoneForCause(q)', faults \in Nat, faults' \in Nat, faults' >= faults,
         ActivationIsTold', HalfMadeIsAttended'
  PROVE  IInv'
<1>1. /\ \A d \in Calls : call[d] \in Call /\ RouteOK(call[d]) /\ CallOK(call[d])
                             /\ UndoneForCause(call[d])
      /\ TakenBackUntold /\ OneAnnouncer /\ DoneStaysDone
  BY DEF IInv, Shared, Typed
<1>2. ASSUME NEW d \in Calls, d # c
      PROVE  /\ RouteOK(call[d])' /\ CallOK(call[d])'
             /\ Provisioning(call'[d]) <=> Provisioning(call[d])
             /\ Announcing(call'[d]) <=> Announcing(call[d])
             /\ Committed(call'[d]) <=> Committed(call[d])
             /\ call'[d].uid = call[d].uid /\ call'[d].phase = call[d].phase
             /\ call'[d].nonce = call[d].nonce
  <2>1. PICK p : p = call'[d] /\ Alike(call[d], p)
    BY <1>2
  <2>2. RouteOK(p)' /\ CallOK(p)'
    BY <1>1, <2>1, AlikeRoute, GrownCall DEF Grown
  <2>3. RouteOK(call[d])' /\ CallOK(call[d])'
    BY <2>1, <2>2 DEF RouteOK, CallOK
  <2>4. QED
    BY <2>1, <2>3, AlikeDuties
<1>3. \A d \in Calls : RouteOK(call[d])' /\ CallOK(call[d])'
  BY <1>2 DEF RouteOK, CallOK
<1>4. TakenBackUntold'
  <2> SUFFICES ASSUME NEW e \in Calls, Provisioning(call'[e])
               PROVE  /\ \A d \in Calls \ {e} : call'[d].uid = call'[e].uid =>
                           ~Committed(call'[d]) /\ ~Announcing(call'[d])
                      /\ \A t \in Tabs : tab'[t].uid # call'[e].uid
                      /\ \A n \in received' : n[1] # call'[e].uid
    BY DEF TakenBackUntold
  <2>1. \A d \in Calls \ {e} : call'[d].uid = call'[e].uid =>
          ~Committed(call'[d]) /\ ~Announcing(call'[d])
    <3>1. CASE e = c
      BY <1>2, <3>1, Apart
    <3>2. CASE e # c
      <4>1. Provisioning(call[e]) /\ call'[e].uid = call[e].uid
        BY <1>2, <3>2
      <4>2. \A d \in Calls \ {e} : call[d].uid = call[e].uid =>
              ~Committed(call[d]) /\ ~Announcing(call[d])
        BY <1>1, <4>1 DEF TakenBackUntold
      <4>3. call[e].uid = q.uid => ~Committed(q) /\ ~Announcing(q)
        BY <3>2, <4>1, Apart
      <4>4. QED
        BY <1>2, <4>1, <4>2, <4>3
    <3>3. QED
      BY <3>1, <3>2
  <2>2. \/ /\ Provisioning(call[e]) /\ call'[e].uid = call[e].uid
        \/ /\ e = c /\ Stands(q.uid) /\ account.profile = "none"
    BY <1>2 DEF Duties
  <2>3. \A d \in Calls : Committed(call[d]) /\ call[d].phase = "answered" =>
          call[d].uid # call'[e].uid
    <3>1. CASE Provisioning(call[e]) /\ call'[e].uid = call[e].uid
      BY <1>1, <3>1 DEF TakenBackUntold, Provisioning
    <3>2. CASE e = c /\ Stands(q.uid) /\ account.profile = "none"
      BY <1>1, <3>2 DEF CallOK, Stands
    <3>3. QED
      BY <2>2, <3>1, <3>2
  <2>4. \A t \in Tabs : tab[t].uid # call'[e].uid
    <3>1. CASE Provisioning(call[e]) /\ call'[e].uid = call[e].uid
      BY <1>1, <3>1 DEF TakenBackUntold
    <3>2. CASE e = c /\ Stands(q.uid) /\ account.profile = "none"
      BY <1>1, <3>2, Nones DEF DoneStaysDone, Stands, IInv, Typed, TypeOK, Account
    <3>3. QED
      BY <2>2, <3>1, <3>2
  <2>5. \A t \in Tabs : tab'[t].uid # call'[e].uid
    <3>1. call'[e].uid # None
      BY <1>2, <1>3 DEF RouteOK, Provisioning
    <3>2. QED
      BY <2>3, <2>4, <3>1 DEF Hears
  <2>6. \A n \in received : n[1] # call'[e].uid
    <3>1. CASE Provisioning(call[e]) /\ call'[e].uid = call[e].uid
      BY <1>1, <3>1 DEF TakenBackUntold
    <3>2. CASE e = c /\ Stands(q.uid) /\ account.profile = "none"
      BY <1>1, <3>2 DEF OneAnnouncer
    <3>3. QED
      BY <2>2, <3>1, <3>2
  <2>7. \A n \in received' : n[1] # call'[e].uid
    <3>1. CASE received' = received
      BY <2>6, <3>1
    <3>2. CASE Delivered(call[c], q)
      <4>1. q.uid # call'[e].uid
        BY <1>2, <3>2, Apart DEF Delivered, Announcing, Provisioning
      <4>2. QED
        BY <2>6, <3>2, <4>1 DEF Delivered
    <3>3. QED
      BY <3>1, <3>2
  <2>8. QED
    BY <2>1, <2>5, <2>7
<1>5. OneAnnouncer'
  <2>1. ASSUME NEW d \in Calls, NEW e \in Calls, d # e,
               Announcing(call'[d]), Announcing(call'[e])
        PROVE  call'[d].uid # call'[e].uid
    <3>1. CASE d # c /\ e # c
      BY <1>1, <1>2, <2>1, <3>1 DEF OneAnnouncer
    <3>2. CASE d = c
      BY <1>2, <2>1, <3>2, Apart
    <3>3. CASE e = c
      BY <1>2, <2>1, <3>3, Apart
    <3>4. QED
      BY <3>1, <3>2, <3>3
  <2>2. ASSUME NEW d \in Calls, NEW n \in received', Announcing(call'[d]), n[1] = call'[d].uid
        PROVE  call'[d].phase # "announce" /\ n = call'[d].nonce
    <3>0. n \in received \/ (Delivered(call[c], q) /\ n = q.nonce /\ n[1] = q.uid)
      BY DEF Delivered
    <3>1. CASE d # c /\ n \in received
      BY <1>1, <1>2, <2>2, <3>1 DEF OneAnnouncer
    <3>2. CASE d = c /\ n \in received
      <4>1. ~Fresh(q.uid)
        BY <1>1, <2>2, <3>2 DEF OneAnnouncer, Fresh
      <4>2. QED
        BY <1>1, <2>2, <3>2, <4>1 DEF Duties, OneAnnouncer
    <3>3. CASE Delivered(call[c], q) /\ n = q.nonce /\ n[1] = q.uid
      <4>1. d = c
        BY <1>2, <2>2, <3>3, Apart DEF Delivered
      <4>2. QED
        BY <3>3, <4>1 DEF Delivered
    <3>4. QED
      BY <3>0, <3>1, <3>2, <3>3
  <2>3. \A n \in received' : n[1] <= born' /\ (Stands(n[1])' => account'.profile = "active")
    <3>1. \A n \in received : n[1] <= born' /\ (Stands(n[1])' => account'.profile = "active")
      BY <1>1 DEF OneAnnouncer, Grown, Stands
    <3>2. Delivered(call[c], q) => q.uid # None
      BY <1>1 DEF Delivered, RouteOK
    <3>3. Delivered(call[c], q) => q.uid <= born' /\ (Stands(q.uid)' => account'.profile = "active")
      BY <1>1, <3>2 DEF Delivered, CallOK, Grown, Stands
    <3>4. QED
      BY <3>1, <3>3 DEF Delivered
  <2>4. \A m, n \in received' : m[1] = n[1] => m = n
    <3>1. \A m, n \in received : m[1] = n[1] => m = n
      BY <1>1 DEF OneAnnouncer
    <3>2. Delivered(call[c], q) => \A n \in received : n[1] = q.uid => n = q.nonce
      BY <1>1 DEF OneAnnouncer, Delivered
    <3>3. QED
      BY <3>1, <3>2 DEF Delivered
  <2>5. QED
    BY <2>1, <2>2, <2>3, <2>4 DEF OneAnnouncer
<1>6. DoneStaysDone'
  <2> SUFFICES ASSUME NEW t \in Tabs, tab'[t].uid # None
               PROVE  /\ account' # None /\ account'.uid = tab'[t].uid
                      /\ account'.profile # "none"
                      /\ tab'[t].page = "ready" =>
                           account'.profile = "active" /\ account'.password = "chosen"
    BY DEF DoneStaysDone
  <2>1. CASE tab'[t].uid = tab[t].uid /\ (tab'[t].page = "ready" => tab[t].page = "ready")
    BY <1>1, <2>1 DEF DoneStaysDone, Grown
  <2>2. ASSUME NEW d \in Calls, Committed(call[d]), tab'[t].uid = call[d].uid,
               tab'[t].page = "ready" => call[d].kind = "complete"
        PROVE  /\ account' # None /\ account'.uid = tab'[t].uid
               /\ account'.profile # "none"
               /\ tab'[t].page = "ready" =>
                    account'.profile = "active" /\ account'.password = "chosen"
    BY <1>1, <2>2 DEF CallOK, Stands, Grown
  <2>3. QED
    BY <2>1, <2>2 DEF Hears
<1>7. \A d \in Calls : UndoneForCause(call[d])'
  BY <1>1 DEF UndoneForCause, Alike
<1>8. QED
  BY <1>3, <1>4, <1>5, <1>6, <1>7 DEF IInv, Shared

-----------------------------------------------------------------------------
(* Steps that leave the account alone *)

LEMMA PhaseTable ==
  /\ PhasesOf("none") = {"idle"}
  /\ PhasesOf("register") =
       {"signUp", "readBack", "profile", "mail", "sendCode", "mint", "undoUser", "answered"}
  /\ PhasesOf("start") = {"lookup", "signUp", "createOtp", "sendCode", "answered"}
  /\ PhasesOf("verify") = {"check", "answered"}
  /\ PhasesOf("complete") =
       {"verifyOtp", "promote", "announce", "post", "repost", "audit", "password",
        "profile", "mint", "undoUser", "answered"}
  /\ PhasesOf("social") =
       {"signUp", "eligibility", "provision", "role", "gate", "undoProfile", "undoUser",
          "answered"}
  /\ PhasesOf("link") =
       {"mark", "promote", "announce", "post", "repost", "audit", "answered"}
  /\ PhasesOf("mail") = {"mail", "sendCode", "answered"}
BY DEF PhasesOf

\* Which handlers can be at a phase.
LEMMA KindsAt ==
  ASSUME NEW q \in Call, RouteOK(q)
  PROVE  /\ q.phase = "idle" => q.kind = "none"
         /\ q.phase \in {"mail", "sendCode"} => q.kind \in {"register", "start", "mail"}
         /\ q.phase = "mail" => q.kind \in {"register", "mail"}
         /\ q.phase = "mint" => q.kind \in {"register", "complete"}
         /\ q.phase = "undoUser" => q.kind \in {"register", "complete", "social"}
         /\ q.phase = "promote" \/ Announcing(q) => q.kind \in {"complete", "link"}
BY PhaseTable DEF RouteOK, Call, Kinds, Announcing

Attendant(p) ==
  /\ p.kind \in {"register", "social"}
  /\ p.phase \in {"readBack", "profile", "eligibility", "provision", "role", "undoProfile",
                 "undoUser"}

\* Somebody else than the attendants moves, and nothing happens to the account that they
\* look after; or the attendant hands on to itself.
LEMMA AttendedStill ==
  ASSUME IInv, NEW c \in Calls, NEW q \in Call, call'[c] = q,
         \A d \in Calls \ {c} : Alike(call[d], call'[d]), app' = app, crashes' \in Nat,
         crashes' = 0 => crashes = 0, faults' \in Nat, faults \in Nat, faults' >= faults,
         account' # None /\ account'.by # "start" =>
           \/ /\ account # None /\ account'.uid = account.uid /\ account'.by = account.by
              /\ account'.profile = account.profile /\ account'.role = account.role
              /\ account.stranded => account'.stranded
              /\ \/ ~Attendant(call[c])
                 \/ /\ RegisterTends(call[c]) /\ account.profile = "none" =>
                         RegisterTends(q)' \/ faults' >= 2 \/ account'.stranded
                    /\ SocialTends(call[c]) =>
                         \/ SocialTends(q)' \/ faults' > ToleratedFaults'
                         \/ account'.stranded /\ account'.profile = "none"
           \/ account'.profile = "active" /\ account'.role = app.eligible
           \/ account'.by = "register" /\ account'.profile # "none"
  PROVE  HalfMadeIsAttended'
<1> SUFFICES ASSUME account' # None, crashes' = 0
             PROVE  /\ account'.by = "register" => AttendedRegister'
                    /\ account'.by = "social" => AttendedSocial'
  BY DEF HalfMadeIsAttended
<1>1. HalfMadeIsAttended
  BY DEF IInv
<1>2. \A d \in Calls : d # c =>
        call'[d].kind = call[d].kind /\ call'[d].uid = call[d].uid /\ call'[d].phase = call[d].phase
  BY DEF Alike
<1>3. ASSUME account'.by = "register" PROVE AttendedRegister'
  <2>1. CASE account'.profile # "none"
    BY <2>1 DEF AttendedRegister
  <2>2. CASE account'.profile = "none"
    <3>1. /\ account # None /\ account'.uid = account.uid /\ account.by = "register"
          /\ account.profile = "none" /\ (account.stranded => account'.stranded)
          /\ \/ ~Attendant(call[c])
             \/ RegisterTends(call[c]) =>
                  RegisterTends(q)' \/ faults' >= 2 \/ account'.stranded
      BY <1>3, <2>2
    <3>2. AttendedRegister
      BY <1>1, <3>1 DEF HalfMadeIsAttended
    <3>3. CASE faults >= 2 \/ account.stranded
      BY <3>1, <3>3 DEF AttendedRegister
    <3>4. ASSUME NEW d \in Calls, RegisterTends(call[d]), d # c PROVE RegisterTends(call[d])'
      BY <1>2, <3>1, <3>4 DEF RegisterTends
    <3>5. ~Attendant(call[c]) => ~RegisterTends(call[c])
      BY DEF RegisterTends, Attendant
    <3>6. QED
      BY <3>1, <3>2, <3>3, <3>4, <3>5 DEF AttendedRegister, RegisterTends
  <2>3. QED
    BY <2>1, <2>2
<1>4. ASSUME account'.by = "social" PROVE AttendedSocial'
  <2>1. CASE account'.profile = "active" /\ account'.role = app.eligible
    BY <2>1 DEF AttendedSocial
  <2>2. CASE ~(account'.profile = "active" /\ account'.role = app.eligible)
    <3>1. /\ account # None /\ account'.uid = account.uid /\ account.by = "social"
          /\ account'.profile = account.profile /\ account'.role = account.role
          /\ account.stranded => account'.stranded
          /\ \/ ~Attendant(call[c])
             \/ SocialTends(call[c]) =>
                  \/ SocialTends(q)' \/ faults' > ToleratedFaults'
                  \/ account'.stranded /\ account'.profile = "none"
      BY <1>4, <2>2
    <3>2. AttendedSocial
      BY <1>1, <3>1 DEF HalfMadeIsAttended
    <3>3. ToleratedFaults' = ToleratedFaults /\ ToleratedFaults \in 0..1
      BY <1>4, <3>1 DEF ToleratedFaults
    <3>4. CASE faults > ToleratedFaults
      BY <3>3, <3>4 DEF AttendedSocial
    <3>5. ASSUME NEW d \in Calls, SocialTends(call[d]), d # c PROVE SocialTends(call[d])'
      BY <1>2, <3>1, <3>3, <3>5 DEF SocialTends
    <3>6. ~Attendant(call[c]) => ~SocialTends(call[c])
      BY DEF SocialTends, Attendant
    <3>7. CASE \E d \in Calls : d # c /\ SocialTends(call[d])
      BY <3>5, <3>7 DEF AttendedSocial, SocialTends
    <3>8. CASE SocialTends(call[c])
      BY <3>1, <3>3, <3>6, <3>8 DEF AttendedSocial, SocialTends
    <3>9. CASE account.stranded /\ account.profile = "none"
      BY <3>1, <3>9 DEF AttendedSocial
    <3>10. QED
      BY <2>2, <3>1, <3>2, <3>4, <3>7, <3>8, <3>9 DEF AttendedSocial
  <2>3. QED
    BY <2>1, <2>2
<1>5. QED
  BY <1>3, <1>4

\* Only the announcer's record, or a failure, ends an announcement.
LEMMA ToldStill ==
  ASSUME IInv, NEW c \in Calls, NEW q \in Call, call'[c] = q,
         \A d \in Calls \ {c} : Alike(call[d], call'[d]), app' = app,
         faults \in Nat, faults' \in Nat, crashes \in Nat, crashes' \in Nat,
         faults' >= faults, crashes' >= crashes, audited \subseteq audited',
         account' # None /\ account'.by # "social" /\ account'.profile = "active" =>
           \/ /\ account # None /\ account'.uid = account.uid /\ account.by = account'.by
              /\ account.profile = "active"
           \/ Announcing(q) /\ q.uid = account'.uid,
         Announcing(call[c]) =>
           \/ Announcing(q) /\ q.uid = call[c].uid
           \/ faults' > 0 \/ ~app.webhook \/ call[c].uid \in audited'
  PROVE  ActivationIsTold'
<1> SUFFICES ASSUME account' # None, account'.by # "social", account'.profile = "active",
                    app.webhook, ~(faults' + crashes' > 0), account'.uid \notin audited'
             PROVE  \E d \in Calls : Announcing(call'[d]) /\ call'[d].uid = account'.uid
  BY DEF ActivationIsTold
<1>0. faults' = 0 /\ ~(faults + crashes > 0)
  <2>1. \A a, b \in Nat : ~(a + b > 0) <=> a = 0 /\ b = 0
    OBVIOUS
  <2>2. faults' = 0 /\ crashes' = 0
    BY <2>1
  <2>3. faults = 0 /\ crashes = 0
    BY <2>2
  <2>4. QED
    BY <2>1, <2>2, <2>3
<1>1. CASE Announcing(q) /\ q.uid = account'.uid
  BY <1>1
<1>2. CASE /\ account # None /\ account'.uid = account.uid /\ account.by = account'.by
           /\ account.profile = "active"
  <2>1. PICK d \in Calls : Announcing(call[d]) /\ call[d].uid = account.uid
    BY <1>0, <1>2 DEF IInv, ActivationIsTold
  <2>2. CASE d = c
    BY <1>0, <1>2, <2>1, <2>2
  <2>3. CASE d # c
    BY <1>2, <2>1, <2>3 DEF Alike, Announcing
  <2>4. QED
    BY <2>2, <2>3
<1>3. QED
  BY <1>1, <1>2

LEMMA Quiet ==
  ASSUME IInv, NEW c \in Calls, NEW q \in Call, Moves(c, q),
         UNCHANGED <<app, account, born, crashes>>,
         \/ UNCHANGED received
         \/ Delivered(call[c], q) /\ received' \subseteq Uids \X {1, 2},
         UNCHANGED faults \/ Fault, audited \subseteq audited', audited' \subseteq Uids,
         otp' \in {None} \cup Otp, inbox' \subseteq {Live, Link}, tab' \in [Tabs -> Tab],
         \A t \in Tabs : Hears(t),
         RouteOK(q), CallOK(q), Duties(call[c], q), UndoneForCause(q)',
         Announcing(call[c]) =>
           \/ Announcing(q) /\ q.uid = call[c].uid
           \/ Fault \/ ~app.webhook \/ call[c].uid \in audited',
         account # None =>
           \/ ~Attendant(call[c])
           \/ /\ RegisterTends(call[c]) /\ account.profile = "none" =>
                   RegisterTends(q)' \/ faults' >= 2
              /\ SocialTends(call[c]) => SocialTends(q)' \/ faults' > ToleratedFaults'
  PROVE  IInv'
<1>1. faults \in Nat /\ faults' \in 0..MaxTrouble /\ faults' \in Nat /\ faults' >= faults
      /\ crashes \in Nat
  BY BoundsAssumption DEF IInv, Typed, TypeOK, Fault
<1>2. /\ call' \in [Calls -> Call] /\ call'[c] = q
      /\ \A d \in Calls \ {c} : call'[d] = call[d]
  BY Moved DEF IInv
<1>3. Typed'
  BY <1>1, <1>2 DEF IInv, Typed, TypeOK
<1>4. \A d \in Calls \ {c} : Alike(call[d], call'[d])
  BY <1>2 DEF Alike
<1>5. Grown /\ AccountOK' /\ ActiveIsVerified'
  BY DEF Grown, IInv, Shared, AccountOK, ActiveIsVerified
<1>6. RouteOK(q)' /\ CallOK(q)'
  BY DEF RouteOK, CallOK, Stands
<1>7. ActivationIsTold'
  BY <1>1, <1>2, <1>4, ToldStill DEF Fault
<1>8. HalfMadeIsAttended'
  BY <1>1, <1>2, <1>4, AttendedStill
<1>9. QED
  BY <1>1, <1>2, <1>3, <1>4, <1>5, <1>6, <1>7, <1>8, Step

\* Nobody is told anything and no code is minted or used up.
LEMMA NobodyHears ==
  ASSUME UNCHANGED tab
  PROVE  \A t \in Tabs : Hears(t)
BY DEF Hears

\* The answer to a handler with no duty, or to one that kept it.
LEMMA AnswerQuietly ==
  ASSUME IInv, NEW c \in Calls, NEW a \in Answers, Answer(c, a),
         call[c].kind # "none", ~Announcing(call[c]),
         account # None =>
           \/ ~Attendant(call[c])
           \/ /\ RegisterTends(call[c]) /\ account.profile = "none" => faults' >= 2
              /\ SocialTends(call[c]) => faults' > ToleratedFaults',
         UNCHANGED <<app, account, born, received, audited, crashes, tab>>,
         UNCHANGED faults \/ Fault,
         otp' \in {None} \cup Otp, inbox' \subseteq {Live, Link},
         call[c].kind \in {"register", "complete", "social"} /\ call[c].uid # None
           /\ a \in {"ok", "redirect", "consent"} => Committed(call[c])
  PROVE  IInv'
<1>1. Typed /\ call[c] \in Call /\ RouteOK(call[c]) /\ CallOK(call[c])
  BY DEF IInv, Typed, Shared
<1>2. PICK q \in Call :
        /\ Moves(c, q) /\ q.phase = "answered" /\ q.kind = call[c].kind /\ q.answer = a
        /\ q.uid \in {call[c].uid, None} /\ q.nonce = None
        /\ q.kind = "link" => q.uid = None
  <2>1. PICK q \in Call :
        /\ Moves(c, q) /\ q.phase = "answered" /\ q.kind = call[c].kind /\ q.answer = a
        /\ q.uid \in {call[c].uid, None} /\ q.nonce = None
    BY <1>1, AnswerMoves
  <2>2. q = [IdleCall EXCEPT !.kind = call[c].kind, !.phase = "answered", !.answer = a,
               !.uid = IF a # "error" /\ call[c].kind \in {"register", "complete", "social"}
                         THEN call[c].uid ELSE None]
    BY <1>1, <2>1 DEF Moves, Answer, Typed
  <2>3. q.kind = "link" => q.uid = None
    BY <2>1, <2>2, IdleOK DEF Call
  <2>4. QED
    BY <2>1, <2>3
<1>3. ~Provisioning(q) /\ ~Announcing(q) /\ (Committed(q) => Committed(call[c]) /\ q.uid = call[c].uid)
  BY <1>2 DEF Provisioning, Announcing, Committed
<1>4. RouteOK(q)
  <2>1. q.phase \in PhasesOf(q.kind)
    BY <1>1, <1>2, PhaseTable DEF Call, Kinds
  <2>2. QED
    BY <1>2, <1>3, <2>1 DEF RouteOK
<1>5. CallOK(q)
  BY <1>1, <1>2, <1>3 DEF CallOK
<1>6. tab' \in [Tabs -> Tab] /\ audited' \subseteq Uids
  BY <1>1 DEF Typed, TypeOK
<1>7. QED
  BY <1>2, <1>3, <1>4, <1>5, <1>6, NobodyHears, Quiet DEF Duties, UndoneForCause

\* A handler goes on within what it has already a duty to, or to undo it.
LEMMA GoQuietly ==
  ASSUME IInv, NEW c \in Calls, NEW phase \in {"signUp", "profile", "mint", "undoUser",
                                               "undoProfile", "provision", "password",
                                               "answered"},
         Go(c, phase),
         UNCHANGED <<app, account, born, received, audited, crashes, tab>>,
         UNCHANGED faults \/ Fault,
         otp' \in {None} \cup Otp, inbox' \subseteq {Live, Link},
         phase \in PhasesOf(call[c].kind), call[c].phase # "mark",
         phase = "signUp" => call[c].uid = None,
         phase \in {"profile", "mint", "undoUser", "undoProfile", "provision", "password"} =>
           call[c].uid # None,
         phase = "profile" => call[c].kind = "register",
         phase = "provision" => call[c].kind = "social" /\ app.eligible,
         phase = "mint" => Committed(call[c]),
         phase = "undoProfile" => Provisioning(call[c]) /\ faults' >= 1,
         phase = "answered" => call[c].kind = "link",
         Announcing(call[c]) => Fault \/ ~app.webhook,
         account # None =>
           \/ ~Attendant(call[c])
           \/ /\ RegisterTends(call[c]) /\ account.profile = "none" =>
                   phase = "profile" \/ (phase = "undoUser" /\ faults' >= 1) \/ faults' >= 2
              /\ SocialTends(call[c]) =>
                   \/ phase = "provision" /\ account.profile = "none"
                   \/ /\ phase = "undoUser" /\ faults' >= ToleratedFaults
                      /\ account.profile = "none"
                   \/ phase = "undoProfile" /\ faults' >= ToleratedFaults
                   \/ faults' > ToleratedFaults'
  PROVE  IInv'
<1>1. Typed /\ call[c] \in Call /\ RouteOK(call[c]) /\ CallOK(call[c])
  BY DEF IInv, Typed, Shared
<1>2. PICK q \in Call :
        /\ Moves(c, q) /\ q.phase = phase /\ q.kind = call[c].kind /\ q.uid = call[c].uid
        /\ q.nonce = call[c].nonce /\ q.after = call[c].after /\ q.answer = call[c].answer
  BY <1>1, GoMoves DEF Phases
<1>3. /\ ~Announcing(q)
      /\ Provisioning(q) => Provisioning(call[c])
      /\ Committed(q) => Committed(call[c])
  BY <1>2 DEF Provisioning, Announcing, Committed
<1>4. RouteOK(q)
  BY <1>1, <1>2, <1>3 DEF RouteOK, Provisioning
<1>5. CallOK(q)
  BY <1>1, <1>2, <1>3 DEF CallOK
<1>6. tab' \in [Tabs -> Tab] /\ audited' \subseteq Uids
  BY <1>1 DEF Typed, TypeOK
<1>7. account # None =>
        \/ ~Attendant(call[c])
        \/ /\ RegisterTends(call[c]) /\ account.profile = "none" =>
                RegisterTends(q)' \/ faults' >= 2
           /\ SocialTends(call[c]) => SocialTends(q)' \/ faults' > ToleratedFaults'
  BY <1>2 DEF RegisterTends, SocialTends, ToleratedFaults
<1>8. QED
  BY <1>2, <1>3, <1>4, <1>5, <1>6, <1>7, NobodyHears, Quiet DEF Duties, UndoneForCause

LEMMA TypeFacts ==
  ASSUME IInv
  PROVE  /\ account # None => account \in Account
         /\ otp \in {None} \cup Otp /\ inbox \subseteq {Live, Link}
         /\ faults \in Nat /\ crashes \in Nat /\ tab \in [Tabs -> Tab] /\ app \in App
         /\ \A c \in Calls : call[c] \in Call /\ RouteOK(call[c]) /\ CallOK(call[c])
BY BoundsAssumption DEF IInv, Typed, TypeOK, Shared

-----------------------------------------------------------------------------
(* The handlers, where the account stays as it is *)

LEMMA AbortProfileStep ==
  ASSUME IInv, NEW c \in Calls, AbortProfile(c), UNCHANGED tab
  PROVE  IInv'
<1>1. /\ call[c] \in Call /\ call[c].phase = "profile" /\ call[c].uid # None
      /\ call[c].kind \in {"register", "complete"}
  BY TypeFacts DEF AbortProfile, RouteOK
<1>2. "undoUser" \in PhasesOf(call[c].kind)
  BY <1>1, PhaseTable
<1>3. ~Announcing(call[c])
  BY <1>1 DEF Announcing
<1>4. account # None =>
        /\ RegisterTends(call[c]) /\ account.profile = "none" => faults' >= 1
        /\ ~SocialTends(call[c])
  BY <1>1, TypeFacts DEF AbortProfile, RegisterTends, SocialTends, Holds, Fault
<1>5. QED
  BY <1>1, <1>2, <1>3, <1>4, TypeFacts, GoQuietly DEF AbortProfile

LEMMA AfterMailStep ==
  ASSUME IInv, NEW c \in Calls, call[c].phase \in {"mail", "sendCode"}, AfterMail(c),
         inbox' \subseteq {Live, Link},
         UNCHANGED <<app, account, born, otp, received, audited, faults, crashes, tab>>
  PROVE  IInv'
<1>1. /\ call[c] \in Call /\ RouteOK(call[c])
      /\ call[c].kind \in {"register", "start", "mail"}
  BY TypeFacts, KindsAt
<1>2. ~Announcing(call[c]) /\ ~Attendant(call[c]) /\ "ok" \in Answers
  BY DEF Announcing, Attendant, Answers
<1>3. CASE call[c].kind = "register"
  <2>1. Go(c, "mint") /\ Committed(call[c]) /\ call[c].uid # None
    BY <1>1, <1>3 DEF AfterMail, Committed, RouteOK
  <2>2. "mint" \in PhasesOf(call[c].kind)
    BY <1>3, PhaseTable
  <2>3. QED
    BY <1>2, <2>1, <2>2, TypeFacts, GoQuietly
<1>4. CASE call[c].kind # "register"
  BY <1>1, <1>2, <1>4, TypeFacts, AnswerQuietly DEF AfterMail
<1>5. QED
  BY <1>3, <1>4

LEMMA SendStep ==
  ASSUME IInv, NEW c \in Calls, SendVerificationEmail(c) \/ SendVerificationCode(c),
         UNCHANGED tab
  PROVE  IInv'
<1>1. /\ call[c].phase \in {"mail", "sendCode"} /\ AfterMail(c)
      /\ UNCHANGED <<app, account, born, otp, received, audited, faults, crashes, tab>>
  BY DEF SendVerificationEmail, SendVerificationCode
<1>2. inbox' \subseteq {Live, Link}
  BY TypeFacts DEF SendVerificationEmail, SendVerificationCode
<1>3. QED
  BY <1>1, <1>2, AfterMailStep

LEMMA MintRedirectStep ==
  ASSUME IInv, NEW c \in Calls, MintRedirect(c), UNCHANGED tab
  PROVE  IInv'
<1>1. /\ call[c].phase = "mint" /\ call[c].kind \in {"register", "complete"}
  BY TypeFacts, KindsAt DEF MintRedirect
<1>2. Committed(call[c]) /\ ~Announcing(call[c]) /\ ~Attendant(call[c])
  BY <1>1 DEF Committed, Announcing, Attendant
<1>3. PICK a \in Answers : Answer(c, a)
  BY DEF MintRedirect, Answers
<1>4. QED
  BY <1>1, <1>2, <1>3, TypeFacts, AnswerQuietly DEF MintRedirect

LEMMA FailAfterProfileStep ==
  ASSUME IInv, NEW c \in Calls, FailAfterProfile(c), UNCHANGED tab
  PROVE  IInv'
<1>1. /\ call[c].kind \in {"register", "complete"} /\ call[c].uid # None
      /\ call[c].phase \in {"mint", "mail", "sendCode"}
  BY TypeFacts, KindsAt DEF FailAfterProfile, RouteOK
<1>2. "undoUser" \in PhasesOf(call[c].kind) /\ ~Announcing(call[c]) /\ ~Attendant(call[c])
  BY <1>1, PhaseTable DEF Announcing, Attendant
<1>3. QED
  BY <1>1, <1>2, TypeFacts, GoQuietly DEF FailAfterProfile

LEMMA FailStartStep ==
  ASSUME IInv, NEW c \in Calls, FailStart(c), UNCHANGED tab
  PROVE  IInv'
<1>1. call[c].kind = "start" /\ ~Announcing(call[c]) /\ ~Attendant(call[c]) /\ "error" \in Answers
  BY DEF FailStart, Announcing, Attendant, Answers
<1>2. QED
  BY <1>1, TypeFacts, AnswerQuietly DEF FailStart

\* A start takes over an account without a profile, which nobody has a duty to.
LEMMA FindExistingStep ==
  ASSUME IInv, NEW c \in Calls, FindExisting(c), UNCHANGED tab
  PROVE  IInv'
<1>1. /\ call[c] \in Call /\ RouteOK(call[c]) /\ call[c].kind = "start"
      /\ call[c].phase = "lookup" /\ call[c].uid = None
  BY TypeFacts DEF FindExisting, At, RouteOK
<1>2. ~Announcing(call[c]) /\ ~Attendant(call[c]) /\ "error" \in Answers
  BY <1>1 DEF Announcing, Attendant, Answers
<1>3. CASE Go(c, "signUp")
  BY <1>1, <1>2, <1>3, PhaseTable, TypeFacts, GoQuietly DEF FindExisting
<1>4. CASE Answer(c, "error")
  BY <1>1, <1>2, <1>4, TypeFacts, AnswerQuietly DEF FindExisting
<1>5. CASE /\ account # None
           /\ call' = [call EXCEPT ![c].uid = account.uid, ![c].phase = "createOtp"]
  <2>1. account.uid \in Uids /\ account.uid <= born
    BY <1>5, TypeFacts DEF Account, IInv, Shared, AccountOK
  <2>2. [call[c] EXCEPT !.uid = account.uid, !.phase = "createOtp"] \in Call
    BY <1>1, <2>1 DEF Call, Phases
  <2>3. PICK q \in Call : q = [call[c] EXCEPT !.uid = account.uid, !.phase = "createOtp"]
    BY <2>2
  <2>4. /\ q.kind = "start" /\ q.phase = "createOtp" /\ q.uid = account.uid
    BY <1>1, <2>3 DEF Call
  <2>5. Moves(c, q)
    BY <1>5, <2>3 DEF Moves, IInv, Typed
  <2>6. ~Provisioning(q) /\ ~Committed(q) /\ ~Announcing(q)
    BY <2>4 DEF Provisioning, Committed, Announcing
  <2>7. RouteOK(q) /\ CallOK(q) /\ UndoneForCause(q)' /\ Duties(call[c], q)
    BY <2>1, <2>4, <2>6, PhaseTable DEF RouteOK, CallOK, UndoneForCause, Duties
  <2>8. audited' \subseteq Uids /\ tab' \in [Tabs -> Tab]
    BY DEF FindExisting, IInv, Typed, TypeOK
  <2>9. QED
    BY <1>2, <2>5, <2>6, <2>7, <2>8, NobodyHears, TypeFacts, Quiet
    DEF FindExisting
<1>6. QED
  BY <1>3, <1>4, <1>5 DEF FindExisting

\* A guess is counted, unless the code is used up.
LEMMA OtpTyped ==
  ASSUME IInv, NEW code, CountAttempt(code)
  PROVE  otp' \in {None} \cup Otp
<1>1. otp \in {None} \cup Otp /\ AllowedAttempts \in Nat
  BY BoundsAssumption, TypeFacts
<1>2. CASE otp' \in {otp, None}
  BY <1>1, <1>2
<1>3. CASE otp # None /\ otp.tries # AllowedAttempts /\ otp' = [otp EXCEPT !.tries = otp.tries + 1]
  BY <1>1, <1>3 DEF Otp
<1>4. QED
  BY <1>2, <1>3 DEF CountAttempt

LEMMA Verdicts ==
  ASSUME NEW code
  PROVE  /\ Verdict(code) \in {"ok", "error", "expiredCode"} /\ Verdict(code) \in Answers
         /\ Verdict(code) = "ok" => account # None /\ otp # None
BY DEF Verdict, Answers

LEMMA CheckStep ==
  ASSUME IInv, NEW c \in Calls, CheckVerificationOTP(c), UNCHANGED tab
  PROVE  IInv'
<1>1. call[c].kind = "verify" /\ ~Announcing(call[c]) /\ ~Attendant(call[c])
  BY DEF CheckVerificationOTP, At, Announcing, Attendant
<1>2. PICK a \in Answers : Answer(c, a)
  BY Verdicts DEF CheckVerificationOTP
<1>3. QED
  BY <1>1, <1>2, OtpTyped, TypeFacts, AnswerQuietly DEF CheckVerificationOTP

LEMMA EnterSociallyStep ==
  ASSUME IInv, NEW c \in Calls, EnterSocially(c), UNCHANGED tab
  PROVE  IInv'
<1>1. /\ call[c].kind = "social" /\ call[c].phase = "gate"
      /\ Committed(call[c]) /\ ~Announcing(call[c]) /\ ~Attendant(call[c])
  BY DEF EnterSocially, At, Committed, Announcing, Attendant
<1>2. PICK a \in Answers : Answer(c, a)
  BY DEF EnterSocially, Answers
<1>3. QED
  BY <1>1, <1>2, TypeFacts, AnswerQuietly DEF EnterSocially

LEMMA PasswordFails ==
  ASSUME IInv, NEW c \in Calls, At(c, "complete", "password"), Answer(c, "error"),
         UNCHANGED <<app, account, born, otp, inbox, received, audited, crashes, tab>>,
         UNCHANGED faults \/ Fault
  PROVE  IInv'
<1>1. /\ call[c].kind = "complete" /\ ~Announcing(call[c]) /\ ~Attendant(call[c])
      /\ "error" \in Answers
  BY DEF At, Announcing, Attendant, Answers
<1>2. QED
  BY <1>1, TypeFacts, AnswerQuietly

LEMMA CodeRefused ==
  ASSUME IInv, NEW c \in Calls, At(c, "complete", "verifyOtp"), NEW code,
         Verdict(code) # "ok", CountAttempt(code), Answer(c, Verdict(code)),
         UNCHANGED <<app, account, born, inbox, received, audited, faults, crashes, tab>>
  PROVE  IInv'
<1>1. /\ call[c].kind = "complete" /\ ~Announcing(call[c]) /\ ~Attendant(call[c])
      /\ Verdict(code) \in {"error", "expiredCode"}
  BY Verdicts DEF At, Announcing, Attendant
<1>2. PICK a \in Answers : a = Verdict(code)
  BY Verdicts
<1>3. QED
  BY <1>1, <1>2, OtpTyped, TypeFacts, AnswerQuietly

\* A delivery gets a nonce nobody has seen, and its handler announces alone.
LEMMA ResolveDeliveryStep ==
  ASSUME IInv, NEW c \in Calls, ResolveDelivery(c), UNCHANGED tab
  PROVE  IInv'
<1>1. /\ call[c] \in Call /\ RouteOK(call[c]) /\ CallOK(call[c]) /\ call[c].phase = "announce"
      /\ Announcing(call[c]) /\ call[c].uid # None /\ call[c].uid \in Uids
      /\ call[c].kind \in {"complete", "link"} /\ ~Attendant(call[c])
  BY TypeFacts, KindsAt DEF ResolveDelivery, RouteOK, Announcing, Attendant, Call
<1>2. CASE Go(c, call[c].after) /\ (Fault \/ ~app.webhook)
  <2>1. PICK after \in {"answered", "password", "mint"} :
          /\ after = call[c].after
          /\ call[c].kind = "link" => after = "answered"
          /\ call[c].kind = "complete" => after \in {"password", "mint"}
    BY <1>1 DEF RouteOK
  <2>2. after \in PhasesOf(call[c].kind) /\ (after = "mint" => Committed(call[c]))
    BY <1>1, <2>1, PhaseTable DEF Committed
  <2>3. QED
    BY <1>1, <1>2, <2>1, <2>2, TypeFacts, GoQuietly DEF ResolveDelivery
<1>3. ASSUME NEW n \in {1, 2},
             call' = [call EXCEPT ![c].nonce = <<call[c].uid, n>>, ![c].phase = "post"],
             UNCHANGED faults
      PROVE  IInv'
  <2>1. PICK nonce \in Uids \X {1, 2} : nonce = <<call[c].uid, n>>
    BY <1>1
  <2>2. [call[c] EXCEPT !.nonce = nonce, !.phase = "post"] \in Call
    BY <1>1 DEF Call, Phases
  <2>3. PICK q \in Call : q = [call[c] EXCEPT !.nonce = nonce, !.phase = "post"]
    BY <2>2
  <2>4. /\ q.kind = call[c].kind /\ q.phase = "post" /\ q.uid = call[c].uid
        /\ q.nonce = nonce /\ q.after = call[c].after
    BY <1>1, <2>3 DEF Call
  <2>5. Moves(c, q)
    BY <1>3, <2>1, <2>3 DEF Moves, IInv, Typed
  <2>6. Announcing(q) /\ ~Provisioning(q) /\ (Committed(q) => Committed(call[c]))
    BY <1>1, <2>4 DEF Provisioning, Committed, Announcing
  <2>7. RouteOK(q)
    <3>1. q.phase \in PhasesOf(q.kind)
      BY <1>1, <2>4, PhaseTable
    <3>2. q.nonce \in {q.uid} \X {1, 2}
      BY <2>1, <2>4
    <3>3. q.kind = "link" => q.after = "answered"
      BY <1>1, <2>4 DEF RouteOK
    <3>4. q.kind = "complete" => q.after \in {"password", "mint"}
      BY <1>1, <2>4 DEF RouteOK
    <3>5. QED
      BY <1>1, <2>4, <3>1, <3>2, <3>3, <3>4 DEF RouteOK
  <2>8. CallOK(q)
    BY <1>1, <2>4, <2>6 DEF CallOK
  <2>9. \A m \in received : m[1] # q.uid
    BY <1>1, <2>4 DEF IInv, Shared, OneAnnouncer
  <2>10. Duties(call[c], q)
    BY <1>1, <2>4, <2>6, <2>9 DEF Duties
  <2>11. audited' \subseteq Uids /\ tab' \in [Tabs -> Tab] /\ audited \subseteq audited'
    BY DEF ResolveDelivery, IInv, Typed, TypeOK
  <2>12. QED
    BY <1>1, <1>3, <2>4, <2>5, <2>6, <2>7, <2>8, <2>10, <2>11, NobodyHears, TypeFacts, Quiet
    DEF ResolveDelivery, UndoneForCause
<1>4. QED
  BY <1>2, <1>3 DEF ResolveDelivery

LEMMA LogOutcomeStep ==
  ASSUME IInv, NEW c \in Calls, LogOutcome(c), UNCHANGED tab
  PROVE  IInv'
<1>1. /\ call[c] \in Call /\ RouteOK(call[c]) /\ CallOK(call[c]) /\ call[c].phase = "audit"
      /\ Announcing(call[c]) /\ call[c].uid # None /\ call[c].uid \in Uids
      /\ call[c].kind \in {"complete", "link"} /\ ~Attendant(call[c])
  BY TypeFacts, KindsAt DEF LogOutcome, RouteOK, Announcing, Attendant, Call
<1>2. PICK after \in {"answered", "password", "mint"} :
        /\ after = call[c].after
        /\ call[c].kind = "link" => after = "answered"
        /\ call[c].kind = "complete" => after \in {"password", "mint"}
  BY <1>1 DEF RouteOK
<1>3. [call[c] EXCEPT !.phase = after, !.nonce = None] \in Call
  BY <1>1 DEF Call, Phases
<1>4. PICK q \in Call : q = [call[c] EXCEPT !.phase = after, !.nonce = None]
  BY <1>3
<1>5. q.kind = call[c].kind /\ q.phase = after /\ q.uid = call[c].uid
  BY <1>1, <1>4 DEF Call
<1>6. Moves(c, q)
  BY <1>2, <1>4 DEF Moves, LogOutcome, IInv, Typed
<1>7. ~Announcing(q) /\ ~Provisioning(q) /\ (Committed(q) => Committed(call[c]))
  BY <1>1, <1>2, <1>5 DEF Provisioning, Committed, Announcing
<1>8. RouteOK(q)
  <2>1. q.phase \in PhasesOf(q.kind)
    BY <1>1, <1>2, <1>5, PhaseTable
  <2>2. QED
    BY <1>1, <1>2, <1>5, <1>7, <2>1 DEF RouteOK
<1>9. CallOK(q)
  BY <1>1, <1>2, <1>5, <1>7 DEF CallOK
<1>10. Duties(call[c], q) /\ UndoneForCause(q)'
  BY <1>2, <1>5, <1>7 DEF Duties, UndoneForCause
<1>11. /\ audited' \subseteq Uids /\ tab' \in [Tabs -> Tab] /\ audited \subseteq audited'
       /\ Fault \/ call[c].uid \in audited'
  BY <1>1 DEF LogOutcome, IInv, Typed, TypeOK
<1>12. QED
  BY <1>1, <1>6, <1>7, <1>8, <1>9, <1>10, <1>11, NobodyHears, TypeFacts, Quiet
  DEF LogOutcome


-----------------------------------------------------------------------------
(* The handlers that write to the row of the account *)

\* The row gains something, and whoever makes the account active announces it.
LEMMA Grows ==
  ASSUME IInv, NEW c \in Calls, NEW q \in Call, Moves(c, q), Grown,
         account # None, account' \in Account,
         UNCHANGED <<inbox, received, audited, faults, crashes, tab>>,
         otp' \in {None} \cup Otp,
         account'.profile = "unverified" => account'.by = "register", ActiveIsVerified',
         RouteOK(q), CallOK(q)', Duties(call[c], q), ~Announcing(call[c]),
         q.phase # "undoProfile",
         account.by # "social" /\ account'.profile = "active" =>
           account.profile = "active" \/ (Announcing(q) /\ q.uid = account.uid),
         HalfMadeIsAttended'
  PROVE  IInv'
<1>1. /\ call' \in [Calls -> Call] /\ call'[c] = q
      /\ \A d \in Calls \ {c} : call'[d] = call[d]
  BY Moved DEF IInv
<1>2. app' = app /\ born' = born /\ account'.uid = account.uid /\ account'.by = account.by
  BY DEF Grown
<1>3. Typed'
  BY <1>1, <1>2 DEF IInv, Typed, TypeOK
<1>4. \A d \in Calls \ {c} : Alike(call[d], call'[d])
  BY <1>1 DEF Alike
<1>5. AccountOK'
  BY <1>2 DEF IInv, Shared, AccountOK
<1>6. RouteOK(q)'
  BY <1>2 DEF RouteOK
<1>7. ActivationIsTold'
  BY <1>1, <1>2, <1>4, TypeFacts, ToldStill
<1>8. received' = received /\ \A t \in Tabs : Hears(t)
  BY NobodyHears
<1>9. QED
  BY <1>1, <1>3, <1>4, <1>5, <1>6, <1>7, <1>8, TypeFacts, Step DEF UndoneForCause

\* Nothing of what the attendants look after is written.
LEMMA AttendedAsBefore ==
  ASSUME IInv, NEW c \in Calls, NEW q \in Call, Moves(c, q), app' = app,
         account # None, account'.uid = account.uid, account'.by = account.by,
         account'.profile = account.profile, account'.role = account.role,
         account.stranded => account'.stranded,
         UNCHANGED <<faults, crashes>>, ~Attendant(call[c])
  PROVE  HalfMadeIsAttended'
<1>1. /\ call'[c] = q
      /\ \A d \in Calls \ {c} : Alike(call[d], call'[d])
  BY Moved DEF IInv, Alike
<1>2. QED
  BY <1>1, TypeFacts, AttendedStill

\* The address is verified on behalf of the one who proved it is his.
LEMMA VerifiedStep ==
  ASSUME IInv, NEW c \in Calls, NEW q \in Call, Moves(c, q),
         account # None, account' = [account EXCEPT !.verified = TRUE],
         UNCHANGED <<app, born, inbox, received, audited, faults, crashes, tab>>,
         otp' \in {None} \cup Otp,
         call[c].kind \in {"complete", "link"}, ~Announcing(call[c]),
         q.kind = call[c].kind, q.phase = "promote", q.uid = account.uid,
         q.after = IF q.kind = "link" THEN "answered" ELSE "password"
  PROVE  IInv'
<1>1. account \in Account
  BY TypeFacts
<1>2. /\ account' \in Account /\ account'.verified
      /\ account'.uid = account.uid /\ account'.by = account.by
      /\ account'.profile = account.profile /\ account'.role = account.role
      /\ account'.password = account.password /\ (account.stranded => account'.stranded)
  BY <1>1 DEF Account
<1>3. Grown
  BY <1>1, <1>2, Nones DEF Grown
<1>4. ~Committed(q) /\ ~Announcing(q) /\ ~Provisioning(q) /\ ~Attendant(call[c])
  BY DEF Committed, Announcing, Provisioning, Attendant
<1>5. RouteOK(q)
  BY <1>1, <1>4, Nones, PhaseTable DEF RouteOK, Account
<1>6. CallOK(q)'
  BY <1>2, <1>4 DEF CallOK, IInv, Shared, AccountOK
<1>7. account'.profile = "unverified" => account'.by = "register"
  BY <1>2 DEF IInv, Shared, AccountOK
<1>8. ActiveIsVerified' /\ Duties(call[c], q)
  BY <1>2, <1>4 DEF ActiveIsVerified, Duties
<1>9. HalfMadeIsAttended'
  BY <1>2, <1>4, AttendedAsBefore
<1>10. QED
  BY <1>2, <1>3, <1>5, <1>6, <1>7, <1>8, <1>9, Grows

LEMMA VerifyEmailOTPStep ==
  ASSUME IInv, NEW c \in Calls, VerifyEmailOTP(c), UNCHANGED tab
  PROVE  IInv'
<1>1. call[c] \in Call /\ call[c].kind = "complete" /\ call[c].phase = "verifyOtp"
  BY TypeFacts DEF VerifyEmailOTP, At
<1>2. CASE Verdict(call[c].code) = "ok"
  <2>1. account # None /\ account.uid \in Uids
    BY <1>2, Verdicts, TypeFacts DEF Account
  <2>2. [call[c] EXCEPT !.uid = account.uid, !.phase = "promote", !.after = "password"] \in Call
    BY <1>1, <2>1 DEF Call, Phases
  <2>3. PICK q \in Call :
          q = [call[c] EXCEPT !.uid = account.uid, !.phase = "promote", !.after = "password"]
    BY <2>2
  <2>4. /\ q.kind = "complete" /\ q.phase = "promote" /\ q.uid = account.uid
        /\ q.after = "password"
    BY <1>1, <2>3 DEF Call
  <2>5. Moves(c, q)
    BY <1>2, <2>3 DEF Moves, VerifyEmailOTP, IInv, Typed
  <2>6. ~Announcing(call[c])
    BY <1>1 DEF Announcing
  <2>7. QED
    BY <1>1, <1>2, <2>1, <2>4, <2>5, <2>6, VerifiedStep DEF VerifyEmailOTP
<1>3. CASE Verdict(call[c].code) # "ok"
  BY <1>3, CodeRefused DEF VerifyEmailOTP
<1>4. QED
  BY <1>2, <1>3

LEMMA MarkVerifiedStep ==
  ASSUME IInv, NEW c \in Calls, MarkVerified(c), UNCHANGED tab
  PROVE  IInv'
<1>1. /\ call[c] \in Call /\ call[c].kind = "link" /\ call[c].phase = "mark"
      /\ ~Announcing(call[c]) /\ ~Attendant(call[c]) /\ "error" \in Answers
  BY TypeFacts DEF MarkVerified, At, Announcing, Attendant, Answers
<1>2. CASE Holds(c)
  <2>1. [call[c] EXCEPT !.phase = "promote", !.after = "answered"] \in Call
    BY <1>1 DEF Call, Phases
  <2>2. PICK q \in Call : q = [call[c] EXCEPT !.phase = "promote", !.after = "answered"]
    BY <2>1
  <2>3. /\ q.kind = "link" /\ q.phase = "promote" /\ q.uid = account.uid
        /\ q.after = "answered"
    BY <1>1, <1>2, <2>2 DEF Call, Holds
  <2>4. Moves(c, q)
    BY <1>2, <2>2 DEF Moves, MarkVerified, IInv, Typed
  <2>5. QED
    BY <1>1, <1>2, <2>3, <2>4, TypeFacts, VerifiedStep DEF MarkVerified, Holds
<1>3. CASE ~Holds(c)
  BY <1>1, <1>3, TypeFacts, AnswerQuietly DEF MarkVerified
<1>4. QED
  BY <1>2, <1>3

\* The password of an account whose owner has just proved the address.
LEMMA SetPasswordStep ==
  ASSUME IInv, NEW c \in Calls, SetPassword(c), UNCHANGED tab
  PROVE  IInv'
<1>1. /\ call[c] \in Call /\ RouteOK(call[c]) /\ CallOK(call[c])
      /\ call[c].kind = "complete" /\ call[c].phase = "password"
      /\ ~Announcing(call[c]) /\ ~Attendant(call[c])
  BY TypeFacts DEF SetPassword, At, Announcing, Attendant
<1>2. ASSUME Holds(c), account' = [account EXCEPT !.password = "chosen"], Go(c, "profile"),
             UNCHANGED faults
      PROVE  IInv'
  <2>1. account # None /\ account \in Account /\ account.uid = call[c].uid
    BY <1>2, TypeFacts DEF Holds
  <2>2. /\ account' \in Account /\ account'.password = "chosen"
        /\ account'.uid = account.uid /\ account'.by = account.by
        /\ account'.profile = account.profile /\ account'.role = account.role
        /\ account'.verified = account.verified /\ (account.stranded => account'.stranded)
    BY <1>2, <2>1 DEF Account
  <2>3. Grown
    BY <2>1, <2>2, Nones DEF Grown, SetPassword
  <2>4. PICK q \in Call :
          /\ Moves(c, q) /\ q.phase = "profile" /\ q.kind = call[c].kind
          /\ q.uid = call[c].uid
    BY <1>2, GoMoves DEF IInv, Phases
  <2>5. ~Committed(q) /\ ~Announcing(q) /\ ~Provisioning(q)
    BY <1>1, <2>4 DEF Committed, Announcing, Provisioning
  <2>6. RouteOK(q)
    BY <1>1, <2>4, <2>5, PhaseTable DEF RouteOK
  <2>7. CallOK(q)'
    BY <1>1, <2>1, <2>2, <2>4, <2>5 DEF CallOK, Stands, SetPassword
  <2>8. account'.profile = "unverified" => account'.by = "register"
    BY <2>1, <2>2 DEF IInv, Shared, AccountOK
  <2>9. ActiveIsVerified' /\ Duties(call[c], q)
    BY <2>1, <2>2, <2>5 DEF IInv, ActiveIsVerified, Duties
  <2>10. HalfMadeIsAttended'
    BY <1>1, <1>2, <2>1, <2>2, <2>4, AttendedAsBefore DEF SetPassword
  <2>11. QED
    BY <1>1, <1>2, <2>1, <2>2, <2>3, <2>4, <2>6, <2>7, <2>8, <2>9, <2>10, TypeFacts, Grows
    DEF SetPassword
<1>3. CASE Answer(c, "error") /\ UNCHANGED account /\ (UNCHANGED faults \/ Fault)
  BY <1>3, PasswordFails DEF SetPassword
<1>4. QED
  BY <1>2, <1>3 DEF SetPassword

\* afterEmailVerification: the handler that finds the row unverified promotes it, and
\* owes the announcement.
LEMMA AfterEmailVerificationStep ==
  ASSUME IInv, NEW c \in Calls, AfterEmailVerification(c), UNCHANGED tab
  PROVE  IInv'
<1>1. /\ call[c] \in Call /\ RouteOK(call[c]) /\ CallOK(call[c])
      /\ call[c].kind \in {"complete", "link"} /\ call[c].phase = "promote"
      /\ call[c].uid # None /\ ~Announcing(call[c]) /\ ~Attendant(call[c])
  BY TypeFacts, KindsAt DEF AfterEmailVerification, RouteOK, Announcing, Attendant
<1>2. ASSUME Holds(c), account.profile = "unverified",
             account' = [account EXCEPT !.profile = "active"], Go(c, "announce")
      PROVE  IInv'
  <2>1. account # None /\ account \in Account /\ account.uid = call[c].uid
    BY <1>2, TypeFacts DEF Holds
  <2>2. /\ account' \in Account /\ account'.profile = "active"
        /\ account'.uid = account.uid /\ account'.by = account.by
        /\ account'.verified = account.verified /\ account'.password = account.password
    BY <1>2, <2>1 DEF Account
  <2>3. account.by = "register" /\ account.verified
    BY <1>1, <1>2, <2>1 DEF IInv, Shared, AccountOK, CallOK, Stands
  <2>4. Grown
    BY <1>2, <2>1, <2>2, Nones DEF Grown, AfterEmailVerification
  <2>5. PICK q \in Call :
          /\ Moves(c, q) /\ q.phase = "announce" /\ q.kind = call[c].kind
          /\ q.uid = call[c].uid /\ q.after = call[c].after
    BY <1>2, GoMoves DEF IInv, Phases
  <2>6. /\ Announcing(q) /\ ~Provisioning(q) /\ ~Committed(q)
        /\ q.after = IF q.kind = "link" THEN "answered" ELSE "password"
    BY <1>1, <2>5 DEF Announcing, Provisioning, Committed, RouteOK
  <2>7. RouteOK(q)
    BY <1>1, <2>5, <2>6, PhaseTable DEF RouteOK
  <2>8. CallOK(q)'
    BY <1>1, <2>1, <2>2, <2>3, <2>5, <2>6 DEF CallOK, Stands, AfterEmailVerification
  <2>9. ActiveIsVerified'
    BY <2>2, <2>3 DEF ActiveIsVerified
  <2>10. Duties(call[c], q)
    BY <1>2, <2>1, <2>5, <2>6 DEF Duties, Fresh, Stands
  <2>11. HalfMadeIsAttended'
    <3>1. /\ call'[c] = q
          /\ \A d \in Calls \ {c} : Alike(call[d], call'[d])
      BY <2>5, Moved DEF IInv, Alike
    <3>2. account'.by = "register" /\ account'.profile # "none"
      BY <2>2, <2>3
    <3>3. app' = app /\ faults' = faults /\ crashes' = crashes
      BY DEF AfterEmailVerification
    <3>4. QED
      BY <3>1, <3>2, <3>3, TypeFacts, AttendedStill
  <2>12. QED
    BY <1>1, <1>2, <2>1, <2>2, <2>3, <2>4, <2>5, <2>6, <2>7, <2>8, <2>9, <2>10, <2>11,
       TypeFacts, Grows
    DEF AfterEmailVerification
<1>3. CASE Go(c, call[c].after) /\ UNCHANGED account
  <2>1. PICK after \in {"answered", "password"} :
          /\ after = call[c].after
          /\ call[c].kind = "link" => after = "answered"
          /\ call[c].kind = "complete" => after = "password"
    BY <1>1 DEF RouteOK
  <2>2. after \in PhasesOf(call[c].kind)
    BY <1>1, <2>1, PhaseTable
  <2>3. QED
    BY <1>1, <1>3, <2>1, <2>2, TypeFacts, GoQuietly DEF AfterEmailVerification
<1>4. QED
  BY <1>2, <1>3 DEF AfterEmailVerification

\* A profile is committed for an account that has none: nobody was told of it yet.
LEMMA CommitProfileStep ==
  ASSUME IInv, NEW c \in Calls, CommitProfile(c), UNCHANGED tab
  PROVE  IInv'
<1> DEFINE phase == IF call[c].kind = "register" THEN "mail" ELSE "announce"
           status == IF call[c].kind = "register" THEN "unverified" ELSE "active"
<1>1. /\ call[c] \in Call /\ RouteOK(call[c]) /\ CallOK(call[c])
      /\ call[c].kind \in {"register", "complete"} /\ call[c].phase = "profile"
      /\ call[c].uid # None /\ ~Announcing(call[c])
  BY TypeFacts DEF CommitProfile, RouteOK, Announcing
<1>2. /\ account # None /\ account \in Account /\ account.uid = call[c].uid
      /\ account.profile = "none" /\ app.eligible \in BOOLEAN
  BY TypeFacts DEF CommitProfile, Holds, App
<1>3. PICK s \in {"unverified", "active"}, r \in BOOLEAN :
        /\ account' = [account EXCEPT !.profile = s, !.role = r]
        /\ s = status /\ r = app.eligible
  BY <1>1, <1>2 DEF CommitProfile, Status
<1>4. /\ account' \in Account /\ account'.profile = s
      /\ account'.uid = account.uid /\ account'.by = account.by
      /\ account'.verified = account.verified /\ account'.password = account.password
  BY <1>2, <1>3 DEF Account
<1>5. /\ call[c].kind = "register" => account.by = "register"
      /\ call[c].kind = "complete" => account.verified /\ account.password = "chosen"
  BY <1>1, <1>2 DEF CallOK, Stands
<1>6. Grown
  BY <1>2, <1>4, Nones DEF Grown, CommitProfile
<1>7. PICK q \in Call :
        /\ Moves(c, q) /\ q.phase = phase /\ q.kind = call[c].kind /\ q.uid = call[c].uid
        /\ q.after = "mint"
  <2>1. PICK p \in {"mail", "announce"} : p = phase
    OBVIOUS
  <2>2. [call[c] EXCEPT !.phase = p, !.after = "mint"] \in Call
    BY <1>1 DEF Call, Phases
  <2>3. PICK q \in Call : q = [call[c] EXCEPT !.phase = p, !.after = "mint"]
    BY <2>2
  <2>4. q.phase = phase /\ q.kind = call[c].kind /\ q.uid = call[c].uid /\ q.after = "mint"
    BY <1>1, <2>1, <2>3 DEF Call
  <2>5. Moves(c, q)
    BY <2>1, <2>3 DEF Moves, CommitProfile, IInv, Typed
  <2>6. QED
    BY <2>4, <2>5
<1>8. /\ Announcing(q) <=> q.kind = "complete"
      /\ Committed(q) /\ ~Provisioning(q)
  BY <1>1, <1>7 DEF Announcing, Committed, Provisioning
<1>9. RouteOK(q)
  BY <1>1, <1>7, <1>8, PhaseTable DEF RouteOK
<1>10. CallOK(q)'
  <2>1. born' = born /\ Stands(q.uid)'
    BY <1>2, <1>4, <1>6, <1>7, Nones DEF Stands, Grown
  <2>2. q.uid <= born
    BY <1>1, <1>7 DEF CallOK
  <2>3. q.kind = "complete" => /\ account'.verified /\ account'.password = "chosen"
                               /\ account'.profile = "active"
    BY <1>3, <1>4, <1>5, <1>7
  <2>4. q.kind = "register" => account'.by = "register" /\ account'.profile # "none"
    BY <1>3, <1>4, <1>5, <1>7
  <2>5. QED
    BY <1>1, <1>7, <1>8, <2>1, <2>2, <2>3, <2>4 DEF CallOK
<1>11. account'.profile = "unverified" => account'.by = "register"
  BY <1>1, <1>3, <1>4, <1>5
<1>12. ActiveIsVerified'
  BY <1>1, <1>3, <1>4, <1>5 DEF ActiveIsVerified
<1>13. Duties(call[c], q)
  BY <1>2, <1>7, <1>8 DEF Duties, Fresh, Stands
<1>14. account'.profile = "active" => Announcing(q) /\ q.uid = account.uid
  BY <1>1, <1>2, <1>3, <1>4, <1>7, <1>8
<1>15. HalfMadeIsAttended'
  <2>1. /\ call'[c] = q
        /\ \A d \in Calls \ {c} : Alike(call[d], call'[d])
    BY <1>7, Moved DEF IInv, Alike
  <2>2. app' = app /\ faults' = faults /\ crashes' = crashes
    BY DEF CommitProfile
  <2>3. account'.by # "start" =>
          \/ account'.profile = "active" /\ account'.role = app.eligible
          \/ account'.by = "register" /\ account'.profile # "none"
    <3>1. account'.role = r
      BY <1>2, <1>3 DEF Account
    <3>2. QED
      BY <1>1, <1>3, <1>4, <1>5, <3>1
  <2>4. QED
    BY <2>1, <2>2, <2>3, TypeFacts, AttendedStill
<1>16. QED
  BY <1>1, <1>2, <1>4, <1>6, <1>7, <1>9, <1>10, <1>11, <1>12, <1>13, <1>14, <1>15,
     TypeFacts, Grows
  DEF CommitProfile

\* A new identity of an eligible app gets its profile, active at once.
LEMMA ProvisionStep ==
  ASSUME IInv, NEW c \in Calls, ProvisionSaUser(c), UNCHANGED tab
  PROVE  IInv'
<1>1. /\ call[c] \in Call /\ RouteOK(call[c]) /\ CallOK(call[c])
      /\ call[c].kind = "social" /\ call[c].phase = "provision"
      /\ call[c].uid # None /\ ~Announcing(call[c]) /\ app.eligible
  BY TypeFacts DEF ProvisionSaUser, At, RouteOK, Announcing
<1>2. ASSUME Holds(c), account.profile = "none",
             account' = [account EXCEPT !.profile = "active"], Go(c, "role"),
             UNCHANGED faults
      PROVE  IInv'
  <2>1. account # None /\ account \in Account /\ account.uid = call[c].uid
    BY <1>2, TypeFacts DEF Holds
  <2>2. /\ account' \in Account /\ account'.profile = "active"
        /\ account'.uid = account.uid /\ account'.by = account.by
        /\ account'.verified = account.verified /\ account'.password = account.password
    BY <1>2, <2>1 DEF Account
  <2>3. account.by = "social"
    BY <1>1, <2>1 DEF CallOK, Stands
  <2>4. Grown
    BY <1>2, <2>1, <2>2, Nones DEF Grown, ProvisionSaUser
  <2>5. PICK q \in Call :
          Moves(c, q) /\ q.phase = "role" /\ q.kind = call[c].kind /\ q.uid = call[c].uid
    BY <1>2, GoMoves DEF IInv, Phases
  <2>6. ~Announcing(q) /\ Provisioning(q) /\ Committed(q)
    BY <1>1, <2>5 DEF Announcing, Provisioning, Committed
  <2>7. RouteOK(q)
    BY <1>1, <2>5, <2>6, PhaseTable DEF RouteOK
  <2>8. CallOK(q)'
    BY <1>1, <2>1, <2>2, <2>3, <2>5, <2>6, Nones DEF CallOK, Stands, ProvisionSaUser
  <2>9. ActiveIsVerified' /\ account'.profile # "unverified"
    BY <2>2, <2>3 DEF ActiveIsVerified
  <2>10. Duties(call[c], q)
    BY <1>2, <2>1, <2>5, <2>6 DEF Duties, Fresh, Stands
  <2>11. HalfMadeIsAttended'
    <3>1. call'[c] = q
      BY <2>5, Moved DEF IInv
    <3>2. q.uid = account'.uid
      BY <2>1, <2>2, <2>5
    <3>3. SocialTends(call[c])'
      BY <1>1, <2>5, <3>1, <3>2 DEF SocialTends
    <3>4. AttendedSocial' /\ account'.by = "social"
      BY <2>2, <2>3, <3>3 DEF AttendedSocial
    <3>5. QED
      BY <3>4 DEF HalfMadeIsAttended
  <2>12. QED
    BY <1>1, <1>2, <2>1, <2>2, <2>3, <2>4, <2>5, <2>7, <2>8, <2>9, <2>10, <2>11,
       TypeFacts, Grows
    DEF ProvisionSaUser
<1>3. ASSUME IF Holds(c) /\ account.profile = "none" THEN Fault ELSE UNCHANGED faults,
             Go(c, "undoUser"), UNCHANGED account
      PROVE  IInv'
  <2>1. "undoUser" \in PhasesOf(call[c].kind)
    BY <1>1, PhaseTable
  <2>2. account # None =>
          /\ ~RegisterTends(call[c])
          /\ SocialTends(call[c]) => account.profile = "none" /\ faults' >= 1
    BY <1>1, <1>3, TypeFacts DEF RegisterTends, SocialTends, Holds, Fault
  <2>3. ToleratedFaults \in 0..1
    BY DEF ToleratedFaults
  <2>4. account # None =>
          \/ ~Attendant(call[c])
          \/ /\ RegisterTends(call[c]) /\ account.profile = "none" => faults' >= 1
             /\ SocialTends(call[c]) => faults' >= ToleratedFaults /\ account.profile = "none"
    <3>1. faults' \in Nat
      BY <1>3, TypeFacts DEF Fault
    <3>2. QED
      BY <2>2, <2>3, <3>1
  <2>5. QED
    BY <1>1, <1>3, <2>1, <2>4, TypeFacts, GoQuietly DEF ProvisionSaUser
<1>4. QED
  BY <1>2, <1>3 DEF ProvisionSaUser

LEMMA AssignDefaultRoleStep ==
  ASSUME IInv, NEW c \in Calls, AssignDefaultRole(c), UNCHANGED tab
  PROVE  IInv'
<1>1. /\ call[c] \in Call /\ RouteOK(call[c]) /\ CallOK(call[c])
      /\ call[c].kind = "social" /\ call[c].phase = "role"
      /\ call[c].uid # None /\ ~Announcing(call[c]) /\ app.eligible
      /\ Committed(call[c]) /\ Provisioning(call[c])
  BY TypeFacts DEF AssignDefaultRole, At, RouteOK, Announcing, Committed, Provisioning
<1>2. /\ account # None /\ account \in Account /\ account.uid = call[c].uid
      /\ account.profile = "active" /\ account.by = "social"
  BY <1>1, TypeFacts DEF CallOK, Stands
<1>3. ASSUME account' = [account EXCEPT !.role = TRUE], Go(c, "gate"), UNCHANGED faults
      PROVE  IInv'
  <2>2. /\ account' \in Account /\ account'.role /\ account'.profile = "active"
        /\ account'.uid = account.uid /\ account'.by = account.by
        /\ account'.verified = account.verified /\ account'.password = account.password
    BY <1>2, <1>3 DEF Account
  <2>4. Grown
    BY <1>2, <2>2, Nones DEF Grown, AssignDefaultRole
  <2>5. PICK q \in Call :
          Moves(c, q) /\ q.phase = "gate" /\ q.kind = call[c].kind /\ q.uid = call[c].uid
    BY <1>3, GoMoves DEF IInv, Phases
  <2>6. ~Announcing(q) /\ ~Provisioning(q) /\ Committed(q)
    BY <1>1, <2>5 DEF Announcing, Provisioning, Committed
  <2>7. RouteOK(q)
    BY <1>1, <2>5, <2>6, PhaseTable DEF RouteOK
  <2>8. CallOK(q)'
    BY <1>1, <1>2, <2>2, <2>5, <2>6, Nones DEF CallOK, Stands, AssignDefaultRole
  <2>9. ActiveIsVerified' /\ account'.profile # "unverified"
    BY <1>2, <2>2 DEF ActiveIsVerified
  <2>10. Duties(call[c], q)
    BY <1>1, <2>5, <2>6 DEF Duties
  <2>11. HalfMadeIsAttended'
    <3>1. /\ call'[c] = q
          /\ \A d \in Calls \ {c} : Alike(call[d], call'[d])
      BY <2>5, Moved DEF IInv, Alike
    <3>2. app' = app /\ crashes' = crashes /\ app.eligible \in BOOLEAN
      BY TypeFacts DEF AssignDefaultRole, App
    <3>3. account'.profile = "active" /\ account'.role = app.eligible
      BY <1>1, <2>2, <3>2 DEF Account
    <3>4. faults' = faults /\ faults \in Nat /\ crashes \in Nat
      BY <1>3, TypeFacts
    <3>5. account' # None /\ account'.by # "start" =>
            account'.profile = "active" /\ account'.role = app.eligible
      BY <3>3
    <3>6. QED
      BY <3>1, <3>2, <3>4, <3>5, AttendedStill
  <2>12. QED
    BY <1>1, <1>2, <1>3, <2>2, <2>4, <2>5, <2>7, <2>8, <2>9, <2>10, <2>11, TypeFacts, Grows
    DEF AssignDefaultRole
<1>4. ASSUME Fault, Go(c, "undoProfile"), UNCHANGED account
      PROVE  IInv'
  <2>1. "undoProfile" \in PhasesOf(call[c].kind) /\ ~RegisterTends(call[c])
    BY <1>1, PhaseTable DEF RegisterTends
  <2>2. faults' >= ToleratedFaults /\ faults' >= 1
    BY <1>4, TypeFacts DEF ToleratedFaults, Fault
  <2>3. QED
    BY <1>1, <1>4, <2>1, <2>2, TypeFacts, GoQuietly DEF AssignDefaultRole
<1>5. QED
  BY <1>3, <1>4 DEF AssignDefaultRole

-----------------------------------------------------------------------------
(* Steps that take the account or its profile away *)

\* An account without a profile: nobody has a duty to it or was told of it.
LEMMA NobodyWasTold ==
  ASSUME IInv, account # None, account.profile = "none"
  PROVE  /\ \A d \in Calls : ~Committed(call[d])
         /\ \A d \in Calls : Announcing(call[d]) => call[d].uid # account.uid
         /\ \A t \in Tabs : tab[t].uid = None
         /\ \A n \in received : n[1] # account.uid
<1>1. account.uid \in Uids
  BY TypeFacts DEF Account
<1>2. \A d \in Calls : ~Committed(call[d])
  BY TypeFacts DEF CallOK
<1>3. \A d \in Calls : Announcing(call[d]) => call[d].uid # account.uid
  BY <1>1, TypeFacts, Nones DEF CallOK, Stands
<1>4. \A t \in Tabs : tab[t].uid = None
  BY DEF IInv, DoneStaysDone
<1>5. \A n \in received : n[1] # account.uid
  BY DEF IInv, Shared, OneAnnouncer, Stands
<1>6. QED
  BY <1>2, <1>3, <1>4, <1>5

\* A handler that is ended, or goes on to the compensation, has no duty any more.
Dismissed(p, q) ==
  /\ ~Committed(q) /\ ~Announcing(q) /\ ~Provisioning(q)
  /\ \/ q.uid = None
     \/ /\ q.uid = p.uid /\ q.kind = p.kind /\ q.kind \in {"register", "complete", "social"}
        /\ q.phase \in {"undoUser", "answered"}

LEMMA NothingGained ==
  ASSUME IInv, Typed', UNCHANGED <<app, born, received, tab>>,
         \A d \in Calls :
           Alike(call[d], call'[d]) \/ (Dismissed(call[d], call'[d]) /\ RouteOK(call[d])'),
         account' # None =>
           /\ account # None /\ account'.uid = account.uid /\ account'.by = account.by
           /\ account'.verified = account.verified /\ account'.password = account.password
           /\ account'.profile \in {account.profile, "none"},
         account # None /\ (account' = None \/ account'.profile # account.profile) =>
           /\ \A d \in Calls :
                Committed(call'[d]) \/ Announcing(call'[d]) => call'[d].uid # account.uid
           /\ \A t \in Tabs : tab[t].uid # account.uid
           /\ \A n \in received : n[1] # account.uid,
         faults \in Nat, faults' \in Nat, faults' >= faults,
         ActivationIsTold', HalfMadeIsAttended'
  PROVE  IInv'
<1>1. /\ \A d \in Calls : call[d] \in Call /\ RouteOK(call[d]) /\ CallOK(call[d])
                             /\ UndoneForCause(call[d])
      /\ AccountOK /\ TakenBackUntold /\ OneAnnouncer /\ DoneStaysDone /\ ActiveIsVerified
  BY DEF IInv, Shared, Typed
<1>2. ASSUME NEW d \in Calls
      PROVE  /\ RouteOK(call[d])'
             /\ call'[d].uid \in {call[d].uid, None}
             /\ Committed(call'[d]) \/ Announcing(call'[d]) \/ Provisioning(call'[d]) =>
                  Alike(call[d], call'[d])
  <2>1. PICK p : p = call'[d] /\ (Alike(call[d], p) \/ Dismissed(call[d], p))
    BY DEF Dismissed
  <2>2. CASE Alike(call[d], p)
    <3>1. RouteOK(p)'
      BY <1>1, <2>2, AlikeRoute
    <3>2. RouteOK(call[d])'
      BY <2>1, <3>1 DEF RouteOK
    <3>3. QED
      BY <2>1, <2>2, <3>2 DEF Alike
  <2>3. CASE ~Alike(call[d], p)
    BY <2>1, <2>3 DEF Dismissed
  <2>4. QED
    BY <2>2, <2>3
<1>3. \A d \in Calls : Alike(call[d], call'[d]) =>
        /\ call'[d].uid = call[d].uid /\ call'[d].kind = call[d].kind
        /\ call'[d].phase = call[d].phase /\ call'[d].nonce = call[d].nonce
        /\ Committed(call'[d]) <=> Committed(call[d])
        /\ Announcing(call'[d]) <=> Announcing(call[d])
        /\ Provisioning(call'[d]) <=> Provisioning(call[d])
  BY AlikeDuties
<1>4. AccountOK'
  BY <1>1 DEF AccountOK
<1>5. ActiveIsVerified'
  BY <1>1 DEF ActiveIsVerified
<1>6. ASSUME NEW d \in Calls
      PROVE  CallOK(call[d])'
  <2>1. call'[d].uid # None => call'[d].uid <= born'
    BY <1>1, <1>2 DEF CallOK
  <2>2. ASSUME call'[d].uid # None, Stands(call[d].uid)'
        PROVE  /\ call'[d].kind \in {"register", "social"} => account'.by = call'[d].kind
               /\ call'[d].kind = "complete" \/ (call'[d].kind = "link" /\ call'[d].phase # "mark")
                    => account'.verified
               /\ call'[d].kind = "complete" /\ call'[d].phase = "profile"
                    => account'.password = "chosen"
               /\ Announcing(call'[d]) => account'.profile = "active"
    <3>1. call'[d].uid = call[d].uid /\ Stands(call[d].uid) /\ call[d].uid = account.uid
      BY <1>2, <2>2 DEF Stands
    <3>2. call'[d].kind = call[d].kind
      BY <1>3, <2>2 DEF Dismissed
    <3>3. \/ call'[d].phase = call[d].phase
          \/ call'[d].kind # "link" /\ call'[d].phase # "profile"
      BY <1>3, <2>2 DEF Dismissed
    <3>4. Announcing(call'[d]) => Announcing(call[d]) /\ account'.profile = account.profile
      BY <1>2, <1>3, <2>2, <3>1 DEF Stands
    <3>5. QED
      BY <1>1, <2>2, <3>1, <3>2, <3>3, <3>4 DEF CallOK, Stands
  <2>3. ASSUME Committed(call'[d])
        PROVE  /\ Stands(call[d].uid)' /\ account'.profile # "none"
               /\ call'[d].kind # "register" => account'.profile = "active"
               /\ call'[d].kind = "complete" => account'.password = "chosen"
    <3>1. /\ Committed(call[d]) /\ call'[d].uid = call[d].uid /\ call'[d].kind = call[d].kind
      BY <1>2, <1>3, <2>3
    <3>2. Stands(call[d].uid)
      BY <1>1, <3>1 DEF CallOK
    <3>3. account' # None /\ account'.profile = account.profile
      BY <2>3, <3>1, <3>2 DEF Stands
    <3>4. QED
      BY <1>1, <3>1, <3>2, <3>3 DEF CallOK, Stands
  <2>4. QED
    BY <2>1, <2>2, <2>3 DEF CallOK
<1>7. TakenBackUntold'
  <2> SUFFICES ASSUME NEW e \in Calls, Provisioning(call'[e])
               PROVE  /\ \A d \in Calls \ {e} : call'[d].uid = call'[e].uid =>
                           ~Committed(call'[d]) /\ ~Announcing(call'[d])
                      /\ \A t \in Tabs : tab'[t].uid # call'[e].uid
                      /\ \A n \in received' : n[1] # call'[e].uid
    BY DEF TakenBackUntold
  <2>1. Provisioning(call[e]) /\ call'[e].uid = call[e].uid
    BY <1>2, <1>3
  <2>2. QED
    BY <1>1, <1>2, <1>3, <2>1 DEF TakenBackUntold
<1>8. OneAnnouncer'
  <2>1. \A d, e \in Calls :
          Announcing(call'[d]) /\ Announcing(call'[e]) /\ call'[d].uid = call'[e].uid => d = e
    BY <1>1, <1>2, <1>3 DEF OneAnnouncer
  <2>2. \A d \in Calls, n \in received' :
          Announcing(call'[d]) /\ n[1] = call'[d].uid =>
            call'[d].phase # "announce" /\ n = call'[d].nonce
    BY <1>1, <1>2, <1>3 DEF OneAnnouncer
  <2>3. \A n \in received' : n[1] <= born' /\ (Stands(n[1])' => account'.profile = "active")
    BY <1>1 DEF OneAnnouncer, Stands
  <2>4. \A m, n \in received' : m[1] = n[1] => m = n
    BY <1>1 DEF OneAnnouncer
  <2>5. QED
    BY <2>1, <2>2, <2>3, <2>4 DEF OneAnnouncer
<1>9. DoneStaysDone'
  BY <1>1 DEF DoneStaysDone
<1>10. \A d \in Calls : UndoneForCause(call[d])'
  BY <1>1 DEF UndoneForCause, Alike, Dismissed, Provisioning
<1>11. QED
  BY <1>2, <1>4, <1>5, <1>6, <1>7, <1>8, <1>9, <1>10 DEF IInv, Shared

LEMMA UndoProfileStep ==
  ASSUME IInv, NEW c \in Calls, UndoProfile(c), UNCHANGED tab
  PROVE  IInv'
<1>1. /\ call[c] \in Call /\ RouteOK(call[c]) /\ CallOK(call[c])
      /\ call[c].kind = "social" /\ call[c].phase = "undoProfile"
      /\ call[c].uid # None /\ ~Announcing(call[c]) /\ app.eligible
      /\ Committed(call[c]) /\ Provisioning(call[c])
      /\ "undoUser" \in PhasesOf(call[c].kind)
  BY TypeFacts, PhaseTable
  DEF UndoProfile, At, RouteOK, Announcing, Committed, Provisioning
<1>2. /\ account # None /\ account \in Account /\ account.uid = call[c].uid
      /\ account.by = "social" /\ ToleratedFaults = 1 /\ faults >= 1
  BY <1>1, TypeFacts DEF CallOK, Stands, ToleratedFaults, IInv, Shared, UndoneForCause
<1>3. ASSUME account' = [account EXCEPT !.profile = "none"], Go(c, "undoUser"),
             UNCHANGED faults
      PROVE  IInv'
  <2>1. /\ account' \in Account /\ account'.profile = "none"
        /\ account'.uid = account.uid /\ account'.by = account.by
        /\ account'.verified = account.verified /\ account'.password = account.password
    BY <1>2, <1>3 DEF Account
  <2>2. account' # None
    BY <2>1, Nones
  <2>3. PICK q \in Call :
          Moves(c, q) /\ q.phase = "undoUser" /\ q.kind = call[c].kind /\ q.uid = call[c].uid
    BY <1>3, GoMoves DEF IInv, Phases
  <2>4. /\ call' \in [Calls -> Call] /\ call'[c] = q
        /\ \A d \in Calls : d # c => call'[d] = call[d]
    BY <2>3, Moved DEF IInv
  <2>5. ~Announcing(q) /\ ~Provisioning(q) /\ ~Committed(q)
    BY <1>1, <2>3 DEF Announcing, Provisioning, Committed
  <2>6. RouteOK(q)'
    BY <1>1, <2>3, <2>5, PhaseTable DEF RouteOK, Announcing
  <2>7. \A d \in Calls :
          Alike(call[d], call'[d]) \/ (Dismissed(call[d], call'[d]) /\ RouteOK(call[d])')
    <3>1. Dismissed(call[c], call'[c])
      BY <1>1, <2>3, <2>4, <2>5 DEF Dismissed
    <3>2. RouteOK(call[c])'
      BY <2>4, <2>6 DEF RouteOK
    <3>3. \A d \in Calls : d # c => Alike(call[d], call'[d])
      BY <2>4 DEF Alike
    <3>4. QED
      BY <3>1, <3>2, <3>3
  <2>8. /\ \A d \in Calls :
             Committed(call'[d]) \/ Announcing(call'[d]) => call'[d].uid # account.uid
        /\ \A t \in Tabs : tab[t].uid # account.uid
        /\ \A n \in received : n[1] # account.uid
    BY <1>1, <1>2, <2>3, <2>4, <2>5 DEF IInv, Shared, TakenBackUntold
  <2>9. Typed'
    BY <1>3, <2>1, <2>4 DEF IInv, Typed, TypeOK, UndoProfile
  <2>10. ActivationIsTold'
    BY <2>1 DEF ActivationIsTold
  <2>11. HalfMadeIsAttended'
    <3>1. ToleratedFaults' = ToleratedFaults
      BY <2>1 DEF ToleratedFaults, UndoProfile
    <3>2. SocialTends(call[c])'
      BY <1>1, <1>2, <1>3, <2>1, <2>3, <2>4, <3>1 DEF SocialTends
    <3>3. QED
      BY <1>2, <2>1, <3>2 DEF HalfMadeIsAttended, AttendedSocial
  <2>12. QED
    BY <1>2, <1>3, <2>1, <2>2, <2>7, <2>8, <2>9, <2>10, <2>11, TypeFacts, NothingGained
    DEF UndoProfile
<1>4. ASSUME Fault, Go(c, "undoUser"), UNCHANGED account
      PROVE  IInv'
  <2>1. ~RegisterTends(call[c]) /\ ToleratedFaults' = 1
    BY <1>1, <1>2, <1>4 DEF RegisterTends, ToleratedFaults, UndoProfile
  <2>2. faults' > ToleratedFaults'
    BY <1>2, <1>4, <2>1, TypeFacts DEF Fault
  <2>3. QED
    BY <1>1, <1>4, <2>1, <2>2, TypeFacts, GoQuietly DEF UndoProfile
<1>5. QED
  BY <1>3, <1>4 DEF UndoProfile

\* The compensating delete takes an account that nobody has a duty to.
LEMMA UndoUserStep ==
  ASSUME IInv, NEW c \in Calls, UndoUser(c), UNCHANGED tab
  PROVE  IInv'
<1>1. /\ call[c] \in Call /\ RouteOK(call[c]) /\ CallOK(call[c])
      /\ call[c].kind \in {"register", "complete", "social"} /\ call[c].phase = "undoUser"
      /\ call[c].uid # None /\ ~Announcing(call[c])
  BY TypeFacts, KindsAt DEF UndoUser, RouteOK, Announcing
<1>2. PICK a \in {"error", "unavailable"} : Answer(c, a)
  BY DEF UndoUser
<1>3. a \in Answers
  BY DEF Answers
<1>4. ASSUME Holds(c), account.profile = "none", account' = None, UNCHANGED faults
      PROVE  IInv'
  <2>1. account # None /\ account.uid = call[c].uid
    BY <1>4 DEF Holds
  <2>2. PICK q \in Call :
          /\ Moves(c, q) /\ q.phase = "answered" /\ q.kind = call[c].kind /\ q.answer = a
          /\ q.uid \in {call[c].uid, None} /\ q.nonce = None
    BY <1>2, <1>3, AnswerMoves DEF IInv
  <2>3. /\ call' \in [Calls -> Call] /\ call'[c] = q
        /\ \A d \in Calls : d # c => call'[d] = call[d]
    BY <2>2, Moved DEF IInv
  <2>4. ~Announcing(q) /\ ~Provisioning(q) /\ ~Committed(q)
    BY <1>1, <2>2 DEF Announcing, Provisioning, Committed
  <2>5. RouteOK(q)'
    BY <1>1, <2>2, <2>4, PhaseTable DEF RouteOK, Announcing
  <2>6. \A d \in Calls :
          Alike(call[d], call'[d]) \/ (Dismissed(call[d], call'[d]) /\ RouteOK(call[d])')
    <3>1. Dismissed(call[c], call'[c])
      BY <1>1, <2>2, <2>3, <2>4 DEF Dismissed
    <3>2. RouteOK(call[c])'
      BY <2>3, <2>5 DEF RouteOK
    <3>3. \A d \in Calls : d # c => Alike(call[d], call'[d])
      BY <2>3 DEF Alike
    <3>4. QED
      BY <3>1, <3>2, <3>3
  <2>7. /\ \A d \in Calls :
             Committed(call'[d]) \/ Announcing(call'[d]) => call'[d].uid # account.uid
        /\ \A t \in Tabs : tab[t].uid # account.uid
        /\ \A n \in received : n[1] # account.uid
    BY <1>1, <1>4, <2>1, <2>2, <2>3, <2>4, NobodyWasTold
  <2>8. Typed'
    BY <1>4, <2>3 DEF IInv, Typed, TypeOK, UndoUser
  <2>9. ActivationIsTold' /\ HalfMadeIsAttended'
    BY <1>4 DEF ActivationIsTold, HalfMadeIsAttended
  <2>10. QED
    BY <1>4, <2>6, <2>7, <2>8, <2>9, TypeFacts, NothingGained DEF UndoUser
<1>5. ASSUME UNCHANGED account,
             Fault \/ (UNCHANGED faults /\ ~(Holds(c) /\ account.profile = "none"))
      PROVE  IInv'
  <2>1. ASSUME account # None
        PROVE  /\ RegisterTends(call[c]) /\ account.profile = "none" => faults' >= 2
               /\ SocialTends(call[c]) => faults' > ToleratedFaults'
    <3>1. RegisterTends(call[c]) /\ account.profile = "none" => Holds(c) /\ faults >= 1
      BY <1>1, <2>1 DEF RegisterTends, Holds
    <3>2. SocialTends(call[c]) =>
            Holds(c) /\ account.profile = "none" /\ faults >= ToleratedFaults
      BY <1>1, <2>1 DEF SocialTends, Holds
    <3>3. ToleratedFaults' = ToleratedFaults /\ ToleratedFaults \in Nat
      BY <1>5 DEF ToleratedFaults, UndoUser
    <3>4. QED
      BY <1>5, <3>1, <3>2, <3>3, TypeFacts DEF Fault
  <2>2. QED
    BY <1>1, <1>2, <1>3, <1>5, <2>1, TypeFacts, AnswerQuietly DEF UndoUser
<1>6. QED
  BY <1>4, <1>5 DEF UndoUser

\* The sweep takes unverified accounts without a profile.
LEMMA SweepStep ==
  ASSUME IInv, Sweep, UNCHANGED tab
  PROVE  IInv'
<1>1. account # None /\ account.profile = "none" /\ account' = None
  BY DEF Sweep, Sweepable
<1>2. call' = call /\ \A d \in Calls : Alike(call[d], call'[d])
  BY DEF Sweep, Alike
<1>3. /\ \A d \in Calls :
           Committed(call'[d]) \/ Announcing(call'[d]) => call'[d].uid # account.uid
      /\ \A t \in Tabs : tab[t].uid # account.uid
      /\ \A n \in received : n[1] # account.uid
  <2>1. account.uid # None
    BY <1>1, TypeFacts, Nones DEF Account
  <2>2. QED
    BY <1>1, <1>2, <2>1, NobodyWasTold
<1>4. Typed'
  BY <1>1 DEF Sweep, IInv, Typed, TypeOK
<1>5. ActivationIsTold' /\ HalfMadeIsAttended'
  BY <1>1 DEF ActivationIsTold, HalfMadeIsAttended
<1>6. QED
  BY <1>1, <1>2, <1>3, <1>4, <1>5, TypeFacts, NothingGained DEF Sweep

\* A restart ends whoever is at work; nothing is owed to anybody then but by those that
\* had answered.
LEMMA RestartStep ==
  ASSUME IInv, Restart, UNCHANGED tab
  PROVE  IInv'
<1>1. \A d \in Calls :
        /\ call'[d] \in Call
        /\ Alike(call[d], call'[d]) \/ (Dismissed(call[d], call'[d]) /\ RouteOK(call[d])')
  <2> SUFFICES ASSUME NEW d \in Calls
               PROVE  /\ call'[d] \in Call
                      /\ \/ Alike(call[d], call'[d])
                         \/ Dismissed(call[d], call'[d]) /\ RouteOK(call[d])'
    OBVIOUS
  <2>1. call[d] \in Call /\ RouteOK(call[d])
    BY TypeFacts
  <2>2. CASE call[d].phase \in {"idle", "answered"}
    BY <2>1, <2>2 DEF Restart, Alike
  <2>3. CASE call[d].phase \notin {"idle", "answered"}
    <3>1. PICK a \in Answers : a = "error"
      BY DEF Answers
    <3>2. PICK q \in Call :
            q = [IdleCall EXCEPT !.kind = call[d].kind, !.phase = "answered", !.answer = a]
      <4>1. [IdleCall EXCEPT !.kind = call[d].kind, !.phase = "answered", !.answer = a] \in Call
        BY <2>1, IdleOK DEF Call, Phases
      <4>2. QED
        BY <4>1
    <3>3. /\ q.kind = call[d].kind /\ q.phase = "answered" /\ q.answer = "error"
          /\ q.uid = None
      BY <2>1, <3>1, <3>2, IdleOK DEF Call, Phases
    <3>4. call'[d] = q
      BY <2>3, <3>1, <3>2 DEF Restart
    <3>5. ~Committed(q) /\ ~Announcing(q) /\ ~Provisioning(q)
      BY <3>3 DEF Announcing, Provisioning, Committed
    <3>6. Dismissed(call[d], q)
      BY <3>3, <3>5 DEF Dismissed
    <3>7. call[d].kind # "none"
      BY <2>1, <2>3, PhaseTable DEF RouteOK
    <3>8. RouteOK(q)'
      <4>1. q.phase \in PhasesOf(q.kind)
        BY <2>1, <3>3, <3>7, PhaseTable DEF Call, Kinds
      <4>2. QED
        BY <3>3, <3>5, <4>1 DEF RouteOK, Announcing
    <3>9. RouteOK(call[d])'
      BY <3>4, <3>8 DEF RouteOK
    <3>10. QED
      BY <3>4, <3>6, <3>9
  <2>4. QED
    BY <2>2, <2>3
<1>2. /\ crashes' \in 0..MaxTrouble /\ crashes' # 0 /\ faults + crashes' > 0
  <2>1. faults + crashes < MaxTrouble /\ crashes' = crashes + 1
    BY DEF Restart
  <2>2. QED
    BY <2>1, TypeFacts, BoundsAssumption
<1>3. Typed'
  <2>1. call' \in [Calls -> Call]
    BY <1>1 DEF Restart
  <2>2. QED
    BY <1>2, <2>1 DEF Restart, IInv, Typed, TypeOK
<1>4. ActivationIsTold' /\ HalfMadeIsAttended'
  BY <1>2 DEF ActivationIsTold, HalfMadeIsAttended, Restart
<1>5. UNCHANGED <<app, account, born, received, faults, tab>>
  BY DEF Restart
<1>6. QED
  BY <1>1, <1>3, <1>4, <1>5, TypeFacts, NothingGained

LEMMA AgeStep ==
  ASSUME IInv, Age, UNCHANGED tab
  PROVE  IInv'
<1>1. account # None /\ account \in Account /\ account' = [account EXCEPT !.aged = TRUE]
  BY TypeFacts DEF Age
<1>2. /\ account' \in Account /\ account'.profile = account.profile
      /\ account'.uid = account.uid /\ account'.by = account.by
      /\ account'.verified = account.verified /\ account'.password = account.password
      /\ account'.role = account.role /\ (account.stranded => account'.stranded)
  BY <1>1 DEF Account
<1>3. UNCHANGED <<app, born, otp, inbox, call, received, audited, faults, crashes, tab>>
  BY DEF Age
<1>4. \A d \in Calls : Alike(call[d], call'[d])
  BY <1>3 DEF Alike
<1>5. Typed'
  BY <1>2, <1>3 DEF IInv, Typed, TypeOK
<1>6. ActivationIsTold'
  BY <1>1, <1>2, <1>3 DEF IInv, ActivationIsTold, Announcing
<1>7. HalfMadeIsAttended'
  <2>1. ToleratedFaults' = ToleratedFaults
    BY <1>2, <1>3 DEF ToleratedFaults
  <2>2. \A d \in Calls : /\ RegisterTends(call[d]) => RegisterTends(call[d])'
                         /\ SocialTends(call[d]) => SocialTends(call[d])'
    BY <1>2, <1>3, <2>1 DEF RegisterTends, SocialTends
  <2>3. AttendedRegister => AttendedRegister'
    BY <1>2, <1>3, <2>2 DEF AttendedRegister
  <2>4. AttendedSocial => AttendedSocial'
    BY <1>2, <1>3, <2>1, <2>2 DEF AttendedSocial
  <2>5. QED
    BY <1>1, <1>2, <1>3, <2>3, <2>4 DEF IInv, HalfMadeIsAttended
<1>8. /\ account' # None
      /\ UNCHANGED <<app, born, received, tab>> /\ faults' = faults /\ faults \in Nat
  BY <1>2, <1>3, TypeFacts, Nones
<1>9. /\ account'.uid = account.uid /\ account'.by = account.by
      /\ account'.verified = account.verified /\ account'.password = account.password
      /\ account'.profile \in {account.profile, "none"}
      /\ ~(account' = None \/ account'.profile # account.profile)
  BY <1>2, <1>8
<1>10. QED
  BY <1>1, <1>4, <1>5, <1>6, <1>7, <1>8, <1>9, NothingGained

LEMMA OtpExpiresStep ==
  ASSUME IInv, OtpExpires, UNCHANGED tab
  PROVE  IInv'
<1>1. otp' \in {None} \cup Otp
  BY TypeFacts DEF OtpExpires, Otp
<1>2. UNCHANGED <<app, account, born, inbox, call, received, audited, faults, crashes, tab>>
  BY DEF OtpExpires
<1>3. \A d \in Calls : Alike(call[d], call'[d])
  BY <1>2 DEF Alike
<1>4. Typed'
  BY <1>1, <1>2 DEF IInv, Typed, TypeOK
<1>5. ActivationIsTold' /\ HalfMadeIsAttended'
  BY <1>2 DEF IInv, ActivationIsTold, Announcing, HalfMadeIsAttended, AttendedRegister,
              AttendedSocial, RegisterTends, SocialTends, ToleratedFaults
<1>6. QED
  BY <1>2, <1>3, <1>4, <1>5, TypeFacts, NothingGained

\* The request, and its repetition, carry the announcer's nonce.
LEMMA PostOnceStep ==
  ASSUME IInv, NEW c \in Calls, PostOnce(c), UNCHANGED tab
  PROVE  IInv'
<1>1. /\ call[c] \in Call /\ RouteOK(call[c]) /\ CallOK(call[c])
      /\ call[c].phase \in {"post", "repost"}
      /\ Announcing(call[c]) /\ call[c].uid # None /\ call[c].uid \in Uids
      /\ call[c].kind \in {"complete", "link"} /\ ~Attendant(call[c])
  BY TypeFacts, KindsAt DEF PostOnce, RouteOK, Announcing, Attendant, Call
<1>2. /\ call[c].nonce \in Uids \X {1, 2} /\ call[c].nonce[1] = call[c].uid
      /\ call[c].nonce \in {call[c].uid} \X {1, 2}
  BY <1>1 DEF RouteOK
<1>3. PICK next \in {"repost", "audit"} :
        /\ Go(c, next)
        /\ received' = received \/ received' = received \cup {call[c].nonce}
  BY DEF PostOnce
<1>4. PICK q \in Call :
        /\ Moves(c, q) /\ q.phase = next /\ q.kind = call[c].kind /\ q.uid = call[c].uid
        /\ q.nonce = call[c].nonce /\ q.after = call[c].after
  BY <1>3, GoMoves DEF IInv, Phases
<1>5. Announcing(q) /\ ~Provisioning(q) /\ (Committed(q) => Committed(call[c]))
  BY <1>1, <1>4 DEF Announcing, Provisioning, Committed
<1>6. RouteOK(q)
  <2>1. q.phase \in PhasesOf(q.kind)
    BY <1>1, <1>4, PhaseTable
  <2>2. /\ q.kind = "link" => q.after = "answered"
        /\ q.kind = "complete" => q.after \in {"password", "mint"}
    BY <1>1, <1>4 DEF RouteOK
  <2>3. QED
    BY <1>1, <1>2, <1>4, <1>5, <2>1, <2>2 DEF RouteOK
<1>7. CallOK(q)
  BY <1>1, <1>4, <1>5 DEF CallOK
<1>8. Duties(call[c], q) /\ UndoneForCause(q)'
  BY <1>1, <1>4, <1>5 DEF Duties, UndoneForCause, IInv, Shared, OneAnnouncer
<1>9. \/ UNCHANGED received
      \/ Delivered(call[c], q) /\ received' \subseteq Uids \X {1, 2}
  <2>1. received \subseteq Uids \X {1, 2}
    BY DEF IInv, Typed, TypeOK
  <2>2. QED
    BY <1>1, <1>2, <1>3, <1>4, <1>5, <2>1 DEF Delivered
<1>10. /\ UNCHANGED <<app, account, born, otp, inbox, audited, faults, crashes, tab>>
       /\ audited' \subseteq Uids /\ tab' \in [Tabs -> Tab]
  BY DEF PostOnce, IInv, Typed, TypeOK
<1>11. QED
  BY <1>1, <1>4, <1>5, <1>6, <1>7, <1>8, <1>9, <1>10, NobodyHears, TypeFacts, Quiet

-----------------------------------------------------------------------------
(* A new account *)

\* Its id was never given before, so nobody knows of it but the handler that made it.
LEMMA CreatedStep ==
  ASSUME IInv, NEW c \in Calls, NEW by \in {"register", "start", "social"},
         NEW verified \in BOOLEAN, NEW password \in {"none", "placeholder", "chosen"},
         NEW phase \in {"readBack", "createOtp", "eligibility"},
         CreateAccount(c, by, verified, password, phase), UNCHANGED tab,
         call[c].kind = by, call[c].phase = "signUp",
         by = "register" => phase = "readBack",
         by = "start" => phase = "createOtp",
         by = "social" => phase = "eligibility"
  PROVE  IInv'
<1>1. /\ call[c] \in Call /\ RouteOK(call[c]) /\ CallOK(call[c])
      /\ account = None /\ born \in Nat /\ born' = born + 1 /\ born + 1 \in Uids
      /\ born' \in 0..MaxAccounts /\ app.eligible \in BOOLEAN
      /\ UNCHANGED <<app, otp, inbox, received, audited, faults, crashes, tab>>
  BY TypeFacts, BoundsAssumption DEF CreateAccount, IInv, Typed, TypeOK, Uids, App
<1>2. PICK uid \in Uids : uid = born + 1
  BY <1>1
<1>3. account' = [uid |-> uid, by |-> by, verified |-> verified, aged |-> FALSE,
                  password |-> password, profile |-> "none", role |-> FALSE,
                  stranded |-> FALSE]
  BY <1>2 DEF CreateAccount, NewAccount
<1>4. /\ account' \in Account /\ account'.uid = uid /\ account'.by = by
      /\ account'.profile = "none"
  BY <1>3 DEF Account
<1>5. account' # None /\ uid # None
  BY <1>4, Nones
<1>6. PICK q \in Call :
        /\ Moves(c, q) /\ q.phase = phase /\ q.kind = by /\ q.uid = uid
  <2>1. [call[c] EXCEPT !.uid = uid, !.phase = phase] \in Call
    BY <1>1 DEF Call, Phases
  <2>2. PICK q \in Call : q = [call[c] EXCEPT !.uid = uid, !.phase = phase]
    BY <2>1
  <2>3. q.phase = phase /\ q.kind = by /\ q.uid = uid
    BY <1>1, <2>2 DEF Call
  <2>4. Moves(c, q)
    BY <1>2, <2>2 DEF Moves, CreateAccount, IInv, Typed
  <2>5. QED
    BY <2>3, <2>4
<1>7. /\ call' \in [Calls -> Call] /\ call'[c] = q
      /\ \A d \in Calls : d # c => call'[d] = call[d]
  BY <1>6, Moved DEF IInv
<1>8. ~Announcing(q) /\ ~Provisioning(q) /\ ~Committed(q)
  BY <1>6 DEF Announcing, Provisioning, Committed
<1>9. \A d \in Calls : /\ RouteOK(call[d]) /\ CallOK(call[d]) /\ UndoneForCause(call[d])
                       /\ ~Committed(call[d]) /\ ~Provisioning(call[d])
                       /\ call[d].uid # None => call[d].uid <= born /\ call[d].uid # uid
                       /\ call[d].uid \in Uids \cup {None}
  <2> SUFFICES ASSUME NEW d \in Calls
               PROVE  /\ RouteOK(call[d]) /\ CallOK(call[d]) /\ UndoneForCause(call[d])
                      /\ ~Committed(call[d]) /\ ~Provisioning(call[d])
                      /\ call[d].uid # None => call[d].uid <= born /\ call[d].uid # uid
                      /\ call[d].uid \in Uids \cup {None}
    OBVIOUS
  <2>1. RouteOK(call[d]) /\ CallOK(call[d]) /\ UndoneForCause(call[d]) /\ call[d] \in Call
    BY TypeFacts DEF IInv, Shared
  <2>2. ~Committed(call[d])
    BY <1>1, <2>1 DEF CallOK, Stands
  <2>3. ~Provisioning(call[d])
    BY <2>2 DEF Provisioning, Committed
  <2>4. call[d].uid \in Uids \cup {None}
    BY <2>1 DEF Call
  <2>5. call[d].uid # None => call[d].uid <= born
    BY <2>1 DEF CallOK
  <2>6. call[d].uid # None => call[d].uid # uid
    BY <1>1, <1>2, <2>4, <2>5 DEF Uids
  <2>7. QED
    BY <2>1, <2>2, <2>3, <2>4, <2>5, <2>6
<1>10. Typed'
  BY <1>1, <1>4, <1>7 DEF IInv, Typed, TypeOK
<1>11. AccountOK' /\ ActiveIsVerified' /\ ActivationIsTold'
  BY <1>1, <1>2, <1>4 DEF AccountOK, ActiveIsVerified, ActivationIsTold, Uids
<1>12. \A d \in Calls : RouteOK(call[d])' /\ CallOK(call[d])' /\ UndoneForCause(call[d])'
  <2>1. RouteOK(q)'
    BY <1>1, <1>5, <1>6, <1>8, PhaseTable DEF RouteOK, Announcing
  <2>2. CallOK(q)'
    BY <1>1, <1>2, <1>4, <1>6, <1>8 DEF CallOK, Stands, Uids
  <2>3. UndoneForCause(q)'
    BY <1>6 DEF UndoneForCause
  <2>4. ASSUME NEW d \in Calls, d # c
        PROVE  RouteOK(call[d])' /\ CallOK(call[d])' /\ UndoneForCause(call[d])'
    <3>1. call'[d] = call[d]
      BY <1>7, <2>4
    <3>2. RouteOK(call[d])' /\ UndoneForCause(call[d])'
      BY <1>1, <1>9, <3>1 DEF RouteOK, UndoneForCause
    <3>3. call[d].uid # None => call[d].uid <= born' /\ ~Stands(call[d].uid)'
      BY <1>1, <1>2, <1>4, <1>9, <3>1 DEF Stands, Uids
    <3>4. CallOK(call[d])'
      BY <1>9, <3>1, <3>3 DEF CallOK
    <3>5. QED
      BY <3>2, <3>4
  <2>5. RouteOK(call[c])' /\ CallOK(call[c])' /\ UndoneForCause(call[c])'
    BY <1>7, <2>1, <2>2, <2>3 DEF RouteOK, CallOK, UndoneForCause
  <2>6. QED
    BY <2>4, <2>5
<1>13. TakenBackUntold'
  BY <1>7, <1>8, <1>9 DEF TakenBackUntold
<1>14. OneAnnouncer'
  <2>1. OneAnnouncer /\ received \subseteq Uids \X {1, 2}
    BY DEF IInv, Shared, Typed, TypeOK
  <2>2. \A n \in received : n[1] \in Nat /\ n[1] <= born' /\ ~Stands(n[1])'
    <3>1. \A n \in received : n[1] \in Nat /\ n[1] <= born
      BY <2>1 DEF OneAnnouncer, Uids
    <3>2. QED
      BY <1>1, <1>2, <1>4, <3>1 DEF Stands
  <2>3. \A d \in Calls : Announcing(call'[d]) => d # c /\ call'[d] = call[d]
    BY <1>7, <1>8
  <2>4. QED
    BY <1>1, <2>1, <2>2, <2>3 DEF OneAnnouncer
<1>15. DoneStaysDone'
  BY <1>1 DEF IInv, DoneStaysDone
<1>16. HalfMadeIsAttended'
  <2>1. by = "register" => RegisterTends(call[c])'
    BY <1>4, <1>6, <1>7 DEF RegisterTends
  <2>2. by = "social" => SocialTends(call[c])'
    BY <1>4, <1>6, <1>7 DEF SocialTends
  <2>3. QED
    BY <1>4, <2>1, <2>2 DEF HalfMadeIsAttended, AttendedRegister, AttendedSocial
<1>17. QED
  BY <1>10, <1>11, <1>12, <1>13, <1>14, <1>15, <1>16 DEF IInv, Shared

LEMMA SignUpStep ==
  ASSUME IInv, NEW c \in Calls,
         SignUpEmail(c) \/ SignUpPlaceholder(c) \/ SocialCallback(c), UNCHANGED tab
  PROVE  IInv'
<1>1. /\ call[c] \in Call /\ RouteOK(call[c]) /\ call[c].phase = "signUp"
      /\ call[c].kind \in {"register", "start", "social"}
      /\ call[c].uid = None /\ ~Announcing(call[c]) /\ ~Attendant(call[c])
  BY TypeFacts
  DEF SignUpEmail, SignUpPlaceholder, SocialCallback, At, RouteOK, Announcing, Attendant
<1>2. ASSUME NEW a \in {"error", "unavailable"}, Answer(c, a),
             UNCHANGED <<app, account, born, otp, inbox, received, audited, faults, crashes>>
      PROVE  IInv'
  <2>1. a \in Answers
    BY DEF Answers
  <2>2. QED
    BY <1>1, <1>2, <2>1, TypeFacts, AnswerQuietly
<1>3. CASE SignUpEmail(c)
  <2>1. call[c].kind = "register"
    BY <1>3 DEF SignUpEmail, At
  <2>2. CASE CreateAccount(c, "register", FALSE, "chosen", "readBack")
    BY <1>1, <2>1, <2>2, CreatedStep
  <2>3. QED
    BY <1>2, <1>3, <2>2 DEF SignUpEmail
<1>4. CASE SignUpPlaceholder(c)
  <2>1. call[c].kind = "start"
    BY <1>4 DEF SignUpPlaceholder, At
  <2>2. CASE CreateAccount(c, "start", FALSE, "placeholder", "createOtp")
    BY <1>1, <2>1, <2>2, CreatedStep
  <2>3. QED
    BY <1>2, <1>4, <2>2 DEF SignUpPlaceholder
<1>5. CASE SocialCallback(c)
  <2>1. call[c].kind = "social"
    BY <1>5 DEF SocialCallback, At
  <2>2. ASSUME NEW verified \in BOOLEAN,
               CreateAccount(c, "social", verified, "none", "eligibility")
        PROVE  IInv'
    BY <1>1, <2>1, <2>2, CreatedStep
  <2>3. QED
    BY <1>2, <1>5, <2>2 DEF SocialCallback
<1>6. QED
  BY <1>3, <1>4, <1>5

-----------------------------------------------------------------------------
(* The two reads between the new account and its first compensation *)

\* One that fails leaves the account as it is, and marked: nobody attends to it.
LEMMA StrandStep ==
  ASSUME IInv, NEW c \in Calls, Strand(c), UNCHANGED tab,
         call[c].kind # "none", ~Announcing(call[c]), ~Provisioning(call[c]),
         SocialTends(call[c]) => account.profile = "none"
  PROVE  IInv'
<1>1. /\ Fault /\ Answer(c, "error")
      /\ UNCHANGED <<app, born, otp, inbox, received, audited, crashes, tab>>
      /\ account' = IF Holds(c) THEN [account EXCEPT !.stranded = TRUE] ELSE account
  BY DEF Strand
<1>2. /\ faults \in Nat /\ faults' \in 0..MaxTrouble /\ faults' \in Nat /\ faults' >= faults
      /\ faults' > 0 /\ crashes \in Nat
  BY <1>1, TypeFacts, BoundsAssumption DEF Fault
<1>3. account' # None => account # None
  BY <1>1 DEF Holds
<1>4. account # None =>
        /\ account' \in Account
        /\ account'.uid = account.uid /\ account'.by = account.by
        /\ account'.verified = account.verified /\ account'.password = account.password
        /\ account'.profile = account.profile /\ account'.role = account.role
        /\ account.stranded => account'.stranded
        /\ Holds(c) => account'.stranded
  BY <1>1, TypeFacts DEF Account
<1>5. account # None => account' # None
  BY <1>4, Nones
<1>6. PICK q \in Call :
        /\ Moves(c, q) /\ q.phase = "answered" /\ q.kind = call[c].kind /\ q.answer = "error"
        /\ q.uid \in {call[c].uid, None} /\ q.nonce = None
  BY <1>1, AnswerMoves DEF IInv, Answers
<1>7. /\ call' \in [Calls -> Call] /\ call'[c] = q
      /\ \A d \in Calls : d # c => call'[d] = call[d]
  BY <1>6, Moved DEF IInv
<1>8. q.uid = None
  <2>1. q = [IdleCall EXCEPT !.kind = call[c].kind, !.phase = "answered", !.answer = "error",
               !.uid = None]
    BY <1>1, <1>6 DEF Moves, Answer, IInv, Typed
  <2>2. QED
    BY <2>1, IdleOK DEF Call
<1>9. ~Announcing(q) /\ ~Provisioning(q) /\ ~Committed(q)
  BY <1>6, <1>8 DEF Announcing, Provisioning, Committed
<1>10. RouteOK(q)'
  <2>1. q.phase \in PhasesOf(q.kind)
    BY <1>6, PhaseTable DEF Call, Kinds
  <2>2. QED
    BY <1>6, <1>8, <1>9, <2>1 DEF RouteOK, Announcing
<1>11. \A d \in Calls :
         Alike(call[d], call'[d]) \/ (Dismissed(call[d], call'[d]) /\ RouteOK(call[d])')
  <2>1. Dismissed(call[c], call'[c])
    BY <1>7, <1>8, <1>9 DEF Dismissed
  <2>2. RouteOK(call[c])'
    BY <1>7, <1>10 DEF RouteOK
  <2>3. QED
    BY <1>7, <2>1, <2>2 DEF Alike
<1>12. Typed'
  BY <1>1, <1>2, <1>3, <1>4, <1>7 DEF IInv, Typed, TypeOK
<1>13. \A d \in Calls \ {c} : Alike(call[d], call'[d])
  BY <1>7 DEF Alike
<1>14. ActivationIsTold'
  BY <1>1, <1>2 DEF ActivationIsTold
<1>15. RegisterTends(call[c]) \/ SocialTends(call[c]) => (account # None => Holds(c))
  BY DEF RegisterTends, SocialTends, Holds
<1>16. account' # None =>
         /\ RegisterTends(call[c]) => account'.stranded
         /\ SocialTends(call[c]) => account'.stranded /\ account'.profile = "none"
  BY <1>3, <1>4, <1>15
<1>17. HalfMadeIsAttended'
  BY <1>1, <1>2, <1>3, <1>4, <1>7, <1>13, <1>16, AttendedStill
<1>18. QED
  BY <1>1, <1>2, <1>3, <1>4, <1>5, <1>11, <1>12, <1>14, <1>17, NothingGained

LEMMA ReadBackStep ==
  ASSUME IInv, NEW c \in Calls, ReadBack(c), UNCHANGED tab
  PROVE  IInv'
<1>1. /\ call[c] \in Call /\ call[c].kind = "register" /\ call[c].phase = "readBack"
      /\ call[c].uid # None /\ ~Announcing(call[c]) /\ ~Provisioning(call[c])
      /\ ~SocialTends(call[c])
  BY TypeFacts DEF ReadBack, At, RouteOK, Announcing, Provisioning, SocialTends
<1>2. CASE Strand(c)
  BY <1>1, <1>2, StrandStep
<1>3. CASE ~Strand(c) /\ Holds(c)
  BY <1>1, <1>3, PhaseTable, TypeFacts, GoQuietly DEF ReadBack
<1>4. CASE ~Strand(c) /\ ~Holds(c)
  <2>1. account # None => ~RegisterTends(call[c])
    BY <1>4 DEF RegisterTends, Holds
  <2>2. "error" \in Answers
    BY DEF Answers
  <2>3. QED
    BY <1>1, <1>4, <2>1, <2>2, TypeFacts, AnswerQuietly DEF ReadBack
<1>5. QED
  BY <1>2, <1>3, <1>4

LEMMA ResolveEligibilityStep ==
  ASSUME IInv, NEW c \in Calls, ResolveEligibility(c), UNCHANGED tab
  PROVE  IInv'
<1>1. /\ call[c] \in Call /\ call[c].kind = "social" /\ call[c].phase = "eligibility"
      /\ call[c].uid # None /\ ~Announcing(call[c]) /\ ~Provisioning(call[c])
      /\ ~RegisterTends(call[c]) /\ (SocialTends(call[c]) => account.profile = "none")
  BY TypeFacts
  DEF ResolveEligibility, At, RouteOK, Announcing, Provisioning, RegisterTends, SocialTends
<1>2. CASE Strand(c)
  BY <1>1, <1>2, StrandStep
<1>3. CASE ~Strand(c) /\ app.eligible
  BY <1>1, <1>3, PhaseTable, TypeFacts, GoQuietly DEF ResolveEligibility, CanSocialSignup
<1>4. CASE ~Strand(c) /\ ~app.eligible
  <2>1. account # None /\ SocialTends(call[c]) => faults >= ToleratedFaults
    BY <1>1, <1>4, TypeFacts DEF SocialTends, CallOK, Stands, ToleratedFaults
  <2>2. Go(c, "undoUser") /\ "undoUser" \in PhasesOf(call[c].kind)
    BY <1>1, <1>4, PhaseTable DEF ResolveEligibility, CanSocialSignup
  <2>3. QED
    BY <1>1, <1>4, <2>1, <2>2, TypeFacts, GoQuietly DEF ResolveEligibility
<1>5. QED
  BY <1>2, <1>3, <1>4

-----------------------------------------------------------------------------
(* Another code *)

\* It turns the codes that others hold into wrong ones; nothing else changes for them.
LEMMA MintStep ==
  ASSUME IInv, NEW c \in Calls, Mint(c)
  PROVE  IInv'
<1>1. /\ call[c] \in Call /\ RouteOK(call[c]) /\ CallOK(call[c])
      /\ \/ call[c].kind = "start" /\ call[c].phase = "createOtp"
         \/ call[c].kind \in {"register", "mail"} /\ call[c].phase = "mail"
      /\ ~Announcing(call[c]) /\ ~Attendant(call[c])
  BY TypeFacts, KindsAt DEF Mint, CreateOtp, Minting, At, Announcing, Attendant
<1>0. /\ UNCHANGED <<app, account, born, received, audited, faults, crashes>>
      /\ otp' = FreshOtp /\ inbox' = inbox \ {Live}
  BY DEF Mint, CreateOtp
<1>2. /\ tab' = [t \in Tabs |-> [tab[t] EXCEPT !.otp = IF @ = Live THEN Wrong ELSE @]]
      /\ call' = [d \in Calls |->
           IF d = c THEN [call[d] EXCEPT !.phase = "sendCode", !.code = Live]
           ELSE [call[d] EXCEPT !.code = Wrong]]
  BY DEF Mint, CreateOtp
<1>3. PICK q \in Call :
        /\ call'[c] = q /\ q.phase = "sendCode" /\ q.kind = call[c].kind /\ q.uid = call[c].uid
  <2>1. [call[c] EXCEPT !.phase = "sendCode", !.code = Live] \in Call
    BY <1>1 DEF Call, Phases
  <2>2. PICK q \in Call : q = [call[c] EXCEPT !.phase = "sendCode", !.code = Live]
    BY <2>1
  <2>3. q.phase = "sendCode" /\ q.kind = call[c].kind /\ q.uid = call[c].uid
    BY <1>1, <2>2 DEF Call
  <2>4. QED
    BY <1>2, <2>2, <2>3
<1>4. \A d \in Calls \ {c} : call'[d] \in Call /\ Alike(call[d], call'[d])
  <2> SUFFICES ASSUME NEW d \in Calls, d # c
               PROVE  call'[d] \in Call /\ Alike(call[d], call'[d])
    OBVIOUS
  <2>1. call[d] \in Call
    BY TypeFacts
  <2>2. [call[d] EXCEPT !.code = Wrong] \in Call
    BY <2>1 DEF Call
  <2>3. PICK p \in Call : p = [call[d] EXCEPT !.code = Wrong]
    BY <2>2
  <2>4. Alike(call[d], p)
    BY <2>1, <2>3 DEF Call, Alike
  <2>5. QED
    BY <1>2, <2>3, <2>4
<1>5. /\ tab' \in [Tabs -> Tab]
      /\ \A t \in Tabs : tab'[t].uid = tab[t].uid /\ tab'[t].page = tab[t].page
  <2>1. \A t \in Tabs : [tab[t] EXCEPT !.otp = IF @ = Live THEN Wrong ELSE @] \in Tab
    BY TypeFacts DEF Tab
  <2>2. tab' \in [Tabs -> Tab]
    BY <1>2, <2>1
  <2>3. \A t \in Tabs : tab'[t].uid = tab[t].uid /\ tab'[t].page = tab[t].page
    BY <1>2, TypeFacts DEF Tab
  <2>4. QED
    BY <2>2, <2>3
<1>6. Typed'
  <2>1. call' \in [Calls -> Call]
    <3>1. \A d \in Calls : call'[d] \in Call
      BY <1>3, <1>4
    <3>2. QED
      BY <1>2, <3>1
  <2>2. otp' \in Otp
    BY <1>0, BoundsAssumption DEF FreshOtp, Otp
  <2>3. QED
    BY <1>0, <1>5, <2>1, <2>2 DEF IInv, Typed, TypeOK
<1>7. ~Announcing(q) /\ ~Provisioning(q) /\ (Committed(q) => Committed(call[c]))
  BY <1>1, <1>3 DEF Announcing, Provisioning, Committed
<1>8. RouteOK(q)' /\ CallOK(q)' /\ UndoneForCause(q)' /\ Duties(call[c], q)
  <2>1. q.phase \in PhasesOf(q.kind)
    BY <1>1, <1>3, PhaseTable
  <2>2. RouteOK(q)
    BY <1>1, <1>3, <1>7, <2>1 DEF RouteOK
  <2>3. CallOK(q) /\ UndoneForCause(q) /\ Duties(call[c], q)
    BY <1>1, <1>3, <1>7 DEF CallOK, UndoneForCause, Duties
  <2>4. QED
    BY <1>0, <2>2, <2>3 DEF RouteOK, CallOK, Stands, UndoneForCause
<1>9. ActivationIsTold'
  BY <1>0, <1>1, <1>3, <1>4, TypeFacts, ToldStill
<1>10. HalfMadeIsAttended'
  BY <1>0, <1>1, <1>3, <1>4, TypeFacts, AttendedStill
<1>11. /\ Grown /\ AccountOK' /\ ActiveIsVerified' /\ faults' >= faults /\ faults' \in Nat
       /\ \A t \in Tabs : Hears(t)
  BY <1>0, <1>5, TypeFacts DEF Grown, IInv, Shared, AccountOK, ActiveIsVerified, Hears
<1>12. QED
  BY <1>0, <1>3, <1>4, <1>6, <1>8, <1>9, <1>10, <1>11, TypeFacts, Step

LEMMA ServeStep ==
  ASSUME IInv, NEW c \in Calls, Serve(c), UNCHANGED tab
  PROVE  IInv'
BY AbortProfileStep, SendStep, MintRedirectStep, FailAfterProfileStep, FailStartStep,
   FindExistingStep, CheckStep, EnterSociallyStep, ResolveDeliveryStep, LogOutcomeStep,
   VerifyEmailOTPStep, MarkVerifiedStep, SetPasswordStep, AfterEmailVerificationStep,
   CommitProfileStep, ProvisionStep, AssignDefaultRoleStep, UndoProfileStep, UndoUserStep,
   PostOnceStep, SignUpStep, ReadBackStep, ResolveEligibilityStep
DEF Serve

-----------------------------------------------------------------------------
(* The pages: slots taken and freed, tabs told *)

\* A slot that nobody works in gets another record, without any duty.
LEMMA SlotStep ==
  ASSUME IInv, NEW c \in Calls, NEW q \in Call, Moves(c, q), ServerKeeps,
         tab' \in [Tabs -> Tab], \A t \in Tabs : Hears(t),
         call[c].phase \in {"idle", "answered"},
         RouteOK(q), CallOK(q), ~Committed(q), ~Announcing(q), ~Provisioning(q)
  PROVE  IInv'
<1>1. ~Announcing(call[c]) /\ ~Attendant(call[c])
  BY DEF Announcing, Attendant
<1>2. UNCHANGED <<app, account, born, otp, inbox, received, audited, faults, crashes>>
  BY DEF ServerKeeps
<1>3. Duties(call[c], q) /\ UndoneForCause(q)'
  BY DEF Duties, UndoneForCause, Provisioning
<1>4. audited' \subseteq Uids
  BY <1>2 DEF IInv, Typed, TypeOK
<1>5. QED
  BY <1>1, <1>2, <1>3, <1>4, TypeFacts, Quiet

LEMMA NoDuty ==
  ASSUME NEW q \in Call, q.uid = None, q.kind = "register" => q.phase \in {"signUp", "answered"},
         q.kind = "complete" => q.phase \in {"verifyOtp", "answered"},
         q.kind = "social" => q.phase \in {"signUp", "answered"},
         q.phase \in {"idle", "signUp", "lookup", "check", "verifyOtp", "mail", "answered"},
         q.phase \in PhasesOf(q.kind)
  PROVE  RouteOK(q) /\ CallOK(q) /\ ~Committed(q) /\ ~Announcing(q) /\ ~Provisioning(q)
BY DEF RouteOK, CallOK, Committed, Announcing, Provisioning

\* What a request starts with.
Starts ==
  {<<"register", "signUp">>, <<"start", "lookup">>, <<"verify", "check">>,
   <<"complete", "verifyOtp">>, <<"mail", "mail">>, <<"social", "signUp">>}

LEMMA BeginStep ==
  ASSUME IInv, NEW c \in Calls, NEW kind, NEW phase, <<kind, phase>> \in Starts,
         NEW code \in {Wrong, Live}, Begin(c, kind, phase, code), ServerKeeps,
         tab' \in [Tabs -> Tab], \A t \in Tabs : Hears(t)
  PROVE  IInv'
<1>1. kind \in Kinds /\ phase \in Phases /\ phase \in PhasesOf(kind)
  BY PhaseTable DEF Starts, Kinds, Phases
<1>2. PICK q \in Call :
        /\ Moves(c, q) /\ Idle(c) /\ q.phase = phase /\ q.kind = kind /\ q.uid = None
  BY <1>1, BeginMoves DEF IInv
<1>3. RouteOK(q) /\ CallOK(q) /\ ~Committed(q) /\ ~Announcing(q) /\ ~Provisioning(q)
  BY <1>1, <1>2, NoDuty DEF Starts
<1>4. QED
  BY <1>2, <1>3, SlotStep DEF Idle

LEMMA RefuseStep ==
  ASSUME IInv, NEW c \in Calls, NEW kind \in Kinds \ {"none"}, NEW why \in Answers,
         Refuse(c, kind, why), ServerKeeps,
         tab' \in [Tabs -> Tab], \A t \in Tabs : Hears(t)
  PROVE  IInv'
<1>1. PICK q \in Call :
        /\ Moves(c, q) /\ Idle(c) /\ q.phase = "answered" /\ q.kind = kind /\ q.uid = None
  BY RefuseMoves DEF IInv
<1>2. "answered" \in PhasesOf(kind)
  BY PhaseTable DEF Kinds
<1>3. RouteOK(q) /\ CallOK(q) /\ ~Committed(q) /\ ~Announcing(q) /\ ~Provisioning(q)
  BY <1>1, <1>2, NoDuty
<1>4. QED
  BY <1>1, <1>3, SlotStep DEF Idle

LEMMA FreedStep ==
  ASSUME IInv, NEW c \in Calls, call[c].phase = "answered",
         call' = [call EXCEPT ![c] = IdleCall], ServerKeeps,
         tab' \in [Tabs -> Tab], \A t \in Tabs : Hears(t)
  PROVE  IInv'
<1>1. PICK q \in Call : q = IdleCall
  BY IdleOK
<1>2. Moves(c, q) /\ q.kind = "none" /\ q.phase = "idle" /\ q.uid = None
  BY <1>1, IdleOK DEF Moves
<1>3. RouteOK(q) /\ CallOK(q) /\ ~Committed(q) /\ ~Announcing(q) /\ ~Provisioning(q)
  BY <1>2, NoDuty, PhaseTable
<1>4. QED
  BY <1>2, <1>3, SlotStep

\* Nothing but a tab changes.
LEMMA TabStep ==
  ASSUME IInv, UNCHANGED call, ServerKeeps, NEW c \in Calls,
         tab' \in [Tabs -> Tab], \A t \in Tabs : Hears(t)
  PROVE  IInv'
<1>1. PICK q \in Call : q = call[c]
  BY TypeFacts
<1>2. Moves(c, q)
  BY <1>1 DEF Moves, IInv, Typed
<1>3. UNCHANGED <<app, account, born, otp, inbox, received, audited, faults, crashes>>
  BY DEF ServerKeeps
<1>4. RouteOK(q) /\ CallOK(q) /\ UndoneForCause(q)
  BY <1>1 DEF IInv, Shared
<1>5. UndoneForCause(q)'
  BY <1>3, <1>4 DEF UndoneForCause
<1>6. Duties(call[c], q)
  <2>1. Announcing(q) => \A n \in received : n[1] = q.uid => n = q.nonce
    BY <1>1 DEF IInv, Shared, OneAnnouncer
  <2>2. QED
    BY <1>1, <2>1 DEF Duties
<1>7. account # None =>
        /\ RegisterTends(call[c]) => RegisterTends(q)'
        /\ SocialTends(call[c]) => SocialTends(q)'
  BY <1>1, <1>3 DEF RegisterTends, SocialTends, ToleratedFaults
<1>8. audited' \subseteq Uids
  BY <1>3 DEF IInv, Typed, TypeOK
<1>9. QED
  BY <1>1, <1>2, <1>3, <1>4, <1>5, <1>6, <1>7, <1>8, TypeFacts, Quiet

\* What a tab may be told, by the answer of its own request.
May(t, r) ==
  \/ r.uid = None
  \/ r.uid = tab[t].uid /\ (r.page = "ready" => tab[t].page = "ready")
  \/ \E d \in Calls :
       /\ Committed(call[d]) /\ call[d].phase = "answered" /\ r.uid = call[d].uid
       /\ r.page = "ready" => call[d].kind = "complete"

LEMMA TabMoves ==
  ASSUME IInv, NEW t \in Tabs, NEW r \in Tab, tab' = [tab EXCEPT ![t] = r], May(t, r)
  PROVE  tab' \in [Tabs -> Tab] /\ \A s \in Tabs : Hears(s)
<1>1. tab \in [Tabs -> Tab]
  BY TypeFacts
<1>2. tab' \in [Tabs -> Tab]
  BY <1>1
<1>3. Hears(t)
  BY <1>1 DEF Hears, May
<1>4. \A s \in Tabs : s # t => Hears(s)
  BY <1>1 DEF Hears
<1>5. QED
  BY <1>2, <1>3, <1>4

LEMMA TabKept ==
  ASSUME IInv, UNCHANGED tab
  PROVE  tab' \in [Tabs -> Tab] /\ \A s \in Tabs : Hears(s)
BY TypeFacts DEF Hears

LEMMA Leaves ==
  ASSUME IInv, NEW t \in Tabs, NEW uid \in {None} \cup Uids,
         NEW page \in {"app", "checkEmail", "ready", "provider", "oauthError", "consent",
                       "forbidden"},
         tab' = Leave(t, page, uid),
         uid = None \/ \E d \in Calls :
                         /\ Committed(call[d]) /\ call[d].phase = "answered"
                         /\ uid = call[d].uid /\ (page = "ready" => call[d].kind = "complete")
  PROVE  tab' \in [Tabs -> Tab] /\ \A s \in Tabs : Hears(s)
<1>1. NewTab \in Tab
  BY DEF NewTab, Tab
<1>2. [NewTab EXCEPT !.page = page, !.uid = uid] \in Tab
  BY <1>1 DEF Tab
<1>3. PICK r \in Tab : r = [NewTab EXCEPT !.page = page, !.uid = uid]
  BY <1>2
<1>4. r.page = page /\ r.uid = uid
  BY <1>1, <1>3 DEF Tab
<1>5. tab' = [tab EXCEPT ![t] = r]
  BY <1>3 DEF Leave
<1>6. QED
  BY <1>4, <1>5, TabMoves DEF May

\* A page changes something of its own, but not what it was told.
LEMMA Edits ==
  ASSUME IInv, NEW t \in Tabs, NEW r \in Tab, r.uid = tab[t].uid,
         r.page # "ready" \/ r.page = tab[t].page, tab' = [tab EXCEPT ![t] = r]
  PROVE  tab' \in [Tabs -> Tab] /\ \A s \in Tabs : Hears(s)
BY TabMoves DEF May

LEMMA PageEdits ==
  ASSUME IInv, NEW t \in Tabs, NEW page \in {"wizard", "form", "verifying", "expired",
                                             "invalid", "verified"},
         tab' = [tab EXCEPT ![t].page = page]
  PROVE  tab' \in [Tabs -> Tab] /\ \A s \in Tabs : Hears(s)
<1>1. tab[t] \in Tab
  BY TypeFacts
<1>2. PICK r \in Tab : r = [tab[t] EXCEPT !.page = page]
  BY <1>1 DEF Tab
<1>3. r.page = page /\ r.uid = tab[t].uid
  BY <1>1, <1>2 DEF Tab
<1>4. tab' = [tab EXCEPT ![t] = r]
  BY <1>2
<1>5. QED
  BY <1>3, <1>4, Edits

LEMMA WizardFields ==
  ASSUME IInv, NEW t \in Tabs
  PROVE  /\ tab[t].step \in {"email", "code", "password", "name"} /\ tab[t].captcha \in BOOLEAN
         /\ tab[t].otp \in {None, Wrong, Live} /\ tab[t].auto \in BOOLEAN
         /\ tab[t] \in Tab /\ tab[t].uid \in {None} \cup Uids
BY TypeFacts DEF Tab

LEMMA BackToEmailMoves ==
  ASSUME IInv, NEW t \in Tabs, tab' = BackToEmail(t)
  PROVE  tab' \in [Tabs -> Tab] /\ \A s \in Tabs : Hears(s)
<1>1. PICK r \in Tab : r = [tab[t] EXCEPT !.captcha = FALSE, !.otp = None, !.step = "email"]
  BY TypeFacts DEF Tab
<1>2. r.page = tab[t].page /\ r.uid = tab[t].uid
  BY <1>1, WizardFields DEF Tab
<1>3. tab' = [tab EXCEPT ![t] = r]
  BY <1>1 DEF BackToEmail
<1>4. QED
  BY <1>2, <1>3, Edits

LEMMA AwaitNewCodeMoves ==
  ASSUME IInv, NEW t \in Tabs, tab' = AwaitNewCode(t)
  PROVE  tab' \in [Tabs -> Tab] /\ \A s \in Tabs : Hears(s)
<1>1. PICK r \in Tab : r = [tab[t] EXCEPT !.otp = None, !.auto = TRUE, !.step = "code"]
  BY TypeFacts DEF Tab
<1>2. r.page = tab[t].page /\ r.uid = tab[t].uid
  BY <1>1, WizardFields DEF Tab
<1>3. tab' = [tab EXCEPT ![t] = r]
  BY <1>1 DEF AwaitNewCode
<1>4. QED
  BY <1>2, <1>3, Edits

LEMMA Slots ==
  ASSUME NEW t \in Tabs
  PROVE  Main(t) \in Calls
BY SlotsAssumption DEF Main

LEMMA OpenSignupStep ==
  ASSUME IInv, NEW t \in Tabs, OpenSignup(t)
  PROVE  IInv'
<1>1. PICK page \in {"wizard", "form"} : tab' = [tab EXCEPT ![t].page = page]
  BY DEF OpenSignup
<1>2. UNCHANGED call /\ ServerKeeps
  BY DEF OpenSignup
<1>3. QED
  BY <1>1, <1>2, Slots, PageEdits, TabStep

LEMMA CaptchaStep ==
  ASSUME IInv, NEW t \in Tabs, CaptchaChanges(t)
  PROVE  IInv'
<1>1. PICK b \in BOOLEAN : tab' = [tab EXCEPT ![t].captcha = b]
  BY WizardFields DEF CaptchaChanges
<1>2. PICK r \in Tab : r = [tab[t] EXCEPT !.captcha = b]
  BY WizardFields DEF Tab
<1>3. r.page = tab[t].page /\ r.uid = tab[t].uid /\ tab' = [tab EXCEPT ![t] = r]
  BY <1>1, <1>2, WizardFields DEF Tab
<1>4. UNCHANGED call /\ ServerKeeps
  BY DEF CaptchaChanges
<1>5. QED
  BY <1>3, <1>4, Slots, Edits, TabStep

LEMMA SubmitStep ==
  ASSUME IInv, NEW t \in Tabs,
         SubmitForm(t) \/ HandleEmailSubmit(t) \/ HandleNameSubmit(t) \/ PressVerify(t)
           \/ ResendLink(t)
  PROVE  IInv'
<1>1. UNCHANGED tab /\ ServerKeeps /\ Main(t) \in Calls
  BY Slots DEF SubmitForm, HandleEmailSubmit, HandleNameSubmit, PressVerify, ResendLink
<1>2. tab' \in [Tabs -> Tab] /\ \A s \in Tabs : Hears(s)
  BY <1>1, TabKept
<1>3. "error" \in Answers /\ {"register", "start", "complete"} \subseteq Kinds \ {"none"}
  BY DEF Answers, Kinds
<1>4. Wrong \in {Wrong, Live} /\ tab[t].otp \in {None, Wrong, Live}
  BY WizardFields
<1>5. ASSUME NEW kind \in {"register", "start", "complete"}, Refuse(Main(t), kind, "error")
      PROVE  IInv'
  BY <1>1, <1>2, <1>3, <1>5, RefuseStep
<1>6. ASSUME NEW kind, NEW phase, <<kind, phase>> \in Starts, NEW code \in {Wrong, Live},
             Begin(Main(t), kind, phase, code)
      PROVE  IInv'
  BY <1>1, <1>2, <1>6, BeginStep
<1>7. CASE SubmitForm(t)
  BY <1>4, <1>5, <1>6, <1>7 DEF SubmitForm, SendRegister, CaptchaRefused, Starts
<1>8. CASE HandleEmailSubmit(t)
  BY <1>4, <1>5, <1>6, <1>8 DEF HandleEmailSubmit, SendStart, CaptchaRefused, Starts
<1>9. CASE HandleNameSubmit(t)
  BY <1>4, <1>5, <1>6, <1>9 DEF HandleNameSubmit, SendCompletion, Starts
<1>10. CASE PressVerify(t)
  BY <1>4, <1>6, <1>10 DEF PressVerify, SendCode, Starts
<1>11. CASE ResendLink(t)
  BY <1>4, <1>6, <1>11 DEF ResendLink, Starts
<1>12. QED
  BY <1>7, <1>8, <1>9, <1>10, <1>11

LEMMA TypeCodeStep ==
  ASSUME IInv, NEW t \in Tabs, NEW code \in {Wrong} \cup (inbox \ {Link}), TypeCode(t, code)
  PROVE  IInv'
<1>1. code \in {Wrong, Live}
  BY TypeFacts
<1>2. PICK r \in Tab : r = [tab[t] EXCEPT !.otp = code]
  BY <1>1, WizardFields DEF Tab
<1>3. r.page = tab[t].page /\ r.uid = tab[t].uid
  BY <1>2, WizardFields DEF Tab
<1>4. tab' = [tab EXCEPT ![t] = r]
  BY <1>2 DEF TypeCode
<1>5. tab' \in [Tabs -> Tab] /\ \A s \in Tabs : Hears(s)
  BY <1>3, <1>4, Edits
<1>6. ServerKeeps /\ Main(t) \in Calls
  BY Slots DEF TypeCode
<1>7. CASE UNCHANGED call
  BY <1>5, <1>6, <1>7, TabStep
<1>8. CASE Begin(Main(t), "verify", "check", code)
  <2>1. <<"verify", "check">> \in Starts
    BY DEF Starts
  <2>2. QED
    BY <1>1, <1>5, <1>6, <1>8, <2>1, BeginStep
<1>9. QED
  BY <1>7, <1>8 DEF TypeCode, SendCode

LEMMA HandleResendStep ==
  ASSUME IInv, NEW t \in Tabs, HandleResend(t)
  PROVE  IInv'
<1>1. ServerKeeps /\ Side(t) \in Calls
  BY DEF HandleResend, CanResend
<1>2. CASE SendStart(Side(t)) /\ UNCHANGED tab
  <2>1. tab' \in [Tabs -> Tab] /\ \A s \in Tabs : Hears(s)
    BY <1>2, TabKept
  <2>2. /\ "error" \in Answers /\ "start" \in Kinds \ {"none"} /\ Wrong \in {Wrong, Live}
        /\ <<"start", "lookup">> \in Starts
    BY DEF Answers, Kinds, Starts
  <2>3. CASE Begin(Side(t), "start", "lookup", Wrong)
    BY <1>1, <2>1, <2>2, <2>3, BeginStep
  <2>4. CASE Refuse(Side(t), "start", "error")
    BY <1>1, <2>1, <2>2, <2>4, RefuseStep
  <2>5. QED
    BY <1>2, <2>3, <2>4 DEF SendStart, CaptchaRefused
<1>3. CASE tab' = BackToEmail(t) /\ UNCHANGED call
  BY <1>1, <1>3, BackToEmailMoves, TabStep
<1>4. QED
  BY <1>2, <1>3 DEF HandleResend

LEMMA HandlePasswordSubmitStep ==
  ASSUME IInv, NEW t \in Tabs, HandlePasswordSubmit(t)
  PROVE  IInv'
<1>1. PICK r \in Tab : r = [tab[t] EXCEPT !.step = "name"]
  BY WizardFields DEF Tab
<1>2. r.page = tab[t].page /\ r.uid = tab[t].uid
  BY <1>1, WizardFields DEF Tab
<1>3. tab' = [tab EXCEPT ![t] = r] /\ UNCHANGED call /\ ServerKeeps
  BY <1>1 DEF HandlePasswordSubmit
<1>4. QED
  BY <1>2, <1>3, Slots, Edits, TabStep

\* A link in the mail is for the account that has the address when it is opened.
LEMMA ClickLinkStep ==
  ASSUME IInv, NEW t \in Tabs, ClickLink(t)
  PROVE  IInv'
<1>1. Main(t) \in Calls /\ ServerKeeps
  BY Slots DEF ClickLink, OpenLink, ServerKeeps
<1>2. tab' \in [Tabs -> Tab] /\ \A s \in Tabs : Hears(s)
  BY PageEdits DEF ClickLink
<1>3. {"ok", "error", "expiredCode"} \subseteq Answers /\ "link" \in Kinds \ {"none"}
  BY DEF Answers, Kinds
<1>4. ASSUME NEW why \in {"ok", "error", "expiredCode"}, Refuse(Main(t), "link", why)
      PROVE  IInv'
  BY <1>1, <1>2, <1>3, <1>4, RefuseStep
<1>5. ASSUME Unverified, Idle(Main(t)),
             call' = [call EXCEPT ![Main(t)] =
               [IdleCall EXCEPT !.kind = "link", !.phase = "mark", !.uid = account.uid]]
      PROVE  IInv'
  <2>1. account.uid \in Uids /\ account.uid <= born
    BY <1>5, TypeFacts DEF Unverified, Account, IInv, Shared, AccountOK
  <2>2. PICK uid \in Uids : uid = account.uid
    BY <2>1
  <2>3. [IdleCall EXCEPT !.kind = "link", !.phase = "mark", !.uid = uid] \in Call
    BY IdleOK DEF Call, Kinds, Phases
  <2>4. PICK q \in Call : q = [IdleCall EXCEPT !.kind = "link", !.phase = "mark", !.uid = uid]
    BY <2>3
  <2>5. q.kind = "link" /\ q.phase = "mark" /\ q.uid = uid
    BY <2>4, IdleOK DEF Call
  <2>6. Moves(Main(t), q)
    BY <1>5, <2>2, <2>4 DEF Moves
  <2>7. ~Committed(q) /\ ~Announcing(q) /\ ~Provisioning(q)
    BY <2>5 DEF Committed, Announcing, Provisioning
  <2>8. RouteOK(q) /\ CallOK(q)
    BY <2>1, <2>2, <2>5, <2>7, Nones, PhaseTable DEF RouteOK, CallOK
  <2>9. QED
    BY <1>1, <1>2, <1>5, <2>6, <2>7, <2>8, SlotStep DEF Idle
<1>6. QED
  BY <1>4, <1>5 DEF ClickLink, OpenLink

LEMMA StartSocialStep ==
  ASSUME IInv, NEW t \in Tabs, StartSocial(t)
  PROVE  IInv'
<1>1. Main(t) \in Calls /\ ServerKeeps
  BY Slots DEF StartSocial
<1>2. CASE Begin(Main(t), "social", "signUp", Wrong) /\ tab' = Leave(t, "provider", None)
  <2>1. tab' \in [Tabs -> Tab] /\ \A s \in Tabs : Hears(s)
    BY <1>2, Leaves
  <2>2. <<"social", "signUp">> \in Starts /\ Wrong \in {Wrong, Live}
    BY DEF Starts
  <2>3. QED
    BY <1>1, <1>2, <2>1, <2>2, BeginStep
<1>3. CASE UNCHANGED call /\ tab' = Leave(t, "oauthError", None)
  BY <1>1, <1>3, Leaves, TabStep
<1>4. QED
  BY <1>2, <1>3 DEF StartSocial

LEMMA VisitStep ==
  ASSUME IInv, NEW t \in Tabs, Visit(t)
  PROVE  IInv'
BY OpenSignupStep, CaptchaStep, SubmitStep, TypeCodeStep, HandleResendStep,
   HandlePasswordSubmitStep, ClickLinkStep, StartSocialStep
DEF Visit

-----------------------------------------------------------------------------
(* The pages: answers *)

LEMMA TakeStep ==
  ASSUME IInv, NEW c \in Calls, NEW kind, Take(c, kind), ServerKeeps,
         tab' \in [Tabs -> Tab], \A t \in Tabs : Hears(t)
  PROVE  IInv'
BY FreedStep DEF Take, At

\* An answer that names the account is the word of a handler that has kept its duty.
LEMMA Told ==
  ASSUME IInv, NEW c \in Calls, call[c].kind \in {"register", "complete", "social"},
         call[c].phase = "answered", call[c].answer \in {"ok", "redirect", "consent"}
  PROVE  /\ call[c].uid \in {None} \cup Uids
         /\ call[c].uid # None => Committed(call[c])
BY TypeFacts DEF Committed, Call

LEMMA FormAnsweredStep ==
  ASSUME IInv, NEW t \in Tabs, FormAnswered(t)
  PROVE  IInv'
<1> DEFINE c == Main(t)
<1>1. /\ c \in Calls /\ Take(c, "register") /\ ServerKeeps
      /\ call[c].kind = "register" /\ call[c].phase = "answered"
  BY Slots DEF FormAnswered, Take, At
<1>2. CASE call[c].answer = "redirect" /\ tab' = Leave(t, "app", call[c].uid)
  BY <1>1, <1>2, Told, Leaves, TakeStep
<1>3. CASE call[c].answer = "ok" /\ tab' = Leave(t, "checkEmail", call[c].uid)
  BY <1>1, <1>3, Told, Leaves, TakeStep
<1>4. CASE tab' = tab
  BY <1>1, <1>4, TabKept, TakeStep
<1>5. QED
  BY <1>2, <1>3, <1>4 DEF FormAnswered

LEMMA SocialAnsweredStep ==
  ASSUME IInv, NEW t \in Tabs, SocialAnswered(t)
  PROVE  IInv'
<1> DEFINE c == Main(t)
<1>1. /\ c \in Calls /\ Take(c, "social") /\ ServerKeeps
      /\ call[c].kind = "social" /\ call[c].phase = "answered"
  BY Slots DEF SocialAnswered, Take, At
<1>2. CASE call[c].answer = "ok" /\ tab' = Leave(t, "app", call[c].uid)
  BY <1>1, <1>2, Told, Leaves, TakeStep
<1>3. CASE call[c].answer = "consent" /\ tab' = Leave(t, "consent", call[c].uid)
  BY <1>1, <1>3, Told, Leaves, TakeStep
<1>4. CASE tab' = Leave(t, "forbidden", None)
  BY <1>1, <1>4, Leaves, TakeStep
<1>5. CASE tab' = Leave(t, "oauthError", None)
  BY <1>1, <1>5, Leaves, TakeStep
<1>6. QED
  BY <1>2, <1>3, <1>4, <1>5 DEF SocialAnswered

LEMMA EmailSubmitAnsweredStep ==
  ASSUME IInv, NEW t \in Tabs, EmailSubmitAnswered(t)
  PROVE  IInv'
<1>1. Main(t) \in Calls /\ Take(Main(t), "start") /\ ServerKeeps
  BY Slots DEF EmailSubmitAnswered
<1>2. CASE tab' = tab
  BY <1>1, <1>2, TabKept, TakeStep
<1>3. CASE tab' = [tab EXCEPT ![t].auto = TRUE, ![t].step = "code"]
  <2>1. PICK r \in Tab : r = [tab[t] EXCEPT !.auto = TRUE, !.step = "code"]
    BY WizardFields DEF Tab
  <2>2. r.page = tab[t].page /\ r.uid = tab[t].uid
    BY <2>1, WizardFields DEF Tab
  <2>3. tab' = [tab EXCEPT ![t] = r]
    BY <1>3, <2>1, TypeFacts
  <2>4. QED
    BY <1>1, <2>2, <2>3, Edits, TakeStep
<1>4. QED
  BY <1>2, <1>3 DEF EmailSubmitAnswered

LEMMA VerifyCodeAnsweredStep ==
  ASSUME IInv, NEW t \in Tabs, VerifyCodeAnswered(t)
  PROVE  IInv'
<1>1. Main(t) \in Calls /\ Take(Main(t), "verify") /\ ServerKeeps
  BY Slots DEF VerifyCodeAnswered
<1>2. CASE tab' = [tab EXCEPT ![t].step = "password"]
  <2>1. PICK r \in Tab : r = [tab[t] EXCEPT !.step = "password"]
    BY WizardFields DEF Tab
  <2>2. r.page = tab[t].page /\ r.uid = tab[t].uid /\ tab' = [tab EXCEPT ![t] = r]
    BY <1>2, <2>1, WizardFields DEF Tab
  <2>3. QED
    BY <1>1, <2>2, Edits, TakeStep
<1>3. CASE tab' = [tab EXCEPT ![t].auto = FALSE]
  <2>1. PICK r \in Tab : r = [tab[t] EXCEPT !.auto = FALSE]
    BY WizardFields DEF Tab
  <2>2. r.page = tab[t].page /\ r.uid = tab[t].uid /\ tab' = [tab EXCEPT ![t] = r]
    BY <1>3, <2>1, WizardFields DEF Tab
  <2>3. QED
    BY <1>1, <2>2, Edits, TakeStep
<1>4. QED
  BY <1>2, <1>3 DEF VerifyCodeAnswered

LEMMA ResendAnsweredStep ==
  ASSUME IInv, NEW t \in Tabs, ResendAnswered(t)
  PROVE  IInv'
<1>1. Side(t) \in Calls /\ Take(Side(t), "start") /\ ServerKeeps
  BY DEF ResendAnswered
<1>2. CASE tab' = tab
  BY <1>1, <1>2, TabKept, TakeStep
<1>3. CASE tab' = BackToEmail(t)
  BY <1>1, <1>3, BackToEmailMoves, TakeStep
<1>4. CASE tab' = [tab EXCEPT ![t].otp = None, ![t].auto = TRUE]
  <2>1. PICK r \in Tab : r = [tab[t] EXCEPT !.otp = None, !.auto = TRUE]
    BY WizardFields DEF Tab
  <2>2. r.page = tab[t].page /\ r.uid = tab[t].uid
    BY <2>1, WizardFields DEF Tab
  <2>3. tab' = [tab EXCEPT ![t] = r]
    BY <1>4, <2>1, TypeFacts
  <2>4. QED
    BY <1>1, <2>2, <2>3, Edits, TakeStep
<1>5. QED
  BY <1>2, <1>3, <1>4 DEF ResendAnswered

LEMMA UnheardStep ==
  ASSUME IInv, NEW t \in Tabs, ResendUnheard(t) \/ ResendLinkAnswered(t)
  PROVE  IInv'
<1>1. tab' \in [Tabs -> Tab] /\ \A s \in Tabs : Hears(s)
  BY TabKept DEF ResendUnheard, ResendLinkAnswered
<1>2. CASE ResendUnheard(t)
  BY <1>1, <1>2, TakeStep DEF ResendUnheard
<1>3. CASE ResendLinkAnswered(t)
  BY <1>1, <1>3, Slots, TakeStep DEF ResendLinkAnswered
<1>4. QED
  BY <1>2, <1>3

\* The last step of the wizard, or the new code it asked for by itself.
LEMMA NameSubmitAnsweredStep ==
  ASSUME IInv, NEW t \in Tabs, NameSubmitAnswered(t)
  PROVE  IInv'
<1> DEFINE c == Main(t)
<1>1. /\ c \in Calls /\ ServerKeeps
      /\ call[c].kind = "complete" /\ call[c].phase = "answered"
  BY Slots DEF NameSubmitAnswered, At
<1>2. CASE call' = [call EXCEPT ![c] = IdleCall]
  <2>1. CASE tab' = AwaitNewCode(t)
    BY <1>1, <1>2, <2>1, AwaitNewCodeMoves, FreedStep
  <2>2. CASE call[c].answer \in {"ok", "redirect"} /\ tab' = Leave(t, "ready", call[c].uid)
    BY <1>1, <1>2, <2>2, Told, Leaves, FreedStep
  <2>3. CASE tab' = tab
    BY <1>1, <1>2, <2>3, TabKept, FreedStep
  <2>4. QED
    BY <2>1, <2>2, <2>3 DEF NameSubmitAnswered
<1>3. ASSUME NEW q \in Call, Moves(c, q), q.kind = "start", q.phase \in {"lookup", "answered"},
             q.uid = None, UNCHANGED tab
      PROVE  IInv'
  <2>1. q.phase \in PhasesOf(q.kind)
    BY <1>3, PhaseTable
  <2>2. RouteOK(q) /\ CallOK(q) /\ ~Committed(q) /\ ~Announcing(q) /\ ~Provisioning(q)
    BY <1>3, <2>1, NoDuty
  <2>3. QED
    BY <1>1, <1>3, <2>2, TabKept, SlotStep
<1>4. CASE /\ call' = [call EXCEPT ![c] = [IdleCall EXCEPT !.kind = "start", !.phase = "lookup"]]
           /\ UNCHANGED tab
  <2>1. PICK q \in Call : q = [IdleCall EXCEPT !.kind = "start", !.phase = "lookup"]
    BY IdleOK DEF Call, Kinds, Phases
  <2>2. q.kind = "start" /\ q.phase = "lookup" /\ q.uid = None /\ Moves(c, q)
    BY <1>4, <2>1, IdleOK DEF Call, Moves
  <2>3. QED
    BY <1>3, <1>4, <2>2
<1>5. CASE /\ call' = [call EXCEPT ![c] =
                [IdleCall EXCEPT !.kind = "start", !.phase = "answered", !.answer = "error"]]
           /\ UNCHANGED tab
  <2>1. PICK a \in Answers : a = "error"
    BY DEF Answers
  <2>2. PICK q \in Call :
          q = [IdleCall EXCEPT !.kind = "start", !.phase = "answered", !.answer = a]
    BY IdleOK DEF Call, Kinds, Phases
  <2>3. q.kind = "start" /\ q.phase = "answered" /\ q.uid = None /\ Moves(c, q)
    BY <1>5, <2>1, <2>2, IdleOK DEF Call, Moves
  <2>4. QED
    BY <1>3, <1>5, <2>3
<1>6. QED
  BY <1>2, <1>4, <1>5 DEF NameSubmitAnswered

LEMMA NewCodeAnsweredStep ==
  ASSUME IInv, NEW t \in Tabs, NewCodeAnswered(t)
  PROVE  IInv'
<1>1. Main(t) \in Calls /\ Take(Main(t), "start") /\ ServerKeeps
  BY Slots DEF NewCodeAnswered
<1>2. tab' \in [Tabs -> Tab] /\ \A s \in Tabs : Hears(s)
  BY AwaitNewCodeMoves, BackToEmailMoves DEF NewCodeAnswered
<1>3. QED
  BY <1>1, <1>2, TakeStep

LEMMA LinkAnsweredStep ==
  ASSUME IInv, NEW t \in Tabs, LinkAnswered(t)
  PROVE  IInv'
<1>1. Main(t) \in Calls /\ Take(Main(t), "link") /\ ServerKeeps
  BY Slots DEF LinkAnswered
<1>2. PICK page \in {"expired", "invalid", "verified"} : tab' = [tab EXCEPT ![t].page = page]
  BY DEF LinkAnswered
<1>3. QED
  BY <1>1, <1>2, PageEdits, TakeStep

LEMMA HearStep ==
  ASSUME IInv, NEW t \in Tabs, Hear(t)
  PROVE  IInv'
BY FormAnsweredStep, SocialAnsweredStep, EmailSubmitAnsweredStep, VerifyCodeAnsweredStep,
   ResendAnsweredStep, UnheardStep, NameSubmitAnsweredStep, NewCodeAnsweredStep,
   LinkAnsweredStep
DEF Hear

-----------------------------------------------------------------------------
(* The invariant, and what it is for *)

LEMMA InitInv == Init => IInv
<1> SUFFICES ASSUME Init PROVE IInv
  OBVIOUS
<1>1. /\ app \in Apps /\ account = None /\ born = 0 /\ otp = None /\ inbox = {}
      /\ call = [c \in Calls |-> IdleCall] /\ received = {} /\ audited = {}
      /\ faults = 0 /\ crashes = 0 /\ tab = [t \in Tabs |-> NewTab]
  BY DEF Init, InitServer
<1>2. \A c \in Calls : call[c] = IdleCall /\ call[c] \in Call
  BY <1>1, IdleOK
<1>3. NewTab \in Tab /\ NewTab.uid = None
  BY DEF NewTab, Tab
<1>4. Typed
  BY <1>1, <1>2, <1>3, AppsAssumption, BoundsAssumption, IdleOK DEF Typed, TypeOK
<1>5. \A c \in Calls :
        /\ call[c].uid = None /\ call[c].phase = "idle" /\ call[c].kind = "none"
        /\ ~Committed(call[c]) /\ ~Announcing(call[c]) /\ ~Provisioning(call[c])
  BY <1>2, IdleOK DEF Committed, Announcing, Provisioning
<1>6. \A c \in Calls : RouteOK(call[c]) /\ CallOK(call[c]) /\ UndoneForCause(call[c])
  BY <1>2, <1>5, NoDuty, PhaseTable DEF UndoneForCause
<1>7. AccountOK /\ TakenBackUntold /\ OneAnnouncer
  BY <1>1, <1>5 DEF AccountOK, TakenBackUntold, OneAnnouncer
<1>8. ActiveIsVerified /\ ActivationIsTold /\ HalfMadeIsAttended
  BY <1>1 DEF ActiveIsVerified, ActivationIsTold, HalfMadeIsAttended
<1>9. DoneStaysDone
  BY <1>1, <1>3 DEF DoneStaysDone
<1>10. QED
  BY <1>4, <1>6, <1>7, <1>8, <1>9 DEF IInv, Shared

LEMMA StutterStep ==
  ASSUME IInv, UNCHANGED vars
  PROVE  IInv'
BY DEF vars, IInv, Typed, TypeOK, Shared, AccountOK, RouteOK, CallOK, Stands, UndoneForCause,
       TakenBackUntold, OneAnnouncer, ActiveIsVerified, DoneStaysDone, ActivationIsTold,
       HalfMadeIsAttended, AttendedRegister, AttendedSocial, RegisterTends, SocialTends,
       ToleratedFaults, Announcing, Committed, Provisioning

LEMMA Inductive == IInv /\ [Next]_vars => IInv'
<1> SUFFICES ASSUME IInv, [Next]_vars PROVE IInv'
  OBVIOUS
<1>1. ASSUME NEW t \in Tabs, Visit(t) PROVE IInv'
  BY <1>1, VisitStep
<1>2. ASSUME NEW t \in Tabs, Hear(t) PROVE IInv'
  BY <1>2, HearStep
<1>3. ASSUME NEW c \in Calls, Serve(c), UNCHANGED tab PROVE IInv'
  BY <1>3, ServeStep
<1>4. ASSUME NEW c \in Calls, Mint(c) PROVE IInv'
  BY <1>4, MintStep
<1>5. ASSUME Environment, UNCHANGED tab PROVE IInv'
  BY <1>5, AgeStep, SweepStep, OtpExpiresStep, RestartStep DEF Environment
<1>6. CASE UNCHANGED vars
  BY <1>6, StutterStep
<1>7. QED
  BY <1>1, <1>2, <1>3, <1>4, <1>5, <1>6 DEF Next

THEOREM Invariance == Spec => []IInv
BY InitInv, Inductive, PTL DEF Spec

\* Every variable stays within its declared shape.
THEOREM TypeCorrect == Spec => []TypeOK
<1>1. IInv => TypeOK
  BY DEF IInv, Typed
<1>2. QED
  BY <1>1, Invariance, PTL

\* Nobody who signed up with a password is active before the address was verified,
\* however register, the wizard and the links interleave (finishRegistration,
\* afterEmailVerification).
THEOREM PasswordNeedsVerifiedAddress == Spec => []ActiveIsVerified
<1>1. IInv => ActiveIsVerified
  BY DEF IInv
<1>2. QED
  BY <1>1, Invariance, PTL

\* What a browser was told is done no compensation, sweep or restart takes back
\* (finishRegistration's compensating delete, the sweep of abandoned signups).
THEOREM NothingToldIsTakenBack == Spec => []DoneStaysDone
<1>1. IInv => DoneStaysDone
  BY DEF IInv
<1>2. QED
  BY <1>1, Invariance, PTL

\* A failing statement that its compensation copes with leaves neither a User without
\* its SaUser nor a social one without its role; one of the two reads that nothing
\* compensates leaves a User alone, without a SaUser (provisionSocialSignupUser).
THEOREM CompensationCompletes == Spec => []NothingHalfMade
<1>1. ASSUME IInv, account # None, crashes = 0, faults <= ToleratedFaults,
             \A c \in Calls : ~Working(c)
      PROVE  \/ account.stranded /\ account.profile = "none"
             \/ /\ account.by = "register" => account.profile # "none"
                /\ account.by = "social" =>
                     account.profile = "active" /\ account.role = app.eligible
  <2>1. faults \in Nat /\ ToleratedFaults \in 0..1
    BY <1>1, TypeFacts DEF ToleratedFaults
  <2>2. ~(faults >= 2) /\ ~(faults > ToleratedFaults)
    BY <1>1, <2>1
  <2>3. \A c \in Calls : ~RegisterTends(call[c]) /\ ~SocialTends(call[c])
    BY <1>1 DEF Working, Holds, RegisterTends, SocialTends
  <2>4. account.by = "register" => AttendedRegister
    BY <1>1 DEF IInv, HalfMadeIsAttended
  <2>5. account.by = "social" => AttendedSocial
    BY <1>1 DEF IInv, HalfMadeIsAttended
  <2>6. QED
    BY <2>2, <2>3, <2>4, <2>5 DEF AttendedRegister, AttendedSocial
<1>2. IInv => NothingHalfMade
  BY <1>1 DEF NothingHalfMade, Abandoned
<1>3. QED
  BY <1>2, Invariance, PTL

\* The receiver of the webhook hears of an activation under one nonce, and of every
\* activation unless a statement failed or the process restarted (notifyActivation).
THEOREM ActivationAnnouncedOnce == Spec => []AnnouncedOnce
<1>1. ASSUME IInv, NEW u \in Uids
      PROVE  Cardinality({d \in received : d[1] = u}) <= 1
  <2>1. \A m, n \in {d \in received : d[1] = u} : m = n
    BY <1>1 DEF IInv, Shared, OneAnnouncer
  <2>2. CASE {d \in received : d[1] = u} = {}
    BY <2>2, FS_EmptySet
  <2>3. ASSUME NEW d \in {e \in received : e[1] = u}
        PROVE  Cardinality({e \in received : e[1] = u}) <= 1
    <3>1. {e \in received : e[1] = u} = {d}
      BY <2>1
    <3>2. QED
      BY <3>1, FS_Singleton
  <2>4. QED
    BY <2>2, <2>3
<1>2. ASSUME IInv, account # None, account.by # "social", account.profile = "active",
             app.webhook, ~(faults + crashes > 0), account.uid \notin audited
      PROVE  \E c \in Calls : Working(c)
  <2>1. PICK c \in Calls : Announcing(call[c]) /\ call[c].uid = account.uid
    BY <1>2 DEF IInv, ActivationIsTold
  <2>2. Working(c)
    BY <1>2, <2>1 DEF Working, Holds, Announcing
  <2>3. QED
    BY <2>2
<1>3. IInv => AnnouncedOnce
  BY <1>1, <1>2 DEF AnnouncedOnce
<1>4. QED
  BY <1>3, Invariance, PTL

\* Of the handlers only the compensating delete removes the account.
LEMMA OnlyUndoDeletes ==
  ASSUME IInv, NEW c \in Calls, Serve(c), account # None, account' = None
  PROVE  call[c].phase = "undoUser"
<1>1. account \in Account /\ app.eligible \in BOOLEAN
  BY TypeFacts DEF App
<1>2. /\ account' # [account EXCEPT !.verified = TRUE]
      /\ account' # [account EXCEPT !.password = "chosen"]
      /\ account' # [account EXCEPT !.role = TRUE]
      /\ account' # [account EXCEPT !.stranded = TRUE]
  <2>1. /\ [account EXCEPT !.verified = TRUE] \in Account
        /\ [account EXCEPT !.password = "chosen"] \in Account
        /\ [account EXCEPT !.role = TRUE] \in Account
        /\ [account EXCEPT !.stranded = TRUE] \in Account
    BY <1>1 DEF Account
  <2>2. QED
    BY <2>1, Nones
<1>3. \A p \in {"none", "unverified", "active"}, r \in BOOLEAN :
        /\ account' # [account EXCEPT !.profile = p]
        /\ account' # [account EXCEPT !.profile = p, !.role = r]
  <2>1. \A p \in {"none", "unverified", "active"}, r \in BOOLEAN :
          /\ [account EXCEPT !.profile = p] \in Account
          /\ [account EXCEPT !.profile = p, !.role = r] \in Account
    BY <1>1 DEF Account
  <2>2. QED
    BY <2>1, Nones
<1>4. ~SignUpEmail(c) /\ ~SignUpPlaceholder(c) /\ ~SocialCallback(c)
  BY DEF SignUpEmail, SignUpPlaceholder, SocialCallback, CreateAccount
<1>5. ~VerifyEmailOTP(c) /\ ~MarkVerified(c) /\ ~SetPassword(c) /\ ~AssignDefaultRole(c)
  BY <1>2 DEF VerifyEmailOTP, MarkVerified, SetPassword, AssignDefaultRole
<1>0. ~ReadBack(c) /\ ~ResolveEligibility(c)
  BY <1>2 DEF ReadBack, ResolveEligibility, Strand
<1>6. ~AfterEmailVerification(c) /\ ~ProvisionSaUser(c) /\ ~UndoProfile(c)
  BY <1>3 DEF AfterEmailVerification, ProvisionSaUser, UndoProfile
<1>7. ~CommitProfile(c)
  <2>1. Status(c) \in {"none", "unverified", "active"}
    BY DEF Status
  <2>2. QED
    BY <1>1, <1>3, <2>1 DEF CommitProfile
<1>8. /\ ~AbortProfile(c) /\ ~SendVerificationEmail(c) /\ ~MintRedirect(c)
      /\ ~FailAfterProfile(c) /\ ~FindExisting(c) /\ ~SendVerificationCode(c)
      /\ ~FailStart(c) /\ ~CheckVerificationOTP(c) /\ ~ResolveDelivery(c) /\ ~PostOnce(c)
      /\ ~LogOutcome(c) /\ ~EnterSocially(c)
  BY DEF AbortProfile, SendVerificationEmail, MintRedirect, FailAfterProfile, FindExisting,
         SendVerificationCode, FailStart, CheckVerificationOTP, ResolveDelivery, PostOnce,
         LogOutcome, EnterSocially
<1>9. UndoUser(c)
  BY <1>0, <1>4, <1>5, <1>6, <1>7, <1>8 DEF Serve
<1>10. QED
  BY <1>9 DEF UndoUser

LEMMA PagesDeleteNothing ==
  ASSUME NEW t \in Tabs, Visit(t) \/ Hear(t)
  PROVE  account' = account
<1>1. Visit(t) => account' = account
  BY DEF Visit, ServerKeeps, OpenSignup, CaptchaChanges, SubmitForm, HandleEmailSubmit,
         PressVerify, HandleResend, HandlePasswordSubmit, HandleNameSubmit, TypeCode,
         ClickLink, OpenLink, ResendLink, StartSocial
<1>2. Hear(t) => account' = account
  BY DEF Hear, ServerKeeps, FormAnswered, EmailSubmitAnswered, VerifyCodeAnswered,
         ResendAnswered, ResendUnheard, NameSubmitAnswered, NewCodeAnswered, LinkAnswered,
         ResendLinkAnswered, SocialAnswered
<1>3. QED
  BY <1>1, <1>2

\* Nothing but a compensation takes the account from under completeRegistration: the
\* address is verified by then, and the sweep leaves verified accounts alone.
THEOREM FinishingIsSpared == Spec => SweepSparesFinishing
<1>1. ASSUME IInv, [Next]_vars
      PROVE  [\A c \in Calls :
                Finishing(c) /\ Holds(c) /\ account' = None =>
                  \E d \in Calls : call[d].phase = "undoUser"]_vars
  <2> SUFFICES ASSUME NEW c \in Calls, Finishing(c), Holds(c), account' = None
               PROVE  \E d \in Calls : call[d].phase = "undoUser"
    OBVIOUS
  <2>1. account # None /\ account.uid = call[c].uid /\ account \in Account
    BY <1>1, TypeFacts DEF Holds
  <2>2. account.verified
    BY <1>1, <2>1, TypeFacts DEF RouteOK, CallOK, Stands, Finishing
  <2>3. ~Sweep
    BY <2>2 DEF Sweep, Sweepable
  <2>4. \A t \in Tabs : ~Visit(t) /\ ~Hear(t)
    BY <2>1, PagesDeleteNothing
  <2>5. \A d \in Calls : ~Mint(d)
    BY <2>1 DEF Mint, CreateOtp
  <2>6. ~Environment
    <3>1. ~Age
      <4>1. Age => account' \in Account
        BY <2>1 DEF Age, Account
      <4>2. QED
        BY <4>1, Nones
    <3>2. ~OtpExpires /\ ~Restart
      BY <2>1 DEF OtpExpires, Restart
    <3>3. QED
      BY <2>3, <3>1, <3>2 DEF Environment
  <2>7. PICK d \in Calls : Serve(d)
    BY <1>1, <2>1, <2>4, <2>5, <2>6 DEF Next, vars
  <2>8. QED
    BY <1>1, <2>1, <2>7, OnlyUndoDeletes
<1>2. QED
  BY <1>1, Invariance, PTL DEF SweepSparesFinishing, Spec
=============================================================================
