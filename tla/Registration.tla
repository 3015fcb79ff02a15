----------------------------- MODULE Registration -----------------------------
(***************************************************************************)
(* Self-service sign-up on the server: RegistrationService (register and   *)
(* the three calls of the code-first wizard), the verification hooks of    *)
(* auth.config.ts, the provisioning of a user who arrives from a social    *)
(* provider, the sweep of abandoned signups and the activation webhook.    *)
(*                                                                         *)
(* The module follows ONE e-mail address at ONE app: User.email is unique  *)
(* and every step below is keyed by it.  The User row that holds the       *)
(* address may be deleted and created again, under a new id each time; its *)
(* SaUser is the field `profile` of the same record, since the foreign key *)
(* keeps a SaUser from outliving its User.                                 *)
(*                                                                         *)
(* Each handler is a call record: a step per database statement or         *)
(* BetterAuth call.  Any statement may fail, and the process may restart,  *)
(* which ends every call in flight: MaxTrouble times in all.               *)
(***************************************************************************)
EXTENDS FiniteSets, Naturals

CONSTANTS
  Apps,            \* rows the app may have
  Calls,           \* slots for handlers running at the same time
  MaxAccounts,     \* bound: User rows created
  AllowedAttempts, \* wrong tries before a code is refused (3 in BetterAuth)
  MaxTrouble,      \* bound: failing statements and restarts together
  None             \* null

\* method: how an e-mail is verified; eligible: a default org and a default
\* role; webhook: URL and secret are set.
App == [method : {"link", "code"}, eligible : BOOLEAN, webhook : BOOLEAN]

ASSUME AppsAssumption == Apps \subseteq App

ASSUME BoundsAssumption ==
  /\ {MaxAccounts, AllowedAttempts} \subseteq Nat \ {0}
  /\ MaxTrouble \in Nat

VARIABLES
  app,             \* what the app's row says: fixed
  account,         \* the User row of the address with its SaUser, or None
  born,            \* User rows created so far: the last id given
  otp,             \* the pending email-verification code, or None
  inbox,           \* what was mailed to the address and still counts
  call,            \* the handlers in flight
  received,        \* webhook deliveries that reached the receiver
  audited,         \* ids whose webhook outcome is in SaAuditEvent
  faults, crashes  \* how many so far

server == <<app, account, born, otp, inbox, call, received, audited, faults, crashes>>

Uids == 1..MaxAccounts

\* A one-time code is told apart only by whether it is the pending one: minting
\* another turns every copy of Live, wherever it is, into a wrong code.
Wrong == 0
Live == 1
Link == 2          \* the verification link, in the inbox beside the code

\* stranded: the code keeps no such thing; that a handler failed on this account
\* where nothing compensates.
Account ==
  [uid : Uids, by : {"register", "start", "social"}, verified : BOOLEAN, aged : BOOLEAN,
   password : {"none", "placeholder", "chosen"},
   profile : {"none", "unverified", "active"}, role : BOOLEAN, stranded : BOOLEAN]

Otp == [tries : 0..AllowedAttempts, expired : BOOLEAN]

Kinds == {"none", "register", "start", "verify", "complete", "social", "link", "mail"}

Phases ==
  {"idle", "signUp", "readBack", "profile", "mail", "mint", "undoUser", "undoProfile",
   "lookup", "createOtp", "sendCode", "check", "verifyOtp", "password",
   "eligibility", "provision", "role", "gate", "mark", "promote",
   "announce", "post", "repost", "audit", "answered"}

\* "error" is any refusal the pages treat alike: the captcha, an unknown app, a
\* form or code that does not pass, a taken address, the rate limit, a 500.
Answers ==
  {"none", "ok", "error", "expiredCode", "redirect", "consent", "forbidden", "unavailable"}

\* uid: the row the handler works on; code: the one presented; after: where a
\* handler goes on once the activation was announced.
Call ==
  [kind : Kinds, phase : Phases, uid : Uids \cup {None}, code : {Wrong, Live},
   nonce : {None} \cup (Uids \X {1, 2}), after : Phases, answer : Answers]

IdleCall ==
  [kind |-> "none", phase |-> "idle", uid |-> None, code |-> Wrong,
   nonce |-> None, after |-> "idle", answer |-> "none"]

ASSUME NoneAssumption == None \notin Account \cup Otp \cup Uids \cup {Wrong, Live}

InitServer ==
  /\ app \in Apps
  /\ account = None /\ born = 0
  /\ otp = None /\ inbox = {}
  /\ call = [c \in Calls |-> IdleCall]
  /\ received = {} /\ audited = {}
  /\ faults = 0 /\ crashes = 0

-----------------------------------------------------------------------------
(* How a handler moves *)

Idle(c) == call[c].phase = "idle"

Begin(c, kind, phase, code) ==
  /\ Idle(c)
  /\ call' = [call EXCEPT ![c] =
       [IdleCall EXCEPT !.kind = kind, !.phase = phase, !.code = code]]

At(c, kind, phase) == call[c].kind = kind /\ call[c].phase = phase

Go(c, phase) == call' = [call EXCEPT ![c].phase = phase]

Answer(c, a) ==
  call' = [call EXCEPT ![c] =
    [IdleCall EXCEPT !.kind = call[c].kind, !.phase = "answered", !.answer = a,
                     !.uid = IF a # "error" /\ call[c].kind \in {"register", "complete", "social"}
                               THEN call[c].uid ELSE None]]

\* The handler throws before it has read or written anything.
Refuse(c, kind, why) ==
  /\ Idle(c)
  /\ call' = [call EXCEPT ![c] =
       [IdleCall EXCEPT !.kind = kind, !.phase = "answered", !.answer = why]]

Fault == faults + crashes < MaxTrouble /\ faults' = faults + 1

\* The row a handler works on is still there.
Holds(c) == account # None /\ account.uid = call[c].uid

NewAccount(by, verified, password) ==
  [uid |-> born + 1, by |-> by, verified |-> verified, aged |-> FALSE,
   password |-> password, profile |-> "none", role |-> FALSE, stranded |-> FALSE]

\* A statement outside any try: the handler throws, and what it stored stays.
Strand(c) ==
  /\ Fault /\ Answer(c, "error")
  /\ account' = IF Holds(c) THEN [account EXCEPT !.stranded = TRUE] ELSE account
  /\ UNCHANGED <<app, born, otp, inbox, received, audited, crashes>>

\* signUpEmail, or BetterAuth's own insert for a social identity.
CreateAccount(c, by, verified, password, phase) ==
  /\ account = None /\ born < MaxAccounts
  /\ account' = NewAccount(by, verified, password)
  /\ born' = born + 1
  /\ call' = [call EXCEPT ![c].uid = born + 1, ![c].phase = phase]
  /\ UNCHANGED <<app, otp, inbox, received, audited, faults, crashes>>

-----------------------------------------------------------------------------
(* One-time codes, kept by BetterAuth *)

FreshOtp == [tries |-> 0, expired |-> FALSE]

\* What presenting a code comes to.
Verdict(code) ==
  CASE account = None \/ otp = None -> "error"
    [] otp.expired -> "expiredCode"
    [] otp.tries = AllowedAttempts \/ code # Live -> "error"
    [] OTHER -> "ok"

\* Slip: a code that is used up stays, and goes on counting.
MutCountAttempt(code) ==
  otp' = IF account = None \/ otp = None \/ Verdict(code) = "ok" THEN otp
         ELSE IF otp.expired THEN None
         ELSE [otp EXCEPT !.tries = @ + 1]

\* A wrong guess is counted; a code that is expired or used up is removed.
CountAttempt(code) ==
  otp' = IF account = None \/ otp = None \/ Verdict(code) = "ok" THEN otp
         ELSE IF otp.expired \/ otp.tries = AllowedAttempts THEN None
         ELSE [otp EXCEPT !.tries = @ + 1]

OtpExpires ==
  /\ otp # None /\ ~otp.expired
  /\ otp' = [otp EXCEPT !.expired = TRUE]
  /\ UNCHANGED <<app, account, born, inbox, call, received, audited, faults, crashes>>

-----------------------------------------------------------------------------
(* register *)

\* The account is created, or the address is taken: BetterAuth then answers
\* with a user that was never stored, which the read-back does not find.
SignUpEmail(c) ==
  /\ At(c, "register", "signUp")
  /\ \/ CreateAccount(c, "register", FALSE, "chosen", "readBack")
     \/ /\ account # None
        /\ Answer(c, "error")
        /\ UNCHANGED <<app, account, born, otp, inbox, received, audited, faults, crashes>>

\* The id is looked up before it is believed, and the lookup may fail.
ReadBack(c) ==
  /\ At(c, "register", "readBack")
  /\ \/ /\ IF Holds(c) THEN Go(c, "profile") ELSE Answer(c, "error")
        /\ UNCHANGED <<app, account, born, otp, inbox, received, audited, faults, crashes>>
     \/ Strand(c)

(* finishRegistration, shared by register and completeRegistration *)

Status(c) == IF call[c].kind = "register" THEN "unverified" ELSE "active"

\* Org, SaUser, default role and consent in one transaction.  It fails on the
\* foreign key when the User row is gone, on the unique key when it has one.
CommitProfile(c) ==
  /\ call[c].phase = "profile" /\ call[c].kind \in {"register", "complete"}
  /\ Holds(c) /\ account.profile = "none"
  /\ account' = [account EXCEPT !.profile = Status(c), !.role = app.eligible]
  /\ call' = [call EXCEPT
       ![c].phase = IF call[c].kind = "register" THEN "mail" ELSE "announce",
       ![c].after = "mint"]
  /\ UNCHANGED <<app, born, otp, inbox, received, audited, faults, crashes>>

AbortProfile(c) ==
  /\ call[c].phase = "profile" /\ call[c].kind \in {"register", "complete"}
  /\ IF Holds(c) /\ account.profile = "none" THEN Fault ELSE UNCHANGED faults
  /\ Go(c, "undoUser")
  /\ UNCHANGED <<app, account, born, otp, inbox, received, audited, crashes>>

\* The user has a profile in an app that verifies by code.
MailsCode == app.method = "code" /\ account.profile # "none"

Unverified == account # None /\ ~account.verified

AfterMail(c) == IF call[c].kind = "register" THEN Go(c, "mint") ELSE Answer(c, "ok")

\* sendVerificationEmail, for register or asked for by the browser: nothing is
\* sent to a verified or unknown address.  The hook mails a link, or goes on to
\* mint a code.
SendVerificationEmail(c) ==
  /\ call[c].phase = "mail"
  /\ ~(Unverified /\ MailsCode)
  /\ inbox' = IF Unverified THEN inbox \cup {Link} ELSE inbox
  /\ AfterMail(c)
  /\ UNCHANGED <<app, account, born, otp, received, audited, faults, crashes>>

\* The redirect is worked out and a code minted where the app allows it.
MintRedirect(c) ==
  /\ call[c].phase = "mint"
  /\ \E a \in {"ok", "redirect"} : Answer(c, a)
  /\ UNCHANGED <<app, account, born, otp, inbox, received, audited, faults, crashes>>

FailAfterProfile(c) ==
  /\ \/ call[c].phase = "mint"
     \/ call[c].kind = "register" /\ call[c].phase \in {"mail", "sendCode"}
  /\ Fault /\ Go(c, "undoUser")
  /\ UNCHANGED <<app, account, born, otp, inbox, received, audited, crashes>>

\* Slip: the delete takes the SaUser along.
MutUndoUser(c) ==
  /\ call[c].phase = "undoUser"
  /\ \/ /\ account' = IF Holds(c) THEN None ELSE account
        /\ UNCHANGED faults
     \/ Holds(c) /\ account.profile = "none" /\ Fault /\ UNCHANGED account
  /\ Answer(c, IF call[c].kind = "social" THEN "unavailable" ELSE "error")
  /\ UNCHANGED <<app, born, otp, inbox, received, audited, crashes>>

\* The compensating delete, which the foreign key stops once there is a SaUser
\* and which may fail by itself; either way the first error is rethrown.
UndoUser(c) ==
  /\ call[c].phase = "undoUser"
  /\ \/ /\ account' = IF Holds(c) /\ account.profile = "none" THEN None ELSE account
        /\ UNCHANGED faults
     \/ Holds(c) /\ account.profile = "none" /\ Fault /\ UNCHANGED account
  /\ Answer(c, IF call[c].kind = "social" THEN "unavailable" ELSE "error")
  /\ UNCHANGED <<app, born, otp, inbox, received, audited, crashes>>

-----------------------------------------------------------------------------
(* startRegistration *)

\* An unverified account without a SaUser is taken over, any other refused.
FindExisting(c) ==
  /\ At(c, "start", "lookup")
  /\ IF account = None THEN Go(c, "signUp")
     ELSE IF account.verified \/ account.profile # "none" THEN Answer(c, "error")
     ELSE call' = [call EXCEPT ![c].uid = account.uid, ![c].phase = "createOtp"]
  /\ UNCHANGED <<app, account, born, otp, inbox, received, audited, faults, crashes>>

SignUpPlaceholder(c) ==
  /\ At(c, "start", "signUp")
  /\ \/ CreateAccount(c, "start", FALSE, "placeholder", "createOtp")
     \/ /\ account # None
        /\ Answer(c, "error")
        /\ UNCHANGED <<app, account, born, otp, inbox, received, audited, faults, crashes>>

Minting(c) ==
  \/ At(c, "start", "createOtp")
  \/ call[c].phase = "mail" /\ Unverified /\ MailsCode

\* sendVerificationCode: the new code replaces any earlier one.
CreateOtp(c) ==
  /\ Minting(c)
  /\ otp' = FreshOtp
  /\ inbox' = inbox \ {Live}
  /\ call' = [d \in Calls |->
       IF d = c THEN [call[d] EXCEPT !.phase = "sendCode", !.code = Live]
       ELSE [call[d] EXCEPT !.code = Wrong]]
  /\ UNCHANGED <<app, account, born, received, audited, faults, crashes>>

\* Its mail may leave after that of a later code.
SendVerificationCode(c) ==
  /\ call[c].phase = "sendCode"
  /\ inbox' = IF call[c].code = Live THEN inbox \cup {Live} ELSE inbox
  /\ AfterMail(c)
  /\ UNCHANGED <<app, account, born, otp, received, audited, faults, crashes>>

\* A failing statement answers 500 and leaves the row for the next attempt.
FailStart(c) ==
  /\ call[c].kind = "start" /\ call[c].phase \in {"lookup", "signUp", "createOtp"}
  /\ Fault /\ Answer(c, "error")
  /\ UNCHANGED <<app, account, born, otp, inbox, received, audited, crashes>>

-----------------------------------------------------------------------------
(* verifyRegistrationCode and completeRegistration *)

\* The code is looked at and stays usable.
CheckVerificationOTP(c) ==
  /\ At(c, "verify", "check")
  /\ CountAttempt(call[c].code)
  /\ Answer(c, Verdict(call[c].code))
  /\ UNCHANGED <<app, account, born, inbox, received, audited, faults, crashes>>

\* Slip: the code is looked at, as in the wizard's second step.
MutVerifyEmailOTP(c) ==
  /\ At(c, "complete", "verifyOtp")
  /\ IF Verdict(call[c].code) = "ok"
       THEN /\ call' = [call EXCEPT ![c].uid = account.uid, ![c].phase = "promote",
                                    ![c].after = "password"]
            /\ UNCHANGED otp
       ELSE CountAttempt(call[c].code) /\ Answer(c, Verdict(call[c].code))
  /\ UNCHANGED <<app, account, born, inbox, received, audited, faults, crashes>>

\* The code is consumed and the address verified.
VerifyEmailOTP(c) ==
  /\ At(c, "complete", "verifyOtp")
  /\ IF Verdict(call[c].code) = "ok"
       THEN /\ account' = [account EXCEPT !.verified = TRUE]
            /\ otp' = None
            /\ call' = [call EXCEPT ![c].uid = account.uid, ![c].phase = "promote",
                                    ![c].after = "password"]
       ELSE /\ CountAttempt(call[c].code)
            /\ Answer(c, Verdict(call[c].code))
            /\ UNCHANGED account
  /\ UNCHANGED <<app, born, inbox, received, audited, faults, crashes>>

\* Name and password replace the placeholders.
SetPassword(c) ==
  /\ At(c, "complete", "password")
  /\ \/ /\ Holds(c)
        /\ account' = [account EXCEPT !.password = "chosen"]
        /\ Go(c, "profile")
        /\ UNCHANGED faults
     \/ /\ IF Holds(c) THEN Fault ELSE UNCHANGED faults
        /\ Answer(c, "error")
        /\ UNCHANGED account
  /\ UNCHANGED <<app, born, otp, inbox, received, audited, crashes>>

-----------------------------------------------------------------------------
(* The link in the mail, and the hook that follows any verification *)

\* The token names the address; a verified one is left alone, an unknown one
\* refused.
OpenLink(c) ==
  /\ Link \in inbox
  /\ IF Unverified
       THEN /\ Idle(c)
            /\ call' = [call EXCEPT ![c] =
                 [IdleCall EXCEPT !.kind = "link", !.phase = "mark", !.uid = account.uid]]
       ELSE Refuse(c, "link", IF account = None THEN "error" ELSE "ok")
  /\ UNCHANGED <<app, account, born, otp, inbox, received, audited, faults, crashes>>

MarkVerified(c) ==
  /\ At(c, "link", "mark")
  /\ IF Holds(c)
       THEN /\ account' = [account EXCEPT !.verified = TRUE]
            /\ call' = [call EXCEPT ![c].phase = "promote", ![c].after = "answered"]
       ELSE Answer(c, "error") /\ UNCHANGED account
  /\ UNCHANGED <<app, born, otp, inbox, received, audited, faults, crashes>>

\* Slip: the promotion is taken for the wizard's, which announces it later.
MutAfterEmailVerification(c) ==
  /\ call[c].phase = "promote"
  /\ account' = IF Holds(c) /\ account.profile = "unverified"
                  THEN [account EXCEPT !.profile = "active"] ELSE account
  /\ Go(c, call[c].after)
  /\ UNCHANGED <<app, born, otp, inbox, received, audited, faults, crashes>>

\* afterEmailVerification: only the update that finds the row unverified
\* promotes it, and only that one announces it.
AfterEmailVerification(c) ==
  /\ call[c].phase = "promote"
  /\ IF Holds(c) /\ account.profile = "unverified"
       THEN account' = [account EXCEPT !.profile = "active"] /\ Go(c, "announce")
       ELSE Go(c, call[c].after) /\ UNCHANGED account
  /\ UNCHANGED <<app, born, otp, inbox, received, audited, faults, crashes>>

-----------------------------------------------------------------------------
(* notifyActivation *)

\* Without a configured webhook, or when it cannot be read, nothing is sent.
ResolveDelivery(c) ==
  /\ call[c].phase = "announce"
  /\ \/ /\ app.webhook
        /\ \E n \in {1, 2} :
             /\ \A d \in Calls : call[d].nonce # <<call[c].uid, n>>
             /\ <<call[c].uid, n>> \notin received
             /\ call' = [call EXCEPT ![c].nonce = <<call[c].uid, n>>, ![c].phase = "post"]
        /\ UNCHANGED faults
     \/ ~app.webhook /\ Go(c, call[c].after) /\ UNCHANGED faults
     \/ Fault /\ Go(c, call[c].after)
  /\ UNCHANGED <<app, account, born, otp, inbox, received, audited, crashes>>

\* Slip: the second attempt is signed afresh, nonce included.
MutPostOnce(c) ==
  /\ call[c].phase \in {"post", "repost"}
  /\ \E arrived \in BOOLEAN, next \in {"repost", "audit"} :
       /\ next = "repost" => call[c].phase = "post"
       /\ received' = received \cup (IF ~arrived THEN {} ELSE
            {IF call[c].phase = "post" THEN call[c].nonce ELSE <<call[c].uid, 2>>})
       /\ Go(c, next)
  /\ UNCHANGED <<app, account, born, otp, inbox, audited, faults, crashes>>

\* The request may arrive or not and its answer may be lost: after a network
\* error, a timeout or a 5xx it is sent once more, byte for byte.
PostOnce(c) ==
  /\ call[c].phase \in {"post", "repost"}
  /\ \E arrived \in BOOLEAN, next \in {"repost", "audit"} :
       /\ next = "repost" => call[c].phase = "post"
       /\ received' = received \cup (IF arrived THEN {call[c].nonce} ELSE {})
       /\ Go(c, next)
  /\ UNCHANGED <<app, account, born, otp, inbox, audited, faults, crashes>>

LogOutcome(c) ==
  /\ call[c].phase = "audit"
  /\ \/ audited' = audited \cup {call[c].uid} /\ UNCHANGED faults
     \/ Fault /\ UNCHANGED audited
  /\ call' = [call EXCEPT ![c].phase = call[c].after, ![c].nonce = None]
  /\ UNCHANGED <<app, account, born, otp, inbox, received, crashes>>

-----------------------------------------------------------------------------
(* Social sign-up: the hook after BetterAuth stored User and Account *)

CanSocialSignup == app.eligible

\* A new identity, or the provider or BetterAuth refuses this one.
SocialCallback(c) ==
  /\ At(c, "social", "signUp")
  /\ \/ \E verified \in BOOLEAN :
          CreateAccount(c, "social", verified, "none", "eligibility")
     \/ /\ Answer(c, "unavailable")
        /\ UNCHANGED <<app, account, born, otp, inbox, received, audited, faults, crashes>>

\* The app's row is read, before any try, to decide between the two.
ResolveEligibility(c) ==
  /\ At(c, "social", "eligibility")
  /\ \/ /\ Go(c, IF CanSocialSignup THEN "provision" ELSE "undoUser")
        /\ UNCHANGED <<app, account, born, otp, inbox, received, audited, faults, crashes>>
     \/ Strand(c)

\* The profile is active at once; a failure undoes what was written.
ProvisionSaUser(c) ==
  /\ At(c, "social", "provision")
  /\ \/ /\ Holds(c) /\ account.profile = "none"
        /\ account' = [account EXCEPT !.profile = "active"]
        /\ Go(c, "role") /\ UNCHANGED faults
     \/ /\ IF Holds(c) /\ account.profile = "none" THEN Fault ELSE UNCHANGED faults
        /\ Go(c, "undoUser") /\ UNCHANGED account
  /\ UNCHANGED <<app, born, otp, inbox, received, audited, crashes>>

\* Slip: the User is deleted first, which its SaUser forbids.
MutAssignDefaultRole(c) ==
  /\ At(c, "social", "role")
  /\ \/ account' = [account EXCEPT !.role = TRUE] /\ Go(c, "gate") /\ UNCHANGED faults
     \/ /\ Fault /\ Answer(c, "unavailable")
        /\ account' = [account EXCEPT !.profile = "none"]
  /\ UNCHANGED <<app, born, otp, inbox, received, audited, crashes>>

AssignDefaultRole(c) ==
  /\ At(c, "social", "role")
  /\ \/ account' = [account EXCEPT !.role = TRUE] /\ Go(c, "gate") /\ UNCHANGED faults
     \/ Fault /\ Go(c, "undoProfile") /\ UNCHANGED account
  /\ UNCHANGED <<app, born, otp, inbox, received, audited, crashes>>

\* The SaUser goes first: the foreign key would stop the other order.
UndoProfile(c) ==
  /\ At(c, "social", "undoProfile")
  /\ \/ account' = [account EXCEPT !.profile = "none"] /\ UNCHANGED faults
     \/ Fault /\ UNCHANGED account
  /\ Go(c, "undoUser")
  /\ UNCHANGED <<app, born, otp, inbox, received, audited, crashes>>

\* The session gate lets the active user in; where documents of the app are
\* still to be accepted, the redirect leads there first.
EnterSocially(c) ==
  /\ At(c, "social", "gate")
  /\ IF Holds(c) /\ account.profile = "active"
       THEN \E a \in {"ok", "consent"} : Answer(c, a)
       ELSE Answer(c, "forbidden")
  /\ UNCHANGED <<app, account, born, otp, inbox, received, audited, faults, crashes>>

-----------------------------------------------------------------------------
(* Time, the sweep, restarts *)

Age ==
  /\ account # None /\ ~account.aged
  /\ account' = [account EXCEPT !.aged = TRUE]
  /\ UNCHANGED <<app, born, otp, inbox, call, received, audited, faults, crashes>>

\* Slip: an account that is being finished looks abandoned.
MutSweepable == account # None /\ account.profile = "none" /\ account.aged

Sweepable == account # None /\ ~account.verified /\ account.profile = "none" /\ account.aged

\* One statement; a failing sweep is logged and comes again with the timer.
Sweep ==
  /\ Sweepable
  /\ account' = None
  /\ UNCHANGED <<app, born, otp, inbox, call, received, audited, faults, crashes>>

\* Every handler in flight is gone; its caller sees the connection drop.
Restart ==
  /\ faults + crashes < MaxTrouble /\ crashes' = crashes + 1
  /\ call' = [c \in Calls |->
       IF call[c].phase \in {"idle", "answered"} THEN call[c]
       ELSE [IdleCall EXCEPT !.kind = call[c].kind, !.phase = "answered", !.answer = "error"]]
  /\ UNCHANGED <<app, account, born, otp, inbox, received, audited, faults>>

Serve(c) ==
  \/ SignUpEmail(c) \/ ReadBack(c) \/ CommitProfile(c) \/ AbortProfile(c) \/ SendVerificationEmail(c)
  \/ MintRedirect(c) \/ FailAfterProfile(c) \/ UndoUser(c)
  \/ FindExisting(c) \/ SignUpPlaceholder(c) \/ SendVerificationCode(c) \/ FailStart(c)
  \/ CheckVerificationOTP(c) \/ VerifyEmailOTP(c) \/ SetPassword(c)
  \/ MarkVerified(c) \/ AfterEmailVerification(c)
  \/ ResolveDelivery(c) \/ PostOnce(c) \/ LogOutcome(c)
  \/ SocialCallback(c) \/ ResolveEligibility(c) \/ ProvisionSaUser(c)
  \/ AssignDefaultRole(c) \/ UndoProfile(c) \/ EnterSocially(c)

=============================================================================
