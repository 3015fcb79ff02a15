------------------------------- MODULE SignIn -------------------------------
(***************************************************************************)
(* Getting into the console or into an app with an account that exists:    *)
(* the auth server's side of signing in, of the second factor, of the      *)
(* consent gate and of the password reset, as the login pages of           *)
(* LoginPages call it.                                                     *)
(*                                                                         *)
(* One account, used from several browsers.  BetterAuth's endpoints are    *)
(* external: each is one step, with the effects the code of this           *)
(* repository relies on.  What a server action or a handler does in        *)
(* several calls is one step per call.                                     *)
(*                                                                         *)
(* A session is told by where its token lies, and by when it began:        *)
(* "plain" before the current enrolment in 2FA (or with none), "strong"    *)
(* since.  "dead" is the token of a session somebody ended, "rotated" of   *)
(* one that the holder's own request replaced.                             *)
(***************************************************************************)
EXTENDS Naturals, FiniteSets

CONSTANTS
  Browsers,        \* of the account's owner
  Settings,        \* pairs: the kinds of call each browser makes, the app's settings
  None

VARIABLES
  uses,            \* the kinds of call each browser's user makes; never changes
  app,             \* the app that asks for the sign-in; never changes
  user,            \* the account
  trusted,         \* browsers whose trust record BetterAuth keeps
  stray,           \* the oldest session that lives though no browser holds its token
  jar,             \* the cookies of each browser
  call             \* each browser's server action, or navigation, under way

setting == <<uses, app>>

account == <<setting, user, trusted, stray>>

Kinds == {"signIn", "verifyOtp", "social", "verify", "accept", "authorize", "enable",
          "confirm", "disable", "regenerate", "reset"}

Token == {None, "plain", "strong", "dead", "rotated"}

\* on: twoFactorEnabled; row: a TwoFactor row exists; swept: the other sessions
\* were revoked for the enrolment that stands; otp: a sign-in code was mailed and
\* can still be used; prompted: twoFactorPromptedAt is less
\* than an interval old; accepted: SaUserConsent holds the app's documents.
User ==
  [status : {"active", "unverified", "inactive"}, on : BOOLEAN, row : BOOLEAN, swept : BOOLEAN,
   otp : BOOLEAN, prompted : BOOLEAN, accepted : BOOLEAN]

App == [require : BOOLEAN, prompt : BOOLEAN, documents : BOOLEAN]

ASSUME SettingsAssumption == Settings \subseteq [Browsers -> SUBSET Kinds] \X App

ASSUME NoneAssumption == None \notin Kinds \cup {"plain", "strong", "dead", "rotated", "app"}

Jar == [session : Token, challenge : BOOLEAN, trust : BOOLEAN]

\* session: the token the answer will set; off: 2FA was off at some time since the
\* call began; flag, prompted: what the lookups read, unread: what they still must;
\* known: no lookup failed.
Call ==
  [kind : {None} \cup Kinds, at : {"rest", "post", "revoke", "consent", "reads",
    "challenged", "consentDue", "promptDue", "next", "login", "enroll", "ok"},
   session : Token, trust : BOOLEAN, off : BOOLEAN, flag : BOOLEAN, prompted : BOOLEAN,
   unread : SUBSET {"flag", "prompted"}, known : BOOLEAN]

IdleCall ==
  [kind |-> None, at |-> "rest", session |-> None, trust |-> FALSE, off |-> FALSE,
   flag |-> FALSE, prompted |-> FALSE, unread |-> {}, known |-> TRUE]

NewUser ==
  [status |-> "active", on |-> FALSE, row |-> FALSE, swept |-> FALSE, otp |-> FALSE,
   prompted |-> FALSE, accepted |-> FALSE]

EmptyJar == [session |-> None, challenge |-> FALSE, trust |-> FALSE]

InitServer ==
  /\ \E s \in Settings : uses = s[1] /\ app = s[2]
  /\ user = NewUser
  /\ trusted = {} /\ stray = None
  /\ jar = [b \in Browsers |-> EmptyJar]
  /\ call = [b \in Browsers |-> IdleCall]

-----------------------------------------------------------------------------
(* The shape of the steps *)

Alive(token) == token \in {"plain", "strong"}

Idle(b) == call[b].kind = None

At(b, kind, stage) == call[b].kind = kind /\ call[b].at = stage

\* The call of b is at a stage only one of its kinds reaches.
Go(b, stage) == call' = [call EXCEPT ![b].at = stage]

Begin(b, kind, trust) ==
  /\ Idle(b) /\ kind \in uses[b]
  /\ call' = [call EXCEPT ![b] = [IdleCall EXCEPT !.kind = kind, !.at = "post",
                !.trust = trust, !.off = ~user.on]]

\* The sessions of the account end, b's own excepted where "spare" says so.
Ended(token) == IF Alive(token) THEN "dead" ELSE token

JarsAfter(Lost) ==
  [b \in Browsers |-> IF b \in Lost THEN [jar[b] EXCEPT !.session = Ended(@)] ELSE jar[b]]

CallsAfter(Lost) ==
  [b \in Browsers |-> IF b \in Lost THEN [call[b] EXCEPT !.session = Ended(@)] ELSE call[b]]

\* 2FA is off from here on: whatever session lives predates the next enrolment, and
\* a device that was trusted has nothing left to skip.
Aged(token) == IF Alive(token) THEN "plain" ELSE token

\* The kind of session that begins now.
Begun == IF user.on THEN "strong" ELSE "plain"

-----------------------------------------------------------------------------
(* The session gate *)

\* evaluateSessionGate: the session hook refuses an account that is not active,
\* whatever the method.
GateAllows == user.status = "active"

\* The hooks let the session be created.  Its cookie still has to reach b.
Admit(b, stage) ==
  /\ GateAllows
  /\ call' = [call EXCEPT ![b].session = Begun, ![b].at = stage,
                ![b].unread = {"flag", "prompted"}]

\* BetterAuth raises the challenge for an enrolled account unless the browser shows
\* a trust cookie whose record stands.
Challenged(b) == user.on /\ ~(jar[b].trust /\ b \in trusted)

(* The endpoints of BetterAuth that sign in.  A wrong credential, a refusal by   *)
(* the gate and a 429 all end in an error of the page: see Fail in LoginPages.   *)

SignInEmail(b) ==
  /\ At(b, "signIn", "post")
  /\ IF Challenged(b) THEN Go(b, "challenged") ELSE Admit(b, "consent")
  /\ UNCHANGED <<account, jar>>

\* sendSignInOtp mails the code to nobody but an active account without 2FA.
SendSignInOtp(b) ==
  /\ Idle(b)
  /\ user' = [user EXCEPT !.otp = @ \/ (user.status = "active" /\ ~user.on)]
  /\ UNCHANGED <<setting, trusted, stray, jar, call>>

\* A code mailed before the enrolment: whether BetterAuth challenges its holder is
\* its business, and verifyOtp takes either answer.
SignInOtp(b) ==
  /\ At(b, "verifyOtp", "post") /\ user.otp
  /\ user' = [user EXCEPT !.otp = FALSE]
  /\ \/ user.on /\ Go(b, "challenged")
     \/ Admit(b, "consent")
  /\ UNCHANGED <<setting, trusted, stray, jar>>

\* A TOTP code or a backup code, with the cookie of the challenge.
VerifyTwoFactor(b) ==
  /\ At(b, "verify", "post") /\ jar[b].challenge /\ user.on /\ user.row
  /\ Admit(b, "consent")
  /\ trusted' = IF call[b].trust THEN trusted \cup {b} ELSE trusted
  /\ UNCHANGED <<setting, user, stray, jar>>

(* The consent gate *)

Outstanding == app.documents /\ ~user.accepted

\* The callback's after-hook turns the redirect to the consent page where a
\* document is outstanding; BetterAuth sets the cookie either way.
SocialCallback(b) ==
  /\ At(b, "social", "post")
  /\ Admit(b, IF Outstanding THEN "consentDue" ELSE "next")
  /\ UNCHANGED <<account, jar>>

\* recordMyConsent: only what is outstanding is written.
RecordMyConsent(b) ==
  /\ At(b, "accept", "post") /\ Alive(jar[b].session)
  /\ user' = [user EXCEPT !.accepted = TRUE]
  /\ Go(b, "next")
  /\ UNCHANGED <<setting, trusted, stray, jar>>

-----------------------------------------------------------------------------
(* The account's own second factor *)

\* BetterAuth writes a fresh row; the flag waits for the first code.
EnableTwoFactor(b) ==
  /\ At(b, "enable", "post") /\ Alive(jar[b].session)
  /\ user' = [user EXCEPT !.row = TRUE]
  /\ Go(b, "ok")
  /\ UNCHANGED <<setting, trusted, stray, jar>>

\* The first code of an enrolment turns the flag on and rotates the session; a code
\* for an account that is enrolled changes nothing.
ConfirmTwoFactor(b) ==
  /\ At(b, "confirm", "post") /\ Alive(jar[b].session) /\ user.row
  /\ IF user.on
       THEN Go(b, "ok") /\ UNCHANGED <<user, jar>>
       ELSE /\ user' = [user EXCEPT !.on = TRUE]
            /\ jar' = [jar EXCEPT ![b].session = "rotated"]
            /\ call' = [call EXCEPT ![b].session = "strong", ![b].at = "revoke"]
  /\ UNCHANGED <<setting, trusted, stray>>

\* Slip: the revocation is sent with the cookie of the request, which the
\* enrolment has just replaced.
MutPresented(b) == jar[b].session

\* revokeOtherSessions presents the token of the answer, not the one of the request.
Presented(b) == call[b].session

\* BetterAuth ends every session but the one presented; with a token that is dead it
\* does nothing, and confirmEnable does not mind.
RevokeOtherSessions(b) ==
  /\ At(b, "confirm", "revoke")
  /\ IF Alive(Presented(b))
       THEN /\ stray' = None
            /\ jar' = JarsAfter(Browsers)
            /\ call' = [CallsAfter(Browsers \ {b}) EXCEPT ![b].at = "ok"]
       ELSE Go(b, "ok") /\ UNCHANGED <<stray, jar>>
  /\ user' = [user EXCEPT !.swept = @ \/ call[b].session = "strong"]
  /\ UNCHANGED <<setting, trusted>>

\* 2FA ends for the account: sessions and calls see it as off from now on.
TurnOff(Rotating, tokens) ==
  /\ user' = [user EXCEPT !.on = FALSE, !.row = FALSE, !.swept = FALSE]
  /\ stray' = Aged(stray)
  /\ jar' = [x \in Browsers |-> [jar[x] EXCEPT !.session =
               IF x \in Rotating THEN "rotated" ELSE Aged(@)]]
  /\ call' = [x \in Browsers |-> [call[x] EXCEPT !.off = ~Idle(x),
                !.session = IF x \in Rotating THEN tokens ELSE Aged(@),
                !.at = IF x \in Rotating THEN "ok" ELSE @]]

\* The row, the flag and this browser's trust record go, and the session rotates
\* here too.
DisableTwoFactor(b) ==
  /\ At(b, "disable", "post") /\ Alive(jar[b].session)
  /\ TurnOff({b}, "plain")
  /\ trusted' = IF jar[b].trust THEN trusted \ {b} ELSE trusted
  /\ UNCHANGED setting

GenerateBackupCodes(b) ==
  /\ At(b, "regenerate", "post") /\ Alive(jar[b].session) /\ user.row
  /\ Go(b, "ok")
  /\ UNCHANGED <<account, jar>>

\* An administrator's reset2fa: row and flag in one transaction; the sessions stay.
Reset2fa ==
  /\ TurnOff({}, None)
  /\ UNCHANGED <<setting, trusted>>

-----------------------------------------------------------------------------
(* Passwords, and the administrator's switch *)

\* revokeSessionsOnPasswordReset: every session of the account ends.
EndSessions ==
  /\ stray' = None
  /\ jar' = JarsAfter(Browsers)

ResetPassword(b) ==
  /\ At(b, "reset", "post")
  /\ EndSessions
  /\ call' = [CallsAfter(Browsers) EXCEPT ![b].at = "ok"]
  /\ UNCHANGED <<setting, user, trusted>>

Deactivate ==
  /\ user.status = "active"
  /\ user' = [user EXCEPT !.status = "inactive"]
  /\ EndSessions
  /\ call' = CallsAfter(Browsers)
  /\ UNCHANGED <<setting, trusted>>

Reactivate ==
  /\ user.status = "inactive"
  /\ user' = [user EXCEPT !.status = "active"]
  /\ UNCHANGED <<setting, trusted, stray, jar, call>>

-----------------------------------------------------------------------------
(* The authorization endpoint, as far as a second factor is concerned *)

\* isTwoFactorRequired against the flag the session carries: an app that insists
\* sends the user to enrol and takes him back afterwards.
OAuthAuthorize(b) ==
  /\ At(b, "authorize", "post")
  /\ IF ~Alive(jar[b].session) THEN Go(b, "login")
     ELSE /\ user.status = "active"
          /\ IF app.require /\ ~user.on THEN Go(b, "enroll") ELSE Go(b, "next")
  /\ UNCHANGED <<account, jar>>

=============================================================================
