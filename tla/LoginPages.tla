----------------------------- MODULE LoginPages -----------------------------
(***************************************************************************)
(* The login pages of the admin console and the page of the second factor, *)
(* over the auth server of SignIn: in each browser one page, its React     *)
(* state, and the server action or navigation it is waiting for.           *)
(*                                                                         *)
(* "app" stands for the address an app's authorize request is resumed at,  *)
(* "console" for every page behind the middleware but the security page.   *)
(* Colours, texts and the formats of addresses and cookies are left out.   *)
(***************************************************************************)
EXTENDS SignIn

VARIABLE tab

vars == <<account, jar, call, tab>>

\* next: where the page was told to go on to; enabled: what SecurityClient believes;
\* signed: this visit signed in, for the app; excused: a lookup of the documents it
\* must accept got no answer.
Tab ==
  [page : {"blank", "login", "code", "challenge", "gate", "consent", "prompt", "security",
           "reset", "console", "app", "oauthError", "refused"},
   next : {None, "app"},
   step : {"email", "code", "idle", "qr", "done", "disabling", "regenerating"},
   forced : BOOLEAN, enabled : BOOLEAN, signed : BOOLEAN, excused : BOOLEAN]

\* Slip: what the page believes of the second factor starts out undefined.
MutNewTab ==
  [page |-> "blank", next |-> None, step |-> "idle", forced |-> FALSE, enabled |-> None,
   signed |-> FALSE, excused |-> FALSE]

NewTab ==
  [page |-> "blank", next |-> None, step |-> "idle", forced |-> FALSE, enabled |-> FALSE,
   signed |-> FALSE, excused |-> FALSE]

Init == InitServer /\ tab = [b \in Browsers |-> NewTab]

On(b, page) == tab[b].page = page /\ Idle(b)

\* The browser shows another page of the same visit.
Turn(b, page) ==
  tab' = [tab EXCEPT ![b] = [tab[b] EXCEPT !.page = page, !.step =
    IF page = "code" THEN "email" ELSE "idle", !.forced = FALSE, !.enabled = FALSE]]

\* A visit begins.
Visit(b, page, next) == tab' = [tab EXCEPT ![b] = [NewTab EXCEPT !.page = page, !.next = next]]

Rest(b) == call' = [call EXCEPT ![b] = IdleCall]

Oldest(s, t) ==
  IF "plain" \in {s, t} THEN "plain" ELSE IF "strong" \in {s, t} THEN "strong" ELSE None

(* Cookies *)

\* forwardSessionCookie, forwardNamedCookie: the token of the answer replaces the
\* one in the jar, whose session, if it lives, nobody holds any longer.
NewSession(b) ==
  IF call[b].session = None THEN jar[b].session ELSE call[b].session

Forsaken(b) == IF call[b].session = None THEN None ELSE jar[b].session

\* Slip: disable2fa keeps the token it sent.
MutForwardAfterDisable(b) ==
  /\ jar' = [jar EXCEPT ![b].trust = FALSE]
  /\ stray' = Oldest(stray, call[b].session)

ForwardAfterDisable(b) ==
  /\ jar' = [jar EXCEPT ![b].session = NewSession(b), ![b].trust = FALSE]
  /\ stray' = Oldest(stray, Forsaken(b))

Forward(b) ==
  /\ jar' = [jar EXCEPT ![b].session = NewSession(b)]
  /\ stray' = Oldest(stray, Forsaken(b))

\* verifyTotp and verifyBackupCode also take the challenge back, and the trust
\* cookie where the box was ticked.
ForwardAfterChallenge(b) ==
  /\ jar' = [jar EXCEPT ![b] = [session |-> NewSession(b), challenge |-> FALSE,
               trust |-> jar[b].trust \/ call[b].trust]]
  /\ stray' = Oldest(stray, Forsaken(b))

ForwardCookies(b) == IF call[b].kind = "verify" THEN ForwardAfterChallenge(b) ELSE Forward(b)

ServerKeeps == UNCHANGED <<setting, user, trusted>>

-----------------------------------------------------------------------------
(* What the browser does when it is told to go on *)

\* The authorize request, or a page of the console.
GoOn(b) ==
  IF tab[b].next = "app"
    THEN /\ call' = [call EXCEPT ![b] = [IdleCall EXCEPT !.kind = "authorize", !.at = "post"]]
         /\ Turn(b, "blank")
    ELSE Rest(b) /\ Turn(b, "console")

(* Visits *)

\* A user comes to the app, which sends him to the authorization endpoint.
OpenApp(b) ==
  /\ Idle(b)
  /\ Begin(b, "authorize", FALSE)
  /\ Visit(b, "blank", "app")
  /\ UNCHANGED <<account, jar>>

\* LoginPage: a session that stands takes the user straight on; a lookup that fails
\* shows the form.
OpenLogin(b, next) ==
  /\ Idle(b) /\ uses[b] # {} /\ (next = "app" => "authorize" \in uses[b])
  /\ \/ /\ next = "app" /\ Alive(jar[b].session)
        /\ Begin(b, "authorize", FALSE) /\ Visit(b, "blank", next)
     \/ Visit(b, "login", next) /\ UNCHANGED call
  /\ UNCHANGED <<account, jar>>

\* The middleware lets the request through, for a dead token while its cache holds,
\* or turns it to the login page.
OpenConsole(b) ==
  /\ Idle(b) /\ uses[b] # {}
  /\ \/ jar[b].session # None /\ Visit(b, "console", None)
     \/ Visit(b, "login", None)
  /\ UNCHANGED <<account, jar, call>>

\* SecurityPage reads the live flag; without a session it turns to the login page.
SecurityPage(b, forced, next) ==
  IF Alive(jar[b].session)
    THEN tab' = [tab EXCEPT ![b] = [tab[b] EXCEPT !.page = "security", !.step = "idle",
                   !.next = next, !.forced = forced, !.enabled = user.on]]
    ELSE Visit(b, "login", None)

OpenSecurity(b) ==
  /\ On(b, "console")
  /\ SecurityPage(b, FALSE, None)
  /\ UNCHANGED <<account, jar, call>>

-----------------------------------------------------------------------------
(* Login form and one-time code *)

SubmitPassword(b) ==
  /\ On(b, "login")
  /\ Begin(b, "signIn", FALSE)
  /\ UNCHANGED <<account, jar, tab>>

\* SocialButtons leaves for the provider, who sends the browser to the callback.
SubmitSocial(b) ==
  /\ On(b, "login")
  /\ Begin(b, "social", FALSE)
  /\ UNCHANGED <<account, jar, tab>>

UseCode(b) ==
  /\ On(b, "login") /\ "verifyOtp" \in uses[b]
  /\ Turn(b, "code")
  /\ UNCHANGED <<account, jar, call>>

\* requestOtp answers "sent" whatever the server made of it.
RequestOtp(b) ==
  /\ On(b, "code") /\ tab[b].step = "email"
  /\ SendSignInOtp(b)
  /\ tab' = [tab EXCEPT ![b].step = "code"]

ChangeEmail(b) ==
  /\ On(b, "code") /\ tab[b].step = "code"
  /\ tab' = [tab EXCEPT ![b].step = "email"]
  /\ UNCHANGED <<account, jar, call>>

UsePassword(b) ==
  /\ On(b, "code") /\ tab[b].step = "email" /\ Turn(b, "login")
  /\ UNCHANGED <<account, jar, call>>

SubmitOtp(b) ==
  /\ On(b, "code") /\ tab[b].step = "code"
  /\ Begin(b, "verifyOtp", FALSE)
  /\ UNCHANGED <<account, jar, tab>>

\* TwoFactorForm: a code of either kind, and whether to trust the device.
SubmitChallenge(b, trust) ==
  /\ On(b, "challenge")
  /\ Begin(b, "verify", trust)
  /\ UNCHANGED <<account, jar, tab>>

\* signIn and verifyOtp were answered with twoFactorRedirect: only the challenge's
\* cookie is passed on.
ShowChallenge(b) ==
  /\ call[b].at = "challenged"
  /\ jar' = [jar EXCEPT ![b].challenge = TRUE]
  /\ Rest(b) /\ Turn(b, "challenge")
  /\ UNCHANGED account

-----------------------------------------------------------------------------
(* The rest of signIn, verifyOtp, verifyTotp and verifyBackupCode, once there is *)
(* a session                                                                      *)

SignsIn(b) == call[b].kind \in {"signIn", "verifyOtp", "verify", "social"}

\* Only the first factor is followed by the question whether to set up a second.
AfterConsent(b) == IF call[b].kind = "verify" THEN "next" ELSE "reads"

\* Slip: the challenge's two actions go straight on.
MutMaybeRedirectToConsent(b) ==
  IF tab[b].next = None \/ call[b].kind = "verify"
    THEN Go(b, AfterConsent(b)) /\ UNCHANGED tab
    ELSE \/ /\ Alive(call[b].session)
            /\ Go(b, IF Outstanding THEN "consentDue" ELSE AfterConsent(b))
            /\ UNCHANGED tab
         \/ /\ Go(b, AfterConsent(b))
            /\ tab' = [tab EXCEPT ![b].excused = TRUE]

\* An app's sign-in asks for what is outstanding; no answer counts as nothing.
MaybeRedirectToConsent(b) ==
  IF tab[b].next = None
    THEN Go(b, AfterConsent(b)) /\ UNCHANGED tab
    ELSE \/ /\ Alive(call[b].session)
            /\ Go(b, IF Outstanding THEN "consentDue" ELSE AfterConsent(b))
            /\ UNCHANGED tab
         \/ /\ Go(b, AfterConsent(b))
            /\ tab' = [tab EXCEPT ![b].excused = TRUE]

LookUpConsent(b) ==
  /\ call[b].at = "consent"
  /\ MaybeRedirectToConsent(b)
  /\ UNCHANGED <<account, jar>>

\* The two lookups run side by side; each reads what stands when it is served, and
\* one that fails leaves the default.  For a session that has ended, get-session
\* answers too, with nobody.
ReadState(b, what) ==
  /\ call[b].at = "reads" /\ what \in call[b].unread
  /\ \/ /\ Alive(call[b].session)
        /\ call' = [call EXCEPT ![b].unread = @ \ {what},
             ![b].flag = IF what = "flag" THEN user.on ELSE @,
             ![b].prompted = IF what = "prompted" THEN user.prompted ELSE @]
     \/ /\ ~Alive(call[b].session) /\ what = "flag"
        /\ call' = [call EXCEPT ![b].unread = @ \ {what}]
     \/ call' = [call EXCEPT ![b].unread = @ \ {what}, ![b].known = FALSE]
  /\ UNCHANGED <<account, jar, tab>>

\* Slip: the defaults of a failed lookup are taken for the account's state.
MutShouldPrompt(b, enabled) == enabled /\ ~call[b].flag /\ ~call[b].prompted

\* shouldPromptTwoFactor, asked only where both lookups answered.
ShouldPrompt(b, enabled) ==
  call[b].known /\ enabled /\ ~call[b].flag /\ ~call[b].prompted

\* The app's setting where its lookup answers, the system's otherwise.
PromptEnabled(b) == IF tab[b].next = "app" THEN {app.prompt, TRUE} ELSE {TRUE}

MaybeRedirectToTwoFactorPrompt(b) ==
  /\ call[b].at = "reads" /\ call[b].unread = {}
  /\ \E enabled \in PromptEnabled(b) :
       Go(b, IF ShouldPrompt(b, enabled) THEN "promptDue" ELSE "next")
  /\ UNCHANGED <<account, jar, tab>>

\* The answer arrives: its cookies are set and the browser follows the redirect.
SignedIn(b) == [tab EXCEPT ![b].signed = tab[b].next = "app"]

Arrive(b, page) ==
  tab' = [SignedIn(b) EXCEPT ![b].page = page, ![b].step = "idle"]

FollowRedirect(b) ==
  /\ SignsIn(b)
  /\ ForwardCookies(b) /\ ServerKeeps
  /\ \/ call[b].at = "consentDue" /\ Arrive(b, "gate") /\ Rest(b)
     \/ call[b].at = "promptDue" /\ Arrive(b, "prompt") /\ Rest(b)
     \/ call[b].at = "next" /\ tab[b].next = None /\ Arrive(b, "console") /\ Rest(b)
     \/ call[b].at = "next" /\ tab[b].next = "app" /\ Arrive(b, "blank")
        /\ call' = [call EXCEPT ![b] = [IdleCall EXCEPT !.kind = "authorize", !.at = "post"]]

-----------------------------------------------------------------------------
(* Consent page and prompt *)

\* LoginConsentPage asks again; with nothing outstanding, or no answer, it goes on.
LoadConsentPage(b) ==
  /\ On(b, "gate")
  /\ \/ Alive(jar[b].session) /\ Outstanding /\ Turn(b, "consent") /\ UNCHANGED call
     \/ Alive(jar[b].session) /\ ~Outstanding /\ GoOn(b)
     \/ /\ call' = [call EXCEPT ![b] = IF tab[b].next = None THEN IdleCall
             ELSE [IdleCall EXCEPT !.kind = "authorize", !.at = "post"]]
        /\ tab' = [tab EXCEPT ![b].excused = TRUE,
             ![b].page = IF tab[b].next = None THEN "console" ELSE "blank"]
  /\ UNCHANGED <<account, jar>>

SubmitConsent(b) ==
  /\ On(b, "consent")
  /\ Begin(b, "accept", FALSE)
  /\ UNCHANGED <<account, jar, tab>>

ConsentAccepted(b) ==
  /\ At(b, "accept", "next")
  /\ GoOn(b)
  /\ UNCHANGED <<account, jar>>

\* recordPrompt is best effort: without a session, or an answer, nothing is kept.
RecordPrompt(b) ==
  /\ \/ Alive(jar[b].session) /\ user' = [user EXCEPT !.prompted = TRUE]
     \/ UNCHANGED user
  /\ UNCHANGED <<setting, trusted, stray, jar>>

SkipPrompt(b) == On(b, "prompt") /\ RecordPrompt(b) /\ GoOn(b)

SetUpTwoFactor(b) ==
  /\ On(b, "prompt") /\ RecordPrompt(b)
  /\ SecurityPage(b, FALSE, tab[b].next)
  /\ UNCHANGED call

-----------------------------------------------------------------------------
(* The answers of the authorization endpoint *)

ReachApp(b) ==
  /\ At(b, "authorize", "next")
  /\ Rest(b) /\ Turn(b, "app")
  /\ UNCHANGED <<account, jar>>

BounceToLogin(b) ==
  /\ At(b, "authorize", "login")
  /\ Rest(b) /\ Visit(b, "login", "app")
  /\ UNCHANGED <<account, jar>>

\* ?enroll=1 puts the page in its forced mode.
BounceToEnrol(b) ==
  /\ At(b, "authorize", "enroll")
  /\ Rest(b) /\ SecurityPage(b, TRUE, "app")
  /\ UNCHANGED <<account, jar>>

-----------------------------------------------------------------------------
(* SecurityClient *)

OnStep(b, enabled, Steps) ==
  On(b, "security") /\ tab[b].enabled = enabled /\ tab[b].step \in Steps

SubmitEnable(b) ==
  /\ OnStep(b, FALSE, {"idle"})
  /\ Begin(b, "enable", FALSE)
  /\ UNCHANGED <<account, jar, tab>>

SubmitConfirm(b) ==
  /\ OnStep(b, FALSE, {"qr"})
  /\ Begin(b, "confirm", FALSE)
  /\ UNCHANGED <<account, jar, tab>>

\* The two buttons of an enrolled account, and Cancel.
ChooseStep(b) ==
  /\ OnStep(b, TRUE, {"idle", "done", "disabling", "regenerating"})
  /\ \E step \in {"idle", "disabling", "regenerating"} :
       /\ step = "idle" <=> tab[b].step \in {"disabling", "regenerating"}
       /\ tab' = [tab EXCEPT ![b].step = step]
  /\ UNCHANGED <<account, jar, call>>

SubmitDisable(b) ==
  /\ OnStep(b, TRUE, {"disabling"})
  /\ Begin(b, "disable", FALSE)
  /\ UNCHANGED <<account, jar, tab>>

SubmitRegenerate(b) ==
  /\ OnStep(b, TRUE, {"regenerating"})
  /\ Begin(b, "regenerate", FALSE)
  /\ UNCHANGED <<account, jar, tab>>

EnableAnswered(b) ==
  /\ At(b, "enable", "ok")
  /\ Rest(b) /\ tab' = [tab EXCEPT ![b].step = "qr"]
  /\ UNCHANGED <<account, jar>>

ConfirmAnswered(b) ==
  /\ At(b, "confirm", "ok")
  /\ Forward(b) /\ ServerKeeps
  /\ Rest(b) /\ tab' = [tab EXCEPT ![b].step = "done", ![b].enabled = TRUE]

DisableAnswered(b) ==
  /\ At(b, "disable", "ok")
  /\ ForwardAfterDisable(b) /\ ServerKeeps
  /\ Rest(b) /\ tab' = [tab EXCEPT ![b].step = "idle", ![b].enabled = FALSE]

RegenerateAnswered(b) ==
  /\ At(b, "regenerate", "ok")
  /\ Rest(b) /\ tab' = [tab EXCEPT ![b].step = "done"]
  /\ UNCHANGED <<account, jar>>

\* The button that takes a user who was made to enrol back to his app.
Continue(b) ==
  /\ OnStep(b, TRUE, {"done"}) /\ tab[b].forced /\ tab[b].next = "app"
  /\ GoOn(b)
  /\ UNCHANGED <<account, jar>>

-----------------------------------------------------------------------------
(* Passwords, sign-out, errors *)

\* A reset link was mailed, at the user's request or an administrator's, and is
\* opened here.
OpenReset(b) ==
  /\ Idle(b) /\ "reset" \in uses[b]
  /\ Visit(b, "reset", None)
  /\ UNCHANGED <<account, jar, call>>

SubmitReset(b) ==
  /\ On(b, "reset")
  /\ Begin(b, "reset", FALSE)
  /\ UNCHANGED <<account, jar, tab>>

ResetAnswered(b) ==
  /\ At(b, "reset", "ok")
  /\ Rest(b) /\ Visit(b, "login", None)
  /\ UNCHANGED <<account, jar>>

\* The cookie goes, the session only where the auth server was reached.
SignOut(b) ==
  /\ On(b, "console")
  /\ \E heard \in BOOLEAN : stray' = IF heard THEN stray ELSE Oldest(stray, jar[b].session)
  /\ jar' = [jar EXCEPT ![b].session = None]
  /\ Visit(b, "login", None)
  /\ UNCHANGED <<setting, user, trusted, call>>

\* The server refuses, throttles or cannot be reached: the page says so and stays.
Fail(b) ==
  /\ call[b].at = "post"
  /\ Rest(b)
  /\ CASE call[b].kind = "social" -> Visit(b, "oauthError", None)
       [] call[b].kind = "authorize" -> Visit(b, "refused", None)
       [] OTHER -> UNCHANGED tab
  /\ UNCHANGED <<account, jar>>

\* The answer is lost, or none of its cookies could be read: what the server did
\* stays done.
Lose(b) ==
  /\ ~Idle(b) /\ call[b].at # "post"
  /\ Rest(b)
  /\ stray' = Oldest(stray, call[b].session)
  /\ jar' = [jar EXCEPT ![b].session = IF @ = "rotated" THEN "dead" ELSE @]
  /\ ServerKeeps /\ UNCHANGED tab

-----------------------------------------------------------------------------
(* Time and the rest of the world *)

PromptAgain ==
  /\ user.prompted
  /\ user' = [user EXCEPT !.prompted = FALSE]
  /\ UNCHANGED <<setting, trusted, stray, jar, call, tab>>

CodeExpires ==
  /\ user.otp
  /\ user' = [user EXCEPT !.otp = FALSE]
  /\ UNCHANGED <<setting, trusted, stray, jar, call, tab>>

\* The record at BetterAuth or the browser's cookie runs out, whichever is shorter.
DeviceForgotten(b) ==
  /\ \/ b \in trusted /\ trusted' = trusted \ {b} /\ UNCHANGED jar
     \/ jar[b].trust /\ jar' = [jar EXCEPT ![b].trust = FALSE] /\ UNCHANGED trusted
  /\ UNCHANGED <<setting, user, stray, call, tab>>

Administer == (Deactivate \/ Reactivate \/ Reset2fa) /\ UNCHANGED tab

Serve(b) ==
  /\ \/ SignInEmail(b) \/ SignInOtp(b) \/ SocialCallback(b) \/ VerifyTwoFactor(b)
     \/ RecordMyConsent(b) \/ EnableTwoFactor(b) \/ ConfirmTwoFactor(b) \/ RevokeOtherSessions(b)
     \/ DisableTwoFactor(b) \/ GenerateBackupCodes(b) \/ ResetPassword(b) \/ OAuthAuthorize(b)
  /\ UNCHANGED tab

Browse(b) ==
  \/ OpenApp(b) \/ OpenConsole(b) \/ OpenSecurity(b) \/ OpenReset(b)
  \/ \E next \in {None, "app"} : OpenLogin(b, next)
  \/ SubmitPassword(b) \/ SubmitSocial(b) \/ UseCode(b) \/ UsePassword(b)
  \/ RequestOtp(b) \/ ChangeEmail(b) \/ SubmitOtp(b)
  \/ \E trust \in BOOLEAN : SubmitChallenge(b, trust)
  \/ SubmitConsent(b) \/ SkipPrompt(b) \/ SetUpTwoFactor(b)
  \/ SubmitEnable(b) \/ SubmitConfirm(b) \/ ChooseStep(b) \/ SubmitDisable(b)
  \/ SubmitRegenerate(b) \/ Continue(b) \/ SubmitReset(b) \/ SignOut(b)

Answered(b) ==
  \/ ShowChallenge(b) \/ LookUpConsent(b) \/ MaybeRedirectToTwoFactorPrompt(b)
  \/ \E what \in {"flag", "prompted"} : ReadState(b, what)
  \/ FollowRedirect(b) \/ LoadConsentPage(b) \/ ConsentAccepted(b)
  \/ ReachApp(b) \/ BounceToLogin(b) \/ BounceToEnrol(b)
  \/ EnableAnswered(b) \/ ConfirmAnswered(b) \/ DisableAnswered(b) \/ RegenerateAnswered(b)
  \/ ResetAnswered(b) \/ Fail(b) \/ Lose(b)

Next ==
  \/ \E b \in Browsers : Serve(b) \/ Browse(b) \/ Answered(b) \/ DeviceForgotten(b)
  \/ PromptAgain \/ CodeExpires \/ Administer

Spec == Init /\ [][Next]_vars

-----------------------------------------------------------------------------
(* Properties *)

TypeOK ==
  /\ app \in App /\ user \in User /\ trusted \subseteq Browsers
  /\ stray \in {None, "plain", "strong"}
  /\ jar \in [Browsers -> Jar] /\ call \in [Browsers -> Call] /\ tab \in [Browsers -> Tab]

\* Enrolling and disenrolling replace the session of the browser that asked.  Once
\* the page has its answer the browser holds the new token: it is never left with
\* one the server has thrown away for the user's own request, which would send him
\* to the login page although he was told that all went well.
RotationFollowed ==
  \A b \in Browsers : jar[b].session = "rotated" => call[b].kind \in {"confirm", "disable"}

\* Once confirmEnable has revoked the other sessions, no session begun before the
\* enrolment lives for as long as the enrolment stands: not in another browser, not
\* in an answer under way, not where nobody holds its token.
EnrolmentSweeps ==
  user.swept =>
    "plain" \notin {stray} \cup {jar[b].session : b \in Browsers}
                           \cup {call[b].session : b \in Browsers}

\* Whoever signs in for an app, by any of the four ways and whatever pages come in
\* between, reaches it with its documents accepted, unless the lookup of what is
\* outstanding got no answer; and a user whose account has had 2FA since before he
\* signed in is never sent to the page that proposes to set it up, whatever the lookups
\* answer, unless his session was ended under them.
PagesInOrder ==
  [][\A b \in Browsers :
       /\ (tab[b].page = "app" /\ tab[b].signed /\ ~tab[b].excused => ~Outstanding)'
       /\ call[b].at # "promptDue" /\ call'[b].at = "promptDue" =>
            call[b].off \/ ~Alive(call[b].session)]_vars

=============================================================================
