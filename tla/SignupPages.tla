------------------------------ MODULE SignupPages ------------------------------
(***************************************************************************)
(* The sign-up pages of the admin console: SignupPage chooses between the  *)
(* form (SignupForm) and the code-first wizard (SignupWizard); check-email *)
(* and verified resend the link.  Each tab is one visit, with its React    *)
(* state; its requests run in the slots <<tab, "main">> and                *)
(* <<tab, "resend">> of Registration, because the wizard's Resend button   *)
(* stays usable while another request of the page is under way.            *)
(*                                                                         *)
(* Fields whose text no step depends on (names, password, consent boxes)   *)
(* are left out: a form is submitted when it is complete, and the server   *)
(* may still refuse it.  So are the countdowns that space out resends: time *)
(* passes as fast as it likes.                                             *)
(***************************************************************************)
EXTENDS Registration

CONSTANTS
  Tabs,            \* visits to the pages
  Informed         \* those for which fetchAppInfo finds the app's row

ASSUME InformedAssumption == Informed \subseteq Tabs

ASSUME SlotsAssumption ==
  Tabs \X {"main"} \subseteq Calls /\ Calls \subseteq Tabs \X {"main", "resend"}

VARIABLE tab

vars == <<app, account, born, otp, inbox, call, received, audited, faults, crashes, tab>>

\* otp: what stands in the code field, None when it is empty; auto: the wizard's
\* codeAutoSubmit; uid: the account whose sign-up this tab was told is done.
Tab ==
  [page : {"blank", "form", "wizard", "checkEmail", "verifying", "verified", "ready", "expired", "invalid",
           "provider", "consent", "oauthError", "forbidden", "app"},
   step : {"email", "code", "password", "name"},
   captcha : BOOLEAN, otp : {None, Wrong, Live}, auto : BOOLEAN,
   uid : {None} \cup Uids]

NewTab ==
  [page |-> "blank", step |-> "email", captcha |-> FALSE, otp |-> None,
   auto |-> TRUE, uid |-> None]

Init == InitServer /\ tab = [t \in Tabs |-> NewTab]

Main(t) == <<t, "main">>
Side(t) == <<t, "resend">>

\* No resend is under way.
Unhurried(t) == Side(t) \in Calls => Idle(Side(t))

\* Nothing of the server changes but the call record.
ServerKeeps == UNCHANGED <<app, account, born, otp, inbox, received, audited, faults, crashes>>

Unsubmitted(t) == Idle(Main(t))

\* The browser leaves the page, and with it the state of its component.
Leave(t, page, uid) == [tab EXCEPT ![t] = [NewTab EXCEPT !.page = page, !.uid = uid]]

OnStep(t, step) == tab[t].page = "wizard" /\ tab[t].step = step

\* Turnstile decides on the token: one used before is most likely refused, and so
\* may be any other.
CaptchaRefused(c, kind) == Refuse(c, kind, "error")

(* The server actions the pages call *)

SendRegister(t) ==
  Begin(Main(t), "register", "signUp", Wrong) \/ CaptchaRefused(Main(t), "register")

SendStart(c) == Begin(c, "start", "lookup", Wrong) \/ CaptchaRefused(c, "start")

SendCode(t, code) == Begin(Main(t), "verify", "check", code)

\* An empty code does not pass the DTO.
SendCompletion(t) ==
  \/ tab[t].otp # None /\ Begin(Main(t), "complete", "verifyOtp", tab[t].otp)
  \/ Refuse(Main(t), "complete", "error")

(* The controls each step of the wizard offers *)

CanSubmitEmail(t) == OnStep(t, "email") /\ Unsubmitted(t)

\* The code field rests while a request runs; the Resend button does not.
CanTypeCode(t) == OnStep(t, "code") /\ Unsubmitted(t)

CanResend(t) == OnStep(t, "code") /\ Side(t) \in Calls /\ Idle(Side(t))

CanSubmitPassword(t) == OnStep(t, "password")

CanSubmitName(t) == OnStep(t, "name") /\ Unsubmitted(t)

\* The answer is taken by the page and the slot is free again.
Take(c, kind) ==
  /\ At(c, kind, "answered")
  /\ call' = [call EXCEPT ![c] = IdleCall]

-----------------------------------------------------------------------------
FetchAppInfo(t) == t \in Informed

\* Where fetchAppInfo failed the page falls back to the form.
OpenSignup(t) ==
  /\ tab[t].page = "blank"
  /\ tab' = [tab EXCEPT ![t].page =
       IF FetchAppInfo(t) /\ app.method = "code" THEN "wizard" ELSE "form"]
  /\ UNCHANGED call /\ ServerKeeps

\* The widget of the e-mail step hands out a token, and takes back one that
\* expired.
CaptchaChanges(t) ==
  /\ OnStep(t, "email")
  /\ tab' = [tab EXCEPT ![t].captcha = ~@]
  /\ UNCHANGED call /\ ServerKeeps

(* SignupForm *)

SubmitForm(t) ==
  /\ tab[t].page = "form" /\ Unsubmitted(t)
  /\ SendRegister(t)
  /\ UNCHANGED tab /\ ServerKeeps

\* Off to the app, or to the page that waits for the mail; errors stay here.
FormAnswered(t) ==
  LET c == Main(t) IN
  /\ Take(c, "register")
  /\ tab' = CASE call[c].answer = "redirect" -> Leave(t, "app", call[c].uid)
              [] call[c].answer = "ok" -> Leave(t, "checkEmail", call[c].uid)
              [] OTHER -> tab
  /\ ServerKeeps

-----------------------------------------------------------------------------
(* SignupWizard *)

HandleEmailSubmit(t) ==
  /\ CanSubmitEmail(t) /\ tab[t].captcha
  /\ SendStart(Main(t))
  /\ UNCHANGED tab /\ ServerKeeps

\* A start called from the last step replaces the expired code.
EmailSubmitAnswered(t) ==
  LET c == Main(t) IN
  /\ tab[t].step # "name" /\ Take(c, "start")
  /\ tab' = IF call[c].answer = "ok"
              THEN [tab EXCEPT ![t].auto = TRUE, ![t].step = "code"] ELSE tab
  /\ ServerKeeps

\* Six digits are typed; the first attempt is sent off by an effect, after a
\* wrong code the button has to be pressed.
TypeCode(t, code) ==
  /\ CanTypeCode(t) /\ tab[t].otp # code
  /\ tab' = [tab EXCEPT ![t].otp = code]
  /\ IF tab[t].auto THEN SendCode(t, code) ELSE UNCHANGED call
  /\ ServerKeeps

PressVerify(t) ==
  /\ CanTypeCode(t) /\ ~tab[t].auto /\ tab[t].otp # None
  /\ SendCode(t, tab[t].otp)
  /\ UNCHANGED tab /\ ServerKeeps

VerifyCodeAnswered(t) ==
  LET c == Main(t) IN
  /\ Take(c, "verify")
  /\ tab' = IF call[c].answer = "ok" THEN [tab EXCEPT ![t].step = "password"]
            ELSE [tab EXCEPT ![t].auto = FALSE]
  /\ ServerKeeps

\* Back to the e-mail step, to solve the captcha again.
BackToEmail(t) == [tab EXCEPT ![t].captcha = FALSE, ![t].otp = None, ![t].step = "email"]

\* Without a token, back to the e-mail step at once.
HandleResend(t) ==
  /\ CanResend(t)
  /\ IF tab[t].captcha
       THEN SendStart(Side(t)) /\ UNCHANGED tab
       ELSE tab' = BackToEmail(t) /\ UNCHANGED call
  /\ ServerKeeps

\* The answer is applied whatever step the wizard shows by now.  When the
\* request itself got lost only a message is shown.
ResendAnswered(t) ==
  LET c == Side(t) IN
  /\ c \in Calls /\ tab[t].page = "wizard"
  /\ Take(c, "start")
  /\ \/ /\ call[c].answer = "ok"
        /\ tab' = [tab EXCEPT ![t].otp = None, ![t].auto = TRUE]
     \/ call[c].answer # "ok" /\ tab' = BackToEmail(t)
     \/ call[c].answer = "error" /\ UNCHANGED tab
  /\ ServerKeeps

\* The wizard is gone: its answers are heard by nobody.
ResendUnheard(t) ==
  LET c == Side(t) IN
  /\ c \in Calls /\ tab[t].page # "wizard"
  /\ Take(c, "start")
  /\ UNCHANGED tab /\ ServerKeeps

HandlePasswordSubmit(t) ==
  /\ CanSubmitPassword(t)
  /\ tab' = [tab EXCEPT ![t].step = "name"]
  /\ UNCHANGED call /\ ServerKeeps

HandleNameSubmit(t) ==
  /\ CanSubmitName(t)
  /\ SendCompletion(t)
  /\ UNCHANGED tab /\ ServerKeeps

\* Back to the code step; the code field is emptied.
AwaitNewCode(t) == [tab EXCEPT ![t].otp = None, ![t].auto = TRUE, ![t].step = "code"]

\* An expired code asks for another one with the token there is.
NameSubmitAnswered(t) ==
  LET c == Main(t)
      a == call[c].answer
  IN
  /\ At(c, "complete", "answered")
  /\ IF a = "expiredCode" /\ tab[t].captcha
       THEN /\ \/ call' = [call EXCEPT ![c] =
                      [IdleCall EXCEPT !.kind = "start", !.phase = "lookup"]]
               \/ call' = [call EXCEPT ![c] =
                      [IdleCall EXCEPT !.kind = "start", !.phase = "answered", !.answer = "error"]]
            /\ UNCHANGED tab
       ELSE /\ call' = [call EXCEPT ![c] = IdleCall]
            /\ tab' = CASE a = "expiredCode" -> AwaitNewCode(t)
                        [] a \in {"ok", "redirect"} -> Leave(t, "ready", call[c].uid)
                        [] OTHER -> tab
  /\ ServerKeeps

NewCodeAnswered(t) ==
  LET c == Main(t) IN
  /\ tab[t].step = "name" /\ Take(c, "start")
  /\ tab' = IF call[c].answer = "ok" THEN AwaitNewCode(t) ELSE BackToEmail(t)
  /\ ServerKeeps

-----------------------------------------------------------------------------
(* Links in the mail, social buttons *)

\* The link opens in any tab that is not busy; an old one has expired.
ClickLink(t) ==
  /\ tab[t].page \in {"blank", "checkEmail"} /\ Unsubmitted(t)
  /\ \/ OpenLink(Main(t))
     \/ Link \in inbox /\ Refuse(Main(t), "link", "expiredCode") /\ ServerKeeps
  /\ tab' = [tab EXCEPT ![t].page = "verifying"]

LinkAnswered(t) ==
  LET c == Main(t) IN
  /\ Take(c, "link")
  /\ tab' = [tab EXCEPT ![t].page =
       CASE call[c].answer = "expiredCode" -> "expired"
         [] call[c].answer = "error" -> "invalid"
         [] OTHER -> "verified"]
  /\ ServerKeeps

\* useResendVerificationEmail, on check-email and on the expired card; all the
\* answer changes is a message.
ResendLink(t) ==
  /\ tab[t].page \in {"checkEmail", "expired"}
  /\ Begin(Main(t), "mail", "mail", Wrong)
  /\ UNCHANGED tab /\ ServerKeeps

ResendLinkAnswered(t) == Take(Main(t), "mail") /\ UNCHANGED tab /\ ServerKeeps

\* Off to the provider, or to the error page when the request for its URL fails.
StartSocial(t) ==
  /\ tab[t].page = "form" \/ OnStep(t, "email")
  /\ Unsubmitted(t) /\ Unhurried(t)
  /\ \/ Begin(Main(t), "social", "signUp", Wrong) /\ tab' = Leave(t, "provider", None)
     \/ UNCHANGED call /\ tab' = Leave(t, "oauthError", None)
  /\ ServerKeeps

\* Where the callback's redirect, or its bare 403, leaves the browser.
SocialAnswered(t) ==
  LET c == Main(t) IN
  /\ Take(c, "social")
  /\ tab' = CASE call[c].answer = "ok" -> Leave(t, "app", call[c].uid)
              [] call[c].answer = "consent" -> Leave(t, "consent", call[c].uid)
              [] call[c].answer = "forbidden" -> Leave(t, "forbidden", None)
              [] OTHER -> Leave(t, "oauthError", None)
  /\ ServerKeeps

-----------------------------------------------------------------------------
Visit(t) ==
  \/ OpenSignup(t) \/ CaptchaChanges(t)
  \/ SubmitForm(t)
  \/ HandleEmailSubmit(t) \/ PressVerify(t) \/ HandleResend(t) \/ HandlePasswordSubmit(t)
  \/ HandleNameSubmit(t)
  \/ \E code \in {Wrong} \cup (inbox \ {Link}) : TypeCode(t, code)
  \/ ClickLink(t) \/ ResendLink(t) \/ StartSocial(t)

Hear(t) ==
  \/ FormAnswered(t) \/ EmailSubmitAnswered(t) \/ VerifyCodeAnswered(t) \/ ResendAnswered(t) \/ ResendUnheard(t)
  \/ NameSubmitAnswered(t) \/ NewCodeAnswered(t) \/ LinkAnswered(t)
  \/ ResendLinkAnswered(t) \/ SocialAnswered(t)

\* A code that stands in some tab is worth nothing once another is minted.
Mint(c) ==
  /\ CreateOtp(c)
  /\ tab' = [t \in Tabs |-> [tab[t] EXCEPT !.otp = IF @ = Live THEN Wrong ELSE @]]

Environment == Age \/ Sweep \/ OtpExpires \/ Restart

Next ==
  \/ \E t \in Tabs : Visit(t) \/ Hear(t)
  \/ (\E c \in Calls : Serve(c)) /\ UNCHANGED tab
  \/ \E c \in Calls : Mint(c)
  \/ Environment /\ UNCHANGED tab

Spec == Init /\ [][Next]_vars

-----------------------------------------------------------------------------
(* Properties *)

\* Every variable stays within its declared shape (all handlers and pages).
TypeOK ==
  /\ app \in App
  /\ account \in {None} \cup Account
  /\ born \in 0..MaxAccounts
  /\ otp \in {None} \cup Otp
  /\ inbox \subseteq {Live, Link}
  /\ \A c \in Calls : call[c] \in Call
  /\ received \subseteq Uids \X {1, 2} /\ audited \subseteq Uids
  /\ {faults, crashes} \subseteq 0..MaxTrouble
  /\ tab \in [Tabs -> Tab]

\* An account that signed up with a password is never active before its address
\* was verified, whichever of register, the wizard and the links ran in between
\* (finishRegistration, afterEmailVerification).
ActiveIsVerified ==
  account # None /\ account.profile = "active" /\ account.by # "social" => account.verified

Working(c) == call[c].phase \notin {"idle", "answered"} /\ Holds(c)

\* What one failing statement may do without a compensation failing as well: in
\* an app that takes no social users the delete is all there is.
ToleratedFaults == IF account.by = "social" /\ ~app.eligible THEN 0 ELSE 1

Abandoned == account # None /\ crashes = 0 /\ \A c \in Calls : ~Working(c)

\* One failing statement leaves no half-made account behind, unless it is one of
\* the two reads that follow BetterAuth's insert outside any try (register's
\* read-back and the hook's read of the app), and those leave a User without a
\* SaUser and nothing else, though startRegistration rests on register never
\* leaving such a row behind: once no handler works on it any more, a User stored by
\* register has its SaUser, and one stored by a social provider its active SaUser
\* and role (the compensating deletes of finishRegistration and
\* provisionSocialSignupUser).
NothingHalfMade ==
  Abandoned /\ faults <= ToleratedFaults
    => \/ account.stranded /\ account.profile = "none"
       \/ /\ account.by = "register" => account.profile # "none"
          /\ account.by = "social" => account.profile = "active" /\ account.role = app.eligible

\* An account whose owner was told that the sign-up is done is still there, with
\* its profile; after the wizard it is active, under the password just chosen
\* (compensations of other handlers and the sweep run at the same time).
DoneStaysDone ==
  \A t \in Tabs : tab[t].uid # None =>
    /\ account # None /\ account.uid = tab[t].uid
    /\ account.profile # "none"
    /\ tab[t].page = "ready" =>
         account.profile = "active" /\ account.password = "chosen"

\* The receiver of the webhook, which drops a nonce it has seen, hears of an
\* activation at most once: one promotion wins, and the retry repeats the body.  And
\* it is told, and the outcome recorded, of every account that signed up here and
\* became active: by the wizard, by a link, or by a code that met a registration still
\* under way.  A failed statement or a restart may prevent it.
AnnouncedOnce ==
  /\ \A u \in Uids : Cardinality({d \in received : d[1] = u}) <= 1
  /\ account # None /\ account.by # "social" /\ account.profile = "active" /\ app.webhook
       => \/ faults + crashes > 0
          \/ account.uid \in audited
          \/ \E c \in Calls : Working(c)

Finishing(c) ==
  call[c].kind = "complete" /\ call[c].phase \in {"promote", "password", "profile"}

\* The row of an account whose code was accepted is taken from under
\* completeRegistration by a compensation only, never by the sweep.
SweepSparesFinishing ==
  [][\A c \in Calls :
       Finishing(c) /\ Holds(c) /\ account' = None => \E d \in Calls : call[d].phase = "undoUser"
    ]_vars

=============================================================================
