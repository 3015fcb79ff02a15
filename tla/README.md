# A verification of sassy-auth

TLA+ models of sassy-auth, model-checked with TLC, and theorems about them proved with TLAPS. sassy-auth is an
OAuth 2 / OpenID Connect provider: a NestJS server around BetterAuth and one PostgreSQL database
(`src/apps/auth-server`), run as any number of stateless replicas; a Next.js admin console that also serves the login
and sign-up pages (`src/apps/admin`); seeds (`src/packages/db`) and a deployment pipeline
(`src/packages/deploy-render`). What decides about correctness is, on the server, races between request handlers over
rows of the database; in the console, answers that come late or to a page that has changed; in between, a cache that
remembers; and around it, jobs and deploys that stop halfway. So that is what is modelled: a handler, a page, a job is
a process that reads, awaits and writes, and the properties say what rows, answers and pages may be whatever the
interleaving, the failures and the restarts.

## 1. Inventory

| component | state | operations | interacts with | model |
|---|---|---|---|---|
| Refresh-token rotation (`token/refresh-token.service.ts`) | `SaRefreshToken` | issue, rotate (reuse detection, expiry, transaction), revokeForUserApp, revokeForUser | called by /token, /direct/login, logout, updateUser | RefreshTokens |
| Authorization codes (`token/oauth.service.ts`, `oauth-code-cleanup.service.ts`, `token.controller.ts`) | `SaOauthCode`, the sweeper's timer | /oauth/authorize, generateCode, /oauth/token, exchangeCode, sweep | reads `SaApp`, its redirect URIs, `SaUser`; minted by registration too | AuthorizationCodes |
| Account access (`users.service.ts` updateUser, `auth/session-gate.ts`, `auth.config.ts`) | `SaUser.status`, `Session` | deactivate, activate, sign in, authorize, exchange, refresh, direct login, log out | every grant reads the status once | AccountAccess |
| User lifecycle, invitations (`users.service.ts`, `invitations.service.ts`) | `SaUser`, `Account`, `SaInvitation` | create, update, delete, resend, accept | mail, activation webhook | UserLifecycle |
| Registration (`registration/*`, verification hooks of `auth.config.ts`) | `User`, `SaUser`, email OTP; the sweep's timer | register, start, verify-code, complete, resend, link; compensation; sweep of abandoned accounts | BetterAuth, mail, generateCode, webhook | Registration |
| Activation webhook (`activation/notify-activation.ts`) | audit rows | one POST, one retry | receivers outside | Registration |
| Social sign-in (`social/*`) | `User`, `Account`, `SaUser`, roles, provider rows | provisioning hook with compensation, consent redirect, per-app settings | BetterAuth callbacks | Registration, SignIn, AppSettings |
| Sign-up pages (`signup-wizard.tsx`, `signup-form.tsx`, ...) | React state per tab | steps, resend, links | Registration's endpoints | SignupPages |
| Sign-in, second factor, consent pages (`app/login/*`, `app/account/security/*`) | cookies, React state | sign in, code, challenge, consent, prompt, enrol, leave, reset | BetterAuth, /authorize | SignIn, LoginPages |
| Access gateway of the console (`middleware.ts`) | `sessionCache` | validate, remember, evict, redirect | get-session of the auth server | Gateway |
| Access tokens (`token/token.service.ts`, `service-users/*`, guards) | none; a token outlives what it says | direct login, client credentials, claims, userinfo, assignRole by a service | RBAC tables | BearerTokens |
| Rate limiting (`auth/auth-rate-limit.ts`, `registration/rate-limit.guard.ts`) | windows in memory, per process | count, refuse, evict | before BetterAuth and registration | RateLimits |
| Roles, permissions, orgs, apps (`roles`, `permissions`, `orgs`, `apps`, `users`) | RBAC tables | replace, assign, create, rename, delete | token claims, admin checks | AccessControl, Registry |
| Who may (`permissions/check-permission*.ts`, `resolve-list-scope.ts`, ...) | none | every endpoint of the admin API | RBAC tables | Tenancy |
| Admin console's pages (`components/*-table.tsx`, `*-drawer.tsx`, server actions) | React state | search, view, edit, create, delete, save, refresh | admin API | ListPages, UserDrawer, AppSettings |
| Seeds (`packages/db`) | rows of the seed | find-or-create scripts, run as jobs | the sweep, each other | Seeding |
| Deployment (`packages/deploy-render`, workflows) | GitHub secrets, Render environments and deploys, Neon | ensure secrets, sync, deploy, wait, seed | pushes, operators | Deployment |
| Mail, telemetry, logging, docs; migrations, samples, end-to-end tests | none of their own | output | — | — |

What is hard, and what makes each component correct:

- **Rotation.** Requests with the same token race each other, a theft response and a logout, and a crash falls
  between two writes. A family must not fork, must stay one chain with one absolute deadline, and must be dead once
  it is burned.
- **Codes.** Redeemed once although many replicas hold the same table, deleted before they are validated, checked
  against an app whose secret and redirect URIs change between issue and redemption.
- **Deactivation.** Three statements in no transaction, racing handlers that have already read the status.
- **Lifecycle.** An invited user must keep a way in whatever admins resend and wherever it crashes.
- **Registration, social sign-up.** Several commits with compensating deletes, started from two tabs at once by form,
  code, link and provider: nobody active unverified, no half-made account, nothing taken back that was reported as
  done, each activation reported once.
- **Sign-in.** Enrolment in 2FA is two calls with different tokens; consent, challenge and prompt are spread over four
  server actions and a hook: no session older than the enrolment may survive it, no way in may go round a gate.
- **The gateway** decides on what it heard up to ten seconds ago, and stamps it with a time before it asked.
- **Tokens** are put together from several reads and cannot be called back.
- **RBAC.** Checks on rows read before the write, replacements that delete what they saw, names that make a row the
  platform's, permissions that go while the request that needs them runs.
- **The console's pages.** Answers arrive after the row, the filter or the drawer has changed; a save must write only
  what its admin has edited.
- **Seeds and deploys.** Any prefix of a script may have run, another may run beside it; a success must be one.

`PROJECT.json` lists each hazard at its line with the properties that cover it.

## 2. Modules

    RefreshFamilies      abstract: a rotation family is a baton
      ^ implemented by
    RefreshTokens        RefreshTokenService over SaRefreshToken      <- MCRefreshTokens, MCLiveness (INSTANCE)
      ^ proved in  RefreshTokensProofs, RefreshFamiliesProofs
    SingleUseGrants      abstract: the life of a code
      ^ implemented by
    AuthorizationCodes   /authorize, /token, codes of a signup, sweep <- MCGrants, MCLiveness
      ^ proved in  AuthorizationCodesProofs
    Registration  <-  SignupPages      server and pages of a sign-up    <- MCGrants
      ^ proved in  SignupPagesProofs
    SignIn  <-  LoginPages             server and pages of a sign-in  \
    Gateway              middleware and its cache                      > MCSignIn
      ^ proved in  GatewayProofs                                      |
    BearerTokens         what tokens say and open                     /
      ^ the others, and the composition, proved in  SignInProofs
    UserLifecycle        invitations, acceptance, status              \
    RateLimits           fixed windows                                |
    AccessControl        links of roles and permissions               |
    Registry             apps, orgs, roles, permissions                > MCConsole
    ListPages            the list pages and their sheets              |
    UserDrawer           the drawer of a user                         |
    AppSettings          the drawer of an app                         /
      ^ all seven, and the composition, proved in  ConsoleProofs
    AccountAccess        deactivation against every grant             \
    Seeding              seed scripts and jobs                         > MCAdministration
    Deployment           the pipeline                                 |
    Tenancy              who may do what to whom                      /
      ^ all four, and the composition, proved in  AdministrationProofs

SignupPages EXTENDS Registration and LoginPages EXTENDS SignIn: there a page's call starts a handler, and the handler's
answer is an input of the page. The parts that MCSignIn, MCConsole and MCAdministration put together share no state;
the variable `scene` says which of them is active in a behaviour, so that one run explores each on its own without
multiplying them. So do MCGrants, of sign-ups and the codes they end in, and MCLiveness, with an `INSTANCE` of
RefreshTokens.

**How a handler is modelled.** `req[r]` (`call[c]`, `keeper[k]`, `job[j]`) is the local state of the handler in a slot:
its phase names the `await` it is suspended at and the other fields hold what it has read. Each action runs from one
database statement to the next. Early returns are actions that change nothing but that record, or are left out where
the handler had changed nothing yet. `Abandon` (`Fault`, `Restart`) is a failing statement, a transaction timeout with
rollback, or the death of the process: the handler's local state is gone and what was committed stays, which is all a
restart finds (no replica keeps state).

**How PostgreSQL is modelled.** Prisma sets no isolation level, so statements run at READ COMMITTED. A bulk UPDATE or
DELETE is two actions: it starts, fixing the rows its snapshot shows (`targets`), and it applies once no transaction
holds a lock on any of them, re-evaluating its WHERE on each. Rows inserted in between are not seen. A transaction's
writes appear at its commit; foreign keys and unique indexes act at the statement. This is the level of detail at which
the findings about races exist.

**How a browser is modelled.** A page is its React state and the server action it waits for. Next.js answers the server
actions of one browser one at a time, in the order in which they were called; between call and answer everything else may
change, the page included. Effects run with the render that causes them, in the same step.

**RefreshTokens.** `table` is `SaRefreshToken` (`familyId` is named by the family's first token, `revokedAt` is a
Boolean), `now` the clock. `Issue` is issue; `PresentLive` and `PresentRevoked` are the read and checks of rotate;
`ConsumeToken`, `LoseRace` and `CommitRotation` its transaction; `StartBurn`/`ApplyRevocation` the reuse response;
`RevokeForUserApp`, `RevokeForUser` the other two methods, which share `ApplyRevocation`. The claims carried along
unchanged (scope, amr, idp, org) are left out.

**RefreshFamilies.** `current[f]` holds the one redeemable token and `spent[f]` those that never will be again.
`Start`, `Rotate`, `Revoke`. The mapping reads them off the table, with `CHOOSE` for the live token, so the step
from the detailed to the abstract specification needs `AtMostOneLive`.

**AuthorizationCodes.** `issued` is the immutable row, `stored` which rows exist, `client` the secret's version and
the accepted redirect URIs of each app, `status` that of each user, `answers` a counter of token responses per code.
`StartAuthorize`, `AdmitUser`, `GenerateCode` follow the awaits of /oauth/authorize; `StartSignup` is the minting
end of finishRegistration; `Present`, `ClaimCode`/`RefuseCode`/`CodeGone`, `PassStatus`/`FailStatus`, `AnswerToken` those
of /oauth/token; `SweepCodes` is the cleanup service; `RotateSecret`, `ReplaceUris`, `SetStatus` the admins. A PKCE
challenge is named by the verifier that matches it. **SingleUseGrants** is the life of a code for one who does not see
the handlers: unissued, open, claimed, granted or void.

**AccountAccess.** `cred` holds the rows of sessions, refresh tokens and codes with their owner; a rotation or an
exchange is one step here, which the two modules above justify. `Deactivate`, `DeleteSessions`, `StartRevocation`,
`ApplyRevocation` are the statements of updateUser. `loggedOut`, `barred` and `prior` only remember what the
properties talk about; no guard reads them.

**UserLifecycle.** `status`, `credential` (users with an `Account` row of provider credential) and `invitation`. The
acceptance's transaction commits as one step because its first statement locks the invitation and the unique index
on `Account(providerId, accountId)` orders two invitations of one user; the resend's is a start and a commit,
because its UPDATE has a snapshot.

**Registration** follows one address at one app. `account` is the User row that holds the address with its SaUser as a
field (the foreign key keeps a SaUser from outliving its User), `otp` and `inbox` what was mailed, `call[c]` a handler:
register or the wizard's start, verify and complete, a resend, a link, a social callback, each a step per statement or
BetterAuth call. `AbortProfile`, `UndoUser` and `UndoProfile` are the compensations, `Sweep` the cleanup service,
`PostOnce`/`ResolveDelivery` the webhook with its retry and lost answers. `ReadBack` and `ResolveEligibility` are the two
reads that come after BetterAuth has committed the User and before any compensation is in force (`register` checks
that its user was stored, the provisioning hook looks up the app); when one fails, `Strand`, the row stays, and its
`stranded` remembers that for the properties. **SignupPages** puts the wizard, the form and
the check-email and verified pages on top, a tab's requests in the slots `<<tab, "main">>` and `<<tab, "resend">>`.

**SignIn**, **LoginPages.** One account used from several browsers: `jar` the cookies, `call` the server action or
navigation under way, `user` the account with enrolment, documents, status, and a reset that is due. A session is told
by where its token lies and by whether it began before the current enrolment. BetterAuth's endpoints are one step
each; a server action is one step per call it makes. LoginPages has one page per browser and what its components do
with the answers.

**Gateway.** `sessionCache` remembers answers of get-session with the time before the fetch. Times are ages, capped
where they stop to matter. The order of the Map is left out: an eviction that must drop entries that still count drops
the oldest in the code and any `KeptEntries` stay here, which allows more and keeps the state a function that the
proofs can use.

**BearerTokens.** `db` is what admins change, `errand` the one request that is followed with what it has read
(`seen` remembers every state of `db` since it came in), `token` what was minted last.

**RateLimits.** A window per budget and client, kept by its age; `admitted` remembers what was let through in the length
of a window, each request by its age and its number among those of that instant.

**AccessControl.** The rows of the four link tables; a replacement is the lookup of ids, a DELETE with a snapshot, the
inserts, with row locks; assignments, removals and deletions of either end with their cascades run beside it.
`ErasedBy` and `OwnerLockedBy` say which rows a set of handlers is erasing or has locked. A replacement that is `named`
locks the row of its owner first (`LocksOwner`): updateRole with a name, updateApp with any column of the app. A PATCH of
redirectUris alone makes updateApp's first statement an update without data, which Prisma runs as a read, so it
locks nothing, as the replacements of a user's links never do. A new row and a new default
wait for those of all handlers: that they did not where there is one handler only was a slip of the model which TLC, with
two handlers, could not see, and the proof for any number of them showed.

**Registry.** Rows of apps, orgs, roles and permissions with unique names, system flags and references. `Begin...` is
a handler's lookup, `WriteCreate`, `WriteRename`, `WriteDelete` its write by id, in which the database may refuse.

**Tenancy.** One request of the admin API: its label, what it targets, which system permissions it hands out and takes
away, and the reads of the caller's rights, while one contested permission comes and goes by a role or directly.
`Guarded` is what assertCallerCanGrantSystemPerms is given: what an endpoint hands to a user and what removeRole takes
from him, not what a replacement of all his roles or permissions (`whole`) takes away.

**ListPages, UserDrawer, AppSettings.** The pages' state field by field (rows, filters, selection, the open sheet, the
form and its baseline, the queue of calls) against the rows, which others change. Fields the code treats alike are one.
In AppSettings `Unset` is the default of a field and `Code` the one other value that the server lets
`emailVerificationMethod` have; other clients of the API (`PatchedElsewhere`, `ProviderSetElsewhere`) change fields and
providers under the drawers.

**Seeding.** A script is a sequence of find-or-create steps; jobs die, overlap, meet the sweep. `cut` remembers for the
properties who was in hand when a job died right before a grant or a verification. **Deployment.** A run from
ensureSecrets to the seed jobs against the secrets, the services' environments and their deploys. `TriggerDeploy` is
the POST: Render names the deploy it has made, or answers with an empty body, having made it or queued it behind the one
under way; `LatestDeploy` is the fallback for the empty body. `behind` remembers the services whose own deploy was still
queued when the run took the latest one for it.

## 3. Runs

| run | bounds | shows |
|---|---|---|
| `refresh_tokens` | 4 tokens, 1 user, 1 app, 2 handlers, both windows 1, clock to 2; symmetry | `TypeOK`, `AtMostOneLive`, `RotationChain`, `LifetimeBounded`, `BurnIsComplete`, `ImplementsFamilies` |
| `grants` | codes: 1 code, 2 apps, 2 URIs (only those of the users' app are replaced), 1 verifier or none, 2 handlers, 1 secret, clock to 2; symmetry over handlers and URIs. Sign-ups: 1 address, 2 tabs (one with the wizard that is told what it may, with main and resend calls; one with the form), 3 apps (code with webhook; link with eligible users and webhook; link only), 2 accounts in sequence, 1 wrong code (3 in BetterAuth), 1 failing statement and 1 restart | `GrantsTypeOK`, `SingleUse`, `ChallengelessIsConfidential`, `AnswerHonoursCode`, `ImplementsSingleUse`, `ActiveIsVerified`, `NothingHalfMade`, `DoneStaysDone`, `AnnouncedOnce`, `SweepSparesFinishing` |
| `liveness` | codes: 2 codes, 1 user, 1 app, 1 handler, lifetime 1, clock to 3; refresh: 3 tokens, 1 app, 2 handlers, windows 1 and 2, clock to 1 | `EveryRequestAnswered`, `AbandonedCodesGo` |
| `sign_in` | browsers: four settings of what one or two browsers do, for an app that requires 2FA, one that proposes it, one that asks for nothing; gateway: 2 tokens, 2 requests, time-to-live 2, time-out 1, 1 entry, 0 kept; tokens: 2 users, 2 roles, 3 permissions, 2 apps, lifetimes 2 and 1, 2 changes by others | `SignInTypeOK`, `RotationFollowed`, `EnrolmentSweeps`, `PagesInOrder`, `StaleBounded`, `TokensTellTheTruth`, `ServiceKeepsToItsApp` |
| `console` | lifecycle: 1 user, 3 invitations, 2 handlers; limits: 3 budgets of 2, 1, 0, 2 clients, window 2; access: 2 handlers, 2 ids, one table in a behaviour; registry: 2 handlers, 1 new id, 2 plain and 2 reserved names; list: 2 rows (one a hit of the search, one the platform's), 1 permission, page sizes 1 and 2, 2 calls in the queue, the chores of each page in turn; user drawer: 1 editor, 2 people, 1 item, 2 calls, others change one's roles; app drawer: 2 admins and another client, 2 values, 1 provider, five settings of what each of them changes | `ConsoleTypeOK`, `NeverStranded`, `OneAcceptance`, `PlatformIsTheSeeds`, `BudgetHeld`, `ReplacementHolds`, `SavesSpareTheUntouched`, `AnswersLandRight` |
| `administration` | account: 1 user, 3 credentials, 2 handlers; seeding: 2 jobs, 3 scripts; deployment: 3 generations of secrets, an operator deletes halves of the key pair; tenancy: 1 request, each of 7 permissions contested, beside none or one steady | `AdministrationTypeOK`, `ExitIsTrue`, `BarredGetsNothing`, `DeactivationReaches`, `DeployedIsTrue`, `OnlyTheEntitled` |
| `refresh_burn_race` | 3 tokens, 2 handlers | finding 1 |
| `deactivation_race` | 2 credentials, 2 handlers | finding 2 |
| `active_without_password` | 1 invitation, 1 handler | finding 3 |
| `failed_axis` | the user's drawer alone, two lists | finding 4 |
| `set_replace_race` | AccessControl alone, links of users to roles or to permissions | finding 5 |
| `half_seeded_admin` | Seeding alone, seed.ts, one process that runs it again and again | finding 6 |

**Why the bounds are enough to be of use.** Two handlers are what every race in these handlers takes: none waits for
a third party. Four tokens give a family of two rotations beside a second family, or three rotations of one; with
windows of 1 and a clock of 2 a token slides, expires, and is rotated on the last tick. One code suffices for
`SingleUse` and the others because no action relates two codes; two apps and URIs let each be the wrong one. Three
credentials allow a session, the code it yields and the refresh token exchanged for it. Users never interact in
AccountAccess and UserLifecycle, so one is enough. In the sign-ups of `grants` one failing statement reaches every compensation
and a second kind of trouble, a restart, may come on top; `Spaced` (MCGrants) keeps the wizard's Resend button
unpressed while the other tab waits, without which the run has three handlers in flight and gains nothing that the
three-handler tabs do not show one after the other. Time-to-live 2 and time-out 1 let an answer be stamped fresh,
half-way and about to expire; a cache of one entry evicts at every second token. In `console` and `sign_in` every page
and every setting gets its own initial states, since they share no variables that matter. `MaxTime`, `MaxSecret`,
`MaxAccounts`, `MaxMinted`, `MaxChanges`, `MaxCalls`, `MaxAsked` and `MaxTrouble` bound counters; `GenerateCode` refuses codes
that could not expire before the clock stops, which would otherwise be an artefact of the bound in `AbandonedCodesGo`.
Symmetry is used only where no liveness is checked, and never over the apps of `AuthorizationCodes`, where the users'
home app is one of them. What the theorems of section 4 state does not depend on these bounds.

**The deadlock check is off** where the system really may stop: in `grants` and `sign_in` when every
browser is done and accounts and troubles are used up; in `console`, `active_without_password` and `failed_axis` because
a user who is deleted is never created again.

**Fairness.** `liveness` assumes strong fairness of what the server does for each running refresh-token handler
(`Serve(r)`): Node resumes every handler whose statement has returned, and PostgreSQL serves the waiters for a row
lock in a queue, so a handler that is enabled again and again, between other holders of the lock, is served. Nothing
is assumed of arrivals or failures. For codes it assumes weak fairness of `SweepCodes` (a `setInterval` for as long as a
replica is up, one sweep at boot otherwise) and of the clock. All other properties are safety properties, stated for
specifications without fairness.

**Findings.** Six runs expect a violation, of a promise a comment or the documentation makes:

1. `BurnRevokesWholeFamily` — "the entire family is revoked" when a rotated token is reused
   (`refresh-token.service.ts:73`). While the owner's rotation of the current token is between its UPDATE and its
   COMMIT, the burn waits for that row; afterwards the row no longer matches, and the replacement was not in the
   burn's snapshot. It stays live. `BurnIsComplete` is the exact remainder that does hold.
2. `LoggedOutEverywhere` — deactivation leaves "logged out everywhere at once" (`users.service.ts:346`). A direct
   login, code exchange or sign-in that has read `active` writes its session or refresh token after the last statement
   of the deactivation; a rotation that commits while the revoking UPDATE waits leaves its replacement the same way.
   What does hold: `DeactivationReaches` for all that existed before, and `BarredGetsNothing`: the surviving credential
   buys nothing at /authorize or /token while the account is inactive.
3. `ActiveHasCredential` — the guard of `users.service.ts:316` is to prevent an active user without a credential;
   PATCH inactive followed by PATCH active on a pending user goes round it.
4. `FailedAxisKept` — after a save of which one axis failed "re-Save only retries the failed axis"
   (`user-view-drawer.tsx:218`). The refetch at the end of the save resets the whole form, the failed axis included, and a
   second Save finds nothing to send.
5. `SwapIsAtomic` — "Set-replace all roles (atomic swap)" (`src/README.md:1203`). Of two replacements at once each
   deletes the rows it saw; both sets of inserts stay. `ReplacementHolds` is what a replacement does guarantee.
6. `SeedResumes` — a rerun is to "resume from wherever the previous run stopped" (`seed.ts:135`, 170-173). A job that dies
   between an admin's SaUser and the grant (`seed.ts:202-216`) leaves an admin without rights, whom every later run takes
   for complete ("Admin already exists", `seed.ts:145`) and succeeds. `ExitIsTrue` says what a success does mean, with this
   exception and that of a tenant whose verification was cut off.

**Mutants.** Each property of each passing run has a definition `Mut...` beside the one it replaces, with a comment
saying which slip it is; with it in place TLC finds that property violated.

**Met while modelling**, without a run of their own. The first four are exceptions that a property states: without the
exception TLC finds the behaviour.

- *The latest deploy* (`DeployedIsTrue`). The pipeline waits "on those specific deploys" it has triggered (`cli.ts:203`).
  After an empty body, which `render.ts:145` calls the answer on success, triggerDeploy takes the service's latest deploy
  for "the one this call just created". If Render has queued that one, the latest is a push's, with the environment from
  before the sync, and the run succeeds on it. The premise is that Render queues; where it replaces the deploy under
  way, as it does by default, the latest is the own one, and the exception is not needed.
- *Stripping by replacement* (`OnlyTheEntitled`). removeRole refuses to "strip an admin of a system perm" that the caller
  is not entrusted with (`users.service.ts:460`, bug-0097). setUserRoles and setUserDirectPermissions delete all the user
  has (`users.service.ts:546`, 626) and guard only what he is to have, so PUT with an empty list strips him.
- *The resent method* (`SettingsSpared`). A fetch by itself must not make the drawer resend what it has fetched
  (`app-edit-drawer.test.tsx:203`, of the logo). listApps leaves emailVerificationMethod out, and the drawer compares
  the method with the row of the list (`app-edit-drawer.tsx:281`, 332): that of a 'code' app goes with every save and puts
  back the 'link' that another client has set. No other field is resent, and the method only as 'code'; the change
  back to 'link' is not sent by any save (`SubmitFits`, a part of the invariant proved of AppSettings, says so of every one).
- *Reads without compensation* (`NothingHalfMade`). "register()'s own failure path deletes the BetterAuth user it just
  created" (`registration.service.ts:410`), but the read-back after signUpEmail (`registration.service.ts:183`) is outside
  that path, and so is the provisioning hook's read of the app (`provision-social-signup-user.ts:83`): if one fails, the
  User stays without a SaUser, and the wizard takes it for its own.
- *Registration.* The compensation of `registration.service.ts:369` deletes a User
  that the foreign key of the SaUser committed before protects, and swallows the error. completeRegistration that fails
  between verifyEmailOTP and its transaction leaves a verified account without SaUser, which the sweep ignores. A second
  completion replaces the password and answers 500. The comments at 276-278 and 391-408, and
  `notify-activation.ts:131-133`, do not describe provisionSocialSignupUser, which creates active users and notifies
  nobody. `abandoned-signup-cleanup.service.ts:49-52` ("no other flow") forgets the seeds.
- *Sign-in.* A session that ends between the two lookups of maybeRedirectToTwoFactorPrompt sends an enrolled user to the
  prompt; a retry does not extend the challenge's window (`login/actions.ts:286`, `:631`); the `.catch` of
  `(admin)/layout.tsx` swallows a redirect and leaves an empty sidebar; a logout with an expired id_token_hint revokes no
  refresh tokens.
- *Gateway, limits.* Requests that wait together overshoot the cache's bound; RateLimitGuard's store is never evicted;
  `app.module.ts:22-28` names buckets the throttler treats otherwise.
- *Roles and permissions.* The P2003 branches for a role or permission in use (`roles.service.ts:244`) are dead, as those
  foreign keys cascade, so a role is deleted from its users; a collision in createMany is a 500 for users and a misleading 409
  for updateRole; deleteRole and setUserRoles can deadlock; assignRole does not compare the role's app with the user's,
  as setUserRoles does, which in turn looks only at the new set; rotating a webhook secret while its URL is cleared
  leaves a secret without URL (`apps.service.ts:402-405`).
- *Console.* Closing the drawer of an app, or of a role, without a save
  leaves its ticks and rows in place, and a save before the next load has answered sends them; a late load or
  save of the user, role or app looked at before shows up in the next one's drawer, closes it, or re-seeds it; a
  refresh that clears the selection leaves the sheets' flags set, so that choosing another row re-opens a dialog past
  the menu's guards; deleting the last row of a page leaves an empty one.
- *Seeds and deploys.* A crash between a tenant's sign-up and the verification is never repaired, like finding 6 but
  promised by nobody; ensureAppDefaults can revert a choice made
  between its check and its write; a run stopped between the halves of a new key pair makes every later run fail or
  deploy a pair that does not match; two first deployments at once can create two Neon projects; syncing the
  environment loses a concurrent edit.
- *Lifecycle.* An acceptance undoes a deactivation that it races (`invitations.service.ts:109`), two activations both fire
  the webhook (`users.service.ts:362`), two resends leave two usable links (`users.service.ts:666`).

## 4. Proofs

For every value of the constants that meets the named assumptions, which say that null values are not members of what
they stand apart from, that times are natural numbers and, where it matters, what the code fixes (a fetch times out
before its answer would expire; ids of new rows are new; which scripts there are; only the rows of a list page need
be finite, because it counts them):

| module | theorems |
|---|---|
| RefreshTokensProofs | `TypeCorrect` (`TypeOK`), `NeverForks` (`AtMostOneLive`), `FamiliesAreChains` (`RotationChain`), `LifetimeIsBounded` (`LifetimeBounded`) |
| RefreshFamiliesProofs | `RotationImplementsFamilies` (`ImplementsFamilies`), `BurnsAreComplete` (`BurnIsComplete`) |
| AuthorizationCodesProofs | `TypeCorrect` (`CodesTypeOK`), `CodesAreSingleUse` (`SingleUse`), `ChallengelessCodes` (`ChallengelessIsConfidential`), `AnswersHonourCodes` (`AnswerHonoursCode`), `CodesImplementGrants` (`ImplementsSingleUse`) |
| AdministrationProofs | `TypeCorrect`, `TheBarredGetNothing` (`BarredGetsNothing`), `DeactivationsReach` (`DeactivationReaches`), `NothingBeyondRights` (`OnlyTheEntitled`), `SuccessIsDeployed` (`DeployedIsTrue`), `ExitsAreTrue` (`ExitIsTrue`), `AdministrationTypes` (`AdministrationTypeOK`) |
| ConsoleProofs | `LifecycleTypeCorrect`, `NobodyIsStranded` (`NeverStranded`), `AcceptedOnce` (`OneAcceptance`); `RegistryTypeCorrect`, `ThePlatformStays` (`PlatformIsTheSeeds`); `RatesTypeCorrect`, `BudgetsAreHeld` (`BudgetHeld`); `AccessTypeCorrect`, `ReplacementsHold` (`ReplacementHolds`); `ListTypeCorrect`, `AnswersAlwaysLandRight` (`AnswersLandRight`), `GrantsAreSpared`; `DrawerTypeCorrect`, `AxesAreSpared`; `SettingsTypeCorrect`, `SettingsAreSpared`; `SavesAlwaysSpare` (`SavesSpareTheUntouched`), `ConsoleTypes` (`ConsoleTypeOK`) |
| GatewayProofs | `TypeCorrect`, `TheCacheForgets` (`StaleBounded`) |
| SignInProofs | `PagesTypeCorrect`, `RotationIsFollowed` (`RotationFollowed`), `EnrolmentIsSwept` (`EnrolmentSweeps`), `PagesComeInOrder` (`PagesInOrder`); `TokensTypeCorrect`, `TokensAreTrue` (`TokensTellTheTruth`), `ServiceKeepsItsPlace` (`ServiceKeepsToItsApp`); `SignInTypes` (`SignInTypeOK`) |
| SignupPagesProofs | `TypeCorrect` (`TypeOK`), `PasswordNeedsVerifiedAddress` (`ActiveIsVerified`), `NothingToldIsTakenBack` (`DoneStaysDone`), `CompensationCompletes` (`NothingHalfMade`), `ActivationAnnouncedOnce` (`AnnouncedOnce`), `FinishingIsSpared` (`SweepSparesFinishing`) |

None of these properties is inductive: they say nothing of the handlers, and a handler writes from what it remembers. Each
module states an inductive invariant for each part (`IInv`, or `PagesInv`, `AccessInv`, ... where a module proves
several), which TLC has checked on the part's run, proves it step by step (one
lemma or step per action, one part per conjunct the action can disturb), and derives the theorems from it.

**Refresh tokens.** `IInv` is `TypeOK` with `TableInv` and `RequestInv`. `TableInv`: each row has the user, app and
deadline of its family's first row (`RowOK`), each recorded replacement exists (`LinkOK`) and replaces only one token
(`LinksInjective`), each later token has a predecessor (`PredecessorOK`), and `AtMostOneLive`. `RequestInv`: a
rotation's copy agrees with the stored row in all that never changes, its new token is stored nowhere (`RotatingOK`) and
drawn by nobody else, a row has one lock holder (`HandlersApart`), and the token of a handler that holds a lock is still
live (`HandlerOK`), since every other writer waits. `CommitRotation` then removes one live token of a family and adds
one, `Issue` starts a family no row belongs to, and bulk revocations only remove.
*Refinement.* With at most one live token per family the `CHOOSE` in `Current` is that token (`MappingMeaning`),
`CommitRotation` is `Rotate`, `ApplyRevocation` is `Revoke` of the families whose live token is among its targets,
`Issue` is `Start`, and every other action leaves the table alone. *The burn:* from the start of the statement on,
a live row of the family that is not among its targets can only have come from a rotation of one that is
(`TableEvolves`, `BurnUndisturbed`), which the property excludes.

**Codes.** That tokens are sent once does not follow from how often they were sent: `CodesInv` says who has the code.
It is in the table, or with the one handler that deleted the row, or nowhere, and a handler that has it has passed
every check on a row that never changes. Whether a code without a challenge belongs to a confidential client is decided
before the code is made, so `ClientsInv` says it of the handlers that are about to make one, too; secrets are rotated and
never cleared. The refinement maps a code to "claimed" while some handler has it, which `CodesInv` makes unique.

**Accounts.** Both properties are about the last step of a handler and depend on all that happened since its first.
`HandlerOK` carries that through its phases: a request that was barred throughout belongs to a user who is inactive now
and has not passed its check; of each credential that was live when a deactivation began the handler knows that it is dead or
will be ended by one of its remaining statements.

**Admin API.** What a request has read so far is spread over three moments, and the caller's rights change between them.
`QueryInv` says that each permission read was held at some time since the request came in, that an endpoint asks for
nothing the matrix would not let pass and of a target of the caller's own reaches no other place (`SoundlyAsked`, one
lemma for all 33), and that a request that reads a second time had passed the first check. What an endpoint hands out or
takes away is all in `Guarded`, the removals of a replacement (`whole`) and writes of roles apart.

**Deployment.** Until the run triggers, nothing of its deploys is known (`RunDeploys`); from the sync on a service's saved
environment is what the run worked out, so that a deploy made from then on brings it, whoever makes it. Once the run has
triggered a service, that service's newest deploy is such a one (`Fresh`), unless its own is still queued and the run has
taken the one before for it (`behind`). `StoredPair` and `RunPair` follow the two halves of the key: they match, one is
missing, or the run is between the two writes or has stopped there.

**Seeds.** Rows are only added and verified accounts never swept, so what a script has passed stays in place
(`PassedStays`), a grant or a verification apart, which a rerun does not repair: where one of those is missing, a job
stands right before it or is remembered in `cut` to have died there (`LeftOpen`). A job without company since it started
finds what it looked up unchanged (`Alone`), as each other job that starts is noticed by it (`TogetherOK`), and fails
nowhere, the sweep apart.

**Lifecycle.** A resend that has started is about to cancel only invitations of the user it will make a new one for, as
long as that user exists (`HandlerOK`), so `NeverStranded` survives its commit. `PasswordsOK` says without counting what
`OneAcceptance` counts: a user without a password has no used invitation, any other has just one.

**Registry.** `KeeperOK` says what stays true of the row a handler has looked at: ids are not used twice (`IdsOK`) and a
row's platform flag never changes, so a row that was not the platform's is not the platform's now, if it is there.

**Gateway.** What get-session said was true at some moment since the time it is stamped with. `RequestOK` and `EntryOK`
say so in ages: a session said to live either lives or ended no longer ago than the answer is old; one said to be dead
is dead. `Tick` ages both alike, and an entry is used only while younger than the time-to-live.

**Sign-up.** The handlers of one account share its rows and no lock, so `IInv` says what each may rely on about a row it
has read. `RouteOK` and `CallOK`: whose row it is, that it is verified once a code or link was accepted, and that the
profile stands once the handler is committed to announce it or to answer. `TakenBackUntold`: a social handler that may
still take its profile back is the only one with a duty to that account, and neither a tab nor a receiver was told of
it; `UndoneForCause`: a profile is taken back after a fault only. `OneAnnouncer` and `ActivationIsTold` give
`AnnouncedOnce`, `HalfMadeIsAttended` gives `NothingHalfMade`: whatever is half made has a handler that will finish or
remove it, or is what one of the two uncompensated reads has left behind (`stranded`). Every step of the server is then
one of three kinds, which are lemmas: one handler grows the account (`Step`), nothing is gained (`NothingGained`:
compensations, the sweep, a restart, time), or a new account appears with a fresh id (`CreatedStep`).
`SweepSparesFinishing` follows since a handler that finishes works on a verified account, which the sweep leaves alone.
The pages add that a tab is only told what its own handler has answered.

**Sign-in.** `PagesInv`: a server action knows its page, since the page stays while it waits (`AtItsPage`). A token that
was replaced lies only in the jar of the browser whose own request replaced it, and the answer under way carries the new
one; once an enrolment has swept, nobody has a session from before it, and without 2FA nobody has one that passed it
(`TokensOK`, and `StrayOK` for sessions nobody holds any longer). What a lookup of the second factor read is still so, or
2FA was off meanwhile, or the session is dead (`LookupsOK`). Whoever signed in is past the consent gate or has it ahead
(`ConsentOK`). A browser relies on little of what the others do to the account: that no acceptance is taken back, that a
sweep is claimed by its enrolment only, that 2FA is switched off for all sessions at once. `Gently` says so, and
`OneMoves` is the lemma for every step of one browser.

**Tokens.** What a request has read was so at some moment since it came in (`MintOK`, `ServiceOK`, `UserinfoOK`), and the
worlds it may have seen only grow. Links, grants and direct permissions may come from different moments, and the property
says no more than that.

**Rate limits.** What is remembered of a key splits into what passed in the window that stands (`Young`), which its count
counts, and what passed in the one before (`Old`), at most a budget (`Counted`). Of a window that is over only one budget
is left, and nothing of one that began two windows ago, so that evicting it loses nothing. Requests carry a number
among those of their instant, which makes the sum over ages that the property is about a cardinality.

**Roles and permissions.** While a replacement is between its DELETE and its commit, a link that it is not going to
delete was assigned or inserted by others since the DELETE began (`LeavesLater`), and if it is `named`, by others that
are not: it holds its owner's row (`HoldsOwner`), which one handler only can have (`Exclusive`). Rows that are being
erased are not among those that another handler has just linked (`Apart`), which is what keeps what a replacement was
told in place until it commits.

**List pages.** `CallFits`: a call that is still heard was asked for the filters in force and for the row of the drawer
that is open now, and a save with permissions comes of an edit of them. Every change of filters, selection or sheets
goes through one rendering, whose effects disown the calls before; `Rendered` is that lemma, and each action needs only
that the tab it hands to the rendering fits the drawers as they were. `Quiet` is what all but three of the answers leave.

**Drawers.** Of a user: the calls of a save are one at a time, its writes while axes are left, then the refetch
(`QueueFits`); what it sends was edited (`SaveFits`), as an axis that differs from its snapshot was touched, except while
the refetch of a save is awaited, when no other save can begin (`EditsKnown`). Of an app: a field that differs from what it is
compared with was touched, the verification method apart, which may differ because it was 'code' all along
(`DrawerFits`); then what is sent of it is 'code' again (`SubmitFits`). The providers are compared with what the last load
said, so they too are sent only if a box was ticked since. What other clients change does not enter into this: it is
the row, and the drawer knows only what it has been shown.

**Compositions.** In MCSignIn, MCConsole and MCAdministration one part moves and the others rest; each part keeps to its own
specification (`PartsKeepTheirSpecs`, `ConsolePartsKeepTheirSpecs`, ...), so its theorems hold in the composition that
the run checks.

**Only model-checked.** Liveness, `EveryRequestAnswered` and `AbandonedCodesGo`: fairness and ENABLED are beyond the
provers used. Every other property of a passing run is stated by a theorem,
`GrantsTypeOK` by two, one for each of its conjuncts.
No module declares a RECURSIVE operator.

## 5. Not modelled

Cryptography (hashes, JWT signatures, scrypt, TOTP) is taken to do what it says: tokens, codes and secrets are
distinct values nobody guesses. Clock skew between replicas is left out: there is one clock. BetterAuth is external
and modelled only where its hooks are in `src/`, or by the effects the code relies on. Mail is sent or not; telemetry,
logging and API docs are pure output. Left out of components that are modelled in part: the drawers that create users,
orgs, permissions and service users, columns and colours of the tables; the providers' protocols, account linking and the
federation log; the expiry of sessions; id tokens, which carry the claims of access tokens; the throttler of the framework;
logos, documents and trust days of an app; the activation webhook of updateUser; the other deployment target's share of
the Neon project, dry runs and static values. Migrations, samples and end-to-end tests are not part of the running
system. The definitions listed in `PROJECT.json` stand for about 31 % of the repository's implementation lines; most of
the rest is markup, DTOs, configuration and those parts.

## 6. Plan

Done: all modules above with their runs, and the proofs of section 4. What could follow, in this order:

1. The action properties of the parts that `PROJECT.json` lists for a part's own specification, restated for the
   compositions where that is not done yet; the lemmas are there.
2. The creation drawers of users, orgs and permissions, and the users table, whose state is like that of ListPages.
3. The expiry of sessions in SignIn, and account linking in Registration.
