------------------------------- MODULE Seeding -------------------------------
(***************************************************************************)
(* The seeds, run as one-off jobs by a deployment or by hand: seed.ts with *)
(* its demo parts, and vibecast-migration.ts.  Each is a script of steps,  *)
(* find-or-create one by one, that is safe to run again: a job may die     *)
(* between any two statements, outlive the poll that waited for it and so  *)
(* overlap the next one, and meet the sweep of abandoned signups, to which *)
(* an account that a dead job left unverified looks like one of them.      *)
(*                                                                         *)
(* Data: one row stands for the rows of its step (the permissions of a     *)
(* list, the redirect URIs, ...), one person for the users of a list.      *)
(* auth.api.signUpEmail is one step.  The creation of a row with its       *)
(* publicId is one transaction.  Rows that admins delete are left out.     *)
(***************************************************************************)
EXTENDS Naturals, Sequences

CONSTANTS
  Jobs,            \* processes that may run at the same time
  Programs         \* the scripts to look at, one in a behaviour

ASSUME ProgramsAssumption == Programs \subseteq {"platform", "demo", "vibecast"}

Ensure(row) == [kind |-> "ensure", row |-> row]
Upsert(row) == [kind |-> "upsert", row |-> row]
Default(row) == [kind |-> "settle", row |-> row]
Admin(person) == [kind |-> "admin", row |-> person]
Tenant(person) == [kind |-> "tenant", row |-> person]
Member(person) == [kind |-> "member", row |-> person]    \* without a grant

UserKinds == {"admin", "tenant", "member"}

\* main of seed.ts: ensurePlatformSuperAdminRole is its fourth and fifth step.
Platform ==
  <<Ensure("app"), Ensure("org"), Ensure("permission"),
    Ensure("superAdminRole"), Upsert("superAdminPermission"), Admin("admin")>>

DemoResourceServer ==
  <<Ensure("demoApp"), Ensure("demoOrg"), Ensure("demoPermission"),
    Ensure("demoRole"), Upsert("demoRolePermission"), Tenant("demoUser")>>

DemoMultitenant ==
  <<Ensure("mtApp"), Ensure("mtOrg"), Ensure("mtPermission"), Tenant("mtUser")>>

\* Its app is found or created, and its secret refreshed when found.
E2eOidcClient ==
  <<Ensure("oidcApp"), Upsert("oidcRedirectUri"), Ensure("oidcOrg"), Member("oidcUser")>>

Vibecast ==
  <<Ensure("vcApp"), Ensure("vcRedirectUri"), Ensure("vcOrg"), Ensure("vcPermission"),
    Ensure("vcRole"), Upsert("vcRolePermission"), Default("vcDefaults"), Tenant("vcAdmin")>>

\* main goes on with the demo parts that the environment asks for; they write no row
\* of what goes before, so they are a script of their own here.
ScriptOf(name) ==
  CASE name = "platform" -> Platform
    [] name = "demo" -> DemoResourceServer \o DemoMultitenant \o E2eOidcClient
    [] name = "vibecast" -> Vibecast

Persons == {"admin", "demoUser", "mtUser", "oidcUser", "vcAdmin"}

VARIABLES
  program,         \* of this behaviour; never changes
  stored,          \* rows that exist: a step's, or a person's SaUser or grant
  account,         \* the BetterAuth users
  recent,          \* accounts too young for the sweep
  cut,             \* where jobs have died, for the properties: <<stage, person>>
  job

seedVars == <<program, stored, account, recent, cut, job>>

Stages == {"idle", "find", "write", "signup", "verify", "lookup", "profile", "grant"}

\* step: where in the script; shared: another job ran at the same time; robbed: the
\* sweep took an account meanwhile; exit: how the last run of this process ended.
Job == [step : 0 .. 20, stage : Stages, shared : BOOLEAN, robbed : BOOLEAN,
        exit : {"none", "done", "failed"}]

NoJob == [step |-> 0, stage |-> "idle", shared |-> FALSE, robbed |-> FALSE, exit |-> "none"]

SeedingInit ==
  /\ program \in Programs
  /\ stored = {}
  /\ account = [p \in Persons |-> "none"]
  /\ recent = {} /\ cut = {}
  /\ job = [j \in Jobs |-> NoJob]

Script == ScriptOf(program)

Running(j) == job[j].stage # "idle"

StepOf(j) == Script[job[j].step]

RowKey(name) == <<"row", name>>
Profile(p) == <<"profile", p>>
Grant(p) == <<"grant", p>>

Doing(j, kinds, stage) == Running(j) /\ StepOf(j).kind \in kinds /\ job[j].stage = stage

Enter(j, stage) == job' = [job EXCEPT ![j].stage = stage]

\* The next step; after the last one the job has succeeded.
NextStep(j) ==
  job' = [job EXCEPT ![j] = IF job[j].step = Len(Script) THEN [NoJob EXCEPT !.exit = "done"]
                            ELSE [job[j] EXCEPT !.step = job[j].step + 1, !.stage = "find"]]

\* process.exit(1)
FailJob(j) == job' = [job EXCEPT ![j].step = 0, ![j].stage = "idle", ![j].exit = "failed"]

StartJob(j) ==
  /\ ~Running(j)
  /\ LET others == {k \in Jobs : Running(k)} IN
     job' = [k \in Jobs |->
       IF k = j THEN [NoJob EXCEPT !.step = 1, !.stage = "find", !.shared = others # {}]
       ELSE IF k \in others THEN [job[k] EXCEPT !.shared = TRUE] ELSE job[k]]
  /\ UNCHANGED <<program, stored, account, recent, cut>>

(* ensureApp, ensureOrg, ensurePermissions, ...; upserts; ensureAppDefaults *)

FindRow(j) ==
  /\ Doing(j, {"ensure", "settle"}, "find")
  /\ IF RowKey(StepOf(j).row) \in stored THEN NextStep(j) ELSE Enter(j, "write")
  /\ UNCHANGED <<program, stored, account, recent, cut>>

\* A unique key that another job has taken by now ends the job.
WriteRow(j) ==
  /\ Doing(j, {"ensure", "settle"}, "write")
  /\ IF StepOf(j).kind = "ensure" /\ RowKey(StepOf(j).row) \in stored
       THEN FailJob(j) /\ UNCHANGED stored
       ELSE NextStep(j) /\ stored' = stored \cup {RowKey(StepOf(j).row)}
  /\ UNCHANGED <<program, account, recent, cut>>

UpsertRow(j) ==
  /\ Doing(j, {"upsert"}, "find")
  /\ NextStep(j)
  /\ stored' = stored \cup {RowKey(StepOf(j).row)}
  /\ UNCHANGED <<program, account, recent, cut>>

(* seedPlatformAdmin with completeAdminSetup; ensureUser and ensureAdmin *)

\* Slip: the BetterAuth row is proof that the admin was seeded.
MutFindAccount(j) ==
  /\ Doing(j, UserKinds, "find")
  /\ IF account[StepOf(j).row] = "none" THEN Enter(j, "signup") ELSE NextStep(j)
  /\ UNCHANGED <<program, stored, account, recent, cut>>

FindAccount(j) ==
  /\ Doing(j, UserKinds, "find")
  /\ Enter(j, IF account[StepOf(j).row] = "none" THEN "signup" ELSE "lookup")
  /\ UNCHANGED <<program, stored, account, recent, cut>>

SignUpEmail(j) ==
  LET p == StepOf(j).row IN
  /\ Doing(j, UserKinds, "signup")
  /\ IF account[p] = "none"
       THEN /\ account' = [account EXCEPT ![p] = "unverified"]
            /\ recent' = recent \cup {p}
            /\ Enter(j, "verify")
       ELSE FailJob(j) /\ UNCHANGED <<account, recent>>
  /\ UNCHANGED <<program, stored, cut>>

\* A tenant's account is verified after sign-up only, an admin's on repair too.
VerifyEmail(j) ==
  LET p == StepOf(j).row IN
  /\ Doing(j, UserKinds, "verify")
  /\ IF account[p] = "none" THEN FailJob(j) /\ UNCHANGED account
     ELSE /\ account' = [account EXCEPT ![p] = "verified"]
          /\ Enter(j, IF StepOf(j).kind = "admin" THEN "profile" ELSE "lookup")
  /\ UNCHANGED <<program, stored, recent, cut>>

\* Slip: the repair of a half-made admin does not ask how far it got.
MutFindProfile(j) ==
  /\ Doing(j, UserKinds, "lookup")
  /\ Enter(j, IF StepOf(j).kind = "admin" THEN "verify" ELSE "profile")
  /\ UNCHANGED <<program, stored, account, recent, cut>>

\* An admin with a SaUser counts as done; a tenant's grant is applied in any case.
FindProfile(j) ==
  /\ Doing(j, UserKinds, "lookup")
  /\ IF Profile(StepOf(j).row) \in stored
       THEN IF StepOf(j).kind = "tenant" THEN Enter(j, "grant") ELSE NextStep(j)
       ELSE Enter(j, IF StepOf(j).kind = "admin" THEN "verify" ELSE "profile")
  /\ UNCHANGED <<program, stored, account, recent, cut>>

\* Its account must be there still, and have no SaUser.
CreateSaUser(j) ==
  LET p == StepOf(j).row IN
  /\ Doing(j, UserKinds, "profile")
  /\ IF account[p] = "none" \/ Profile(p) \in stored THEN FailJob(j) /\ UNCHANGED stored
     ELSE /\ stored' = stored \cup {Profile(p)}
          /\ IF StepOf(j).kind = "member" THEN NextStep(j) ELSE Enter(j, "grant")
  /\ UNCHANGED <<program, account, recent, cut>>

\* The admin's permission or role is created, the tenant's upserted.
ApplyGrant(j) ==
  LET p == StepOf(j).row IN
  /\ Doing(j, UserKinds, "grant")
  /\ IF StepOf(j).kind = "admin" /\ Grant(p) \in stored THEN FailJob(j) /\ UNCHANGED stored
     ELSE NextStep(j) /\ stored' = stored \cup {Grant(p)}
  /\ UNCHANGED <<program, account, recent, cut>>

(* The world *)

\* Also the end of a job at a statement that fails.
Crash(j) ==
  /\ Running(j)
  /\ job' = [job EXCEPT ![j] = NoJob]
  /\ cut' = IF job[j].stage \in {"verify", "grant"}
              THEN cut \cup {<<job[j].stage, StepOf(j).row>>} ELSE cut
  /\ UNCHANGED <<program, stored, account, recent>>

\* A day goes by; no job runs that long.
DayPasses ==
  /\ recent # {} /\ \A j \in Jobs : ~Running(j)
  /\ recent' = {}
  /\ UNCHANGED <<program, stored, account, cut, job>>

\* AbandonedSignupCleanupService.sweep
SweepAbandoned ==
  LET abandoned == {p \in Persons \ recent : account[p] = "unverified" /\ Profile(p) \notin stored} IN
  /\ abandoned # {}
  /\ account' = [p \in Persons |-> IF p \in abandoned THEN "none" ELSE account[p]]
  /\ job' = [j \in Jobs |-> IF Running(j) THEN [job[j] EXCEPT !.robbed = TRUE] ELSE job[j]]
  /\ UNCHANGED <<program, stored, recent, cut>>

JobStep(j) ==
  \/ FindRow(j) \/ WriteRow(j) \/ UpsertRow(j)
  \/ FindAccount(j) \/ SignUpEmail(j) \/ VerifyEmail(j)
  \/ FindProfile(j) \/ CreateSaUser(j) \/ ApplyGrant(j)

SeedingNext ==
  \/ \E j \in Jobs : StartJob(j) \/ JobStep(j) \/ Crash(j)
  \/ DayPasses \/ SweepAbandoned

SeedingSpec == SeedingInit /\ [][SeedingNext]_seedVars

-----------------------------------------------------------------------------
(* Properties *)

SeedingTypeOK ==
  /\ account \in [Persons -> {"none", "unverified", "verified"}] /\ recent \subseteq Persons
  /\ cut \subseteq ({"verify", "grant"} \X Persons)
  /\ job \in [Jobs -> Job]
  /\ \A p \in Persons : Profile(p) \in stored => account[p] # "none"

\* A job stands before this statement for p, or one has died there.
Pending(stage, p) ==
  \/ <<stage, p>> \in cut
  \/ \E k \in Jobs : Doing(k, UserKinds, stage) /\ StepOf(k).row = p

\* What stands once a script has passed this step.  Two things are not repaired by a
\* rerun and may be missing where a job died, or where another one is about to do them:
\* the grant of an admin and the verification of a tenant's or a member's address.
Seeded(step) ==
  LET p == step.row
      verified == account[p] = "verified" \/ Pending("verify", p)
  IN CASE step.kind = "admin" -> /\ Profile(p) \in stored /\ account[p] = "verified"
                                 /\ Grant(p) \in stored \/ Pending("grant", p)
       [] step.kind = "tenant" -> {Profile(p), Grant(p)} \subseteq stored /\ verified
       [] step.kind = "member" -> Profile(p) \in stored /\ verified
       [] OTHER -> RowKey(p) \in stored

\* What the exit code of a job tells.  After success each row of its script exists, each
\* person has an account and a SaUser, each tenant the grant and each admin a verified
\* address, wherever earlier jobs died and whatever other jobs and the sweep did; an
\* admin lacks the grant, and another person the verification, only where a job died
\* exactly before that statement or one still stands there.  And no state in which
\* earlier jobs may have died makes a job fail that has the database to itself ("Safe
\* to re-run").
ExitIsTrue ==
  \A j \in Jobs :
    /\ job[j].exit = "done" => \A i \in DOMAIN Script : Seeded(Script[i])
    /\ job[j].exit = "failed" => job[j].shared \/ job[j].robbed

\* seed.ts: a rerun resumes from wherever the previous run stopped, so that after its
\* success each admin is a usable one: verified, with a SaUser and with the grant.
SeedResumes ==
  \A j \in Jobs : job[j].exit = "done" =>
    \A i \in DOMAIN Script : Script[i].kind = "admin" =>
      /\ account[Script[i].row] = "verified"
      /\ {Profile(Script[i].row), Grant(Script[i].row)} \subseteq stored
=============================================================================
