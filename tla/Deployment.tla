----------------------------- MODULE Deployment ------------------------------
(***************************************************************************)
(* The deployment of one target: packages/deploy-render, started by a      *)
(* workflow that runs one at a time, against the Environment's secrets on  *)
(* GitHub, Neon, and two services on Render.  A run finds or creates each  *)
(* secret, syncs the services' environment, triggers deploys and waits for *)
(* them, then runs the two seeds as jobs.  It may stop at any statement (a *)
(* failed call, a timeout, a cancelled workflow); a push starts deploys of *)
(* its own; an operator rotates a secret by deleting it.  Render, which is *)
(* external, answers a trigger with the deploy it has made, or with an     *)
(* empty body; that one may have been made as well, or have been queued    *)
(* behind the one under way, and is then listed when it starts.            *)
(*                                                                         *)
(* Data: a secret is the number of its generation, 0 when it is not there; *)
(* the two halves of a key pair share theirs.  SEED_ADMIN_PASSWORD is      *)
(* handled like BETTER_AUTH_SECRET and stands behind it.  Variables that   *)
(* the pipeline does not manage are left out, and so is the other target.  *)
(***************************************************************************)
EXTENDS Naturals

Secrets == {"RSA_PRIVATE_KEY", "RSA_PUBLIC_KEY", "BETTER_AUTH_SECRET", "DATABASE_URL"}

CONSTANTS
  MaxMinted,          \* bound on the generations of secrets
  Deletable           \* bound of the model: secrets that an operator deletes

ASSUME DeploymentAssumption == MaxMinted \in Nat /\ Deletable \subseteq Secrets

Services == {"auth-server", "admin"}

Env == [Secrets -> 0 .. MaxMinted + 1]

NoEnv == [n \in Secrets |-> 0]    \* an environment without values; also no deploy

VARIABLES
  github,          \* the secrets of the Environment
  minted,          \* generations so far
  project,         \* whether the Neon project, branch, role and database exist
  envVars,         \* per service, what Render has saved
  building,        \* per service, the environment of the deploy under way
  queued,          \* per service, whether another one is to start after it
  last,            \* per service, how the deploy that was under way before has ended
  live,            \* per service, the environment of the deploy that runs
  run,
  split            \* a run stopped between the halves of the pair that is stored

renderVars == <<building, queued, last, live>>

deployVars == <<github, minted, project, envVars, renderVars, run, split>>

RunPhases ==
  {"none", "keys", "public", "secret", "database", "provision", "check",
   "sync", "sync_admin", "trigger", "latest", "trigger_admin", "latest_admin", "wait", "seed", "vibecast"}

\* exposed: the secrets when the job started, all that it can read; made: those it made
\* itself; deploy: per service, the status of the deploy it waits for.  behind, which the
\* code does not know: the services where that is not its own but the one before it.
Run == [phase : RunPhases, exposed : Env, made : Env,
        deploy : [Services -> {"none", "building", "live", "failed"}],
        behind : SUBSET Services]

NoRun == [phase |-> "none", exposed |-> NoEnv, made |-> NoEnv,
          deploy |-> [s \in Services |-> "none"], behind |-> {}]

DeploymentInit ==
  /\ github = NoEnv /\ minted = 0 /\ project = FALSE /\ split = FALSE
  /\ envVars = [s \in Services |-> NoEnv]
  /\ building = [s \in Services |-> NoEnv]
  /\ queued = [s \in Services |-> FALSE]
  /\ last = [s \in Services |-> "none"]
  /\ live = [s \in Services |-> NoEnv]
  /\ run = NoRun

StartRun ==
  /\ run.phase = "none"
  /\ run' = [NoRun EXCEPT !.phase = "keys", !.exposed = github]
  /\ UNCHANGED <<github, minted, project, envVars, renderVars, split>>

\* An error, or the end of the runner.
StopRun ==
  /\ run.phase # "none"
  /\ run' = NoRun
  /\ split' = (split \/ run.phase = "public")
  /\ UNCHANGED <<github, minted, project, envVars, renderVars>>

To(phase) == run' = [run EXCEPT !.phase = phase]

(* ensureSecrets *)

\* The pair is there when its private half is.
EnsureKeys ==
  /\ run.phase = "keys"
  /\ \/ github["RSA_PRIVATE_KEY"] # 0 /\ To("secret") /\ UNCHANGED <<github, minted>>
     \/ /\ github["RSA_PRIVATE_KEY"] = 0 /\ minted < MaxMinted
        /\ minted' = minted + 1
        /\ github' = [github EXCEPT !["RSA_PRIVATE_KEY"] = minted']
        /\ run' = [run EXCEPT !.phase = "public", !.made["RSA_PRIVATE_KEY"] = minted']
  /\ UNCHANGED <<project, envVars, renderVars, split>>

\* Slip: the run goes on with the public key that it was started with.
MutStorePublicKey ==
  /\ run.phase = "public"
  /\ github' = [github EXCEPT !["RSA_PUBLIC_KEY"] = run.made["RSA_PRIVATE_KEY"]]
  /\ To("secret")
  /\ split' = FALSE
  /\ UNCHANGED <<minted, project, envVars, renderVars>>

StorePublicKey ==
  /\ run.phase = "public"
  /\ github' = [github EXCEPT !["RSA_PUBLIC_KEY"] = run.made["RSA_PRIVATE_KEY"]]
  /\ run' = [run EXCEPT !.phase = "secret", !.made["RSA_PUBLIC_KEY"] = run.made["RSA_PRIVATE_KEY"]]
  /\ split' = FALSE
  /\ UNCHANGED <<minted, project, envVars, renderVars>>

EnsureAuthSecret ==
  /\ run.phase = "secret"
  /\ \/ github["BETTER_AUTH_SECRET"] # 0 /\ To("database") /\ UNCHANGED <<github, minted>>
     \/ /\ github["BETTER_AUTH_SECRET"] = 0 /\ minted < MaxMinted
        /\ minted' = minted + 1
        /\ github' = [github EXCEPT !["BETTER_AUTH_SECRET"] = minted']
        /\ run' = [run EXCEPT !.phase = "database", !.made["BETTER_AUTH_SECRET"] = minted']
  /\ UNCHANGED <<project, envVars, renderVars, split>>

(* ensureNeonDatabase *)

CheckDatabaseUrl ==
  /\ run.phase = "database"
  /\ To(IF github["DATABASE_URL"] # 0 THEN "check" ELSE "provision")
  /\ UNCHANGED <<github, minted, project, envVars, renderVars, split>>

\* What a run that stopped here has made is found by the next one.
CreateProject ==
  /\ run.phase = "provision" /\ ~project
  /\ project' = TRUE
  /\ UNCHANGED <<github, minted, envVars, renderVars, run, split>>

\* The URL of the one database.
StoreDatabaseUrl ==
  /\ run.phase = "provision" /\ project
  /\ github' = [github EXCEPT !["DATABASE_URL"] = MaxMinted + 1]
  /\ run' = [run EXCEPT !.phase = "check", !.made["DATABASE_URL"] = MaxMinted + 1]
  /\ UNCHANGED <<minted, project, envVars, renderVars, split>>

(* main *)

\* secretValues: what was made goes before what was exposed.
SecretValues == [n \in Secrets |-> IF run.made[n] # 0 THEN run.made[n] ELSE run.exposed[n]]

\* A secret that exists and was not exposed ends the run; StopRun does that.
CheckValues ==
  /\ run.phase = "check"
  /\ \A n \in Secrets : SecretValues[n] # 0
  /\ To("sync")
  /\ UNCHANGED <<github, minted, project, envVars, renderVars, split>>

SyncManagedEnvVars(s) ==
  /\ run.phase = (IF s = "admin" THEN "sync_admin" ELSE "sync")
  /\ envVars' = [envVars EXCEPT ![s] = SecretValues]
  /\ To(IF s = "admin" THEN "trigger" ELSE "sync_admin")
  /\ UNCHANGED <<github, minted, project, renderVars, split>>

TriggerPhase(s) == IF s = "admin" THEN "trigger_admin" ELSE "trigger"

LatestPhase(s) == IF s = "admin" THEN "latest_admin" ELSE "latest"

TriggeredPhase(s) == IF s = "admin" THEN "wait" ELSE "trigger_admin"

\* A new deploy is under way, with what is saved now, in place of the one that was.
NewDeploy(s) == building' = [building EXCEPT ![s] = envVars[s]]

\* Slip: a deploy that a push has started will do.
MutTriggerDeploy(s) ==
  /\ run.phase = TriggerPhase(s)
  /\ building' = [building EXCEPT ![s] = IF @ = NoEnv THEN envVars[s] ELSE @]
  /\ run' = [run EXCEPT !.phase = TriggeredPhase(s), !.deploy[s] = "building"]
  /\ UNCHANGED <<github, minted, project, envVars, queued, last, live, split>>

\* POST /deploys: Render names the deploy, or answers with an empty body; that deploy has
\* been made all the same, or is queued behind the one under way.
TriggerDeploy(s) ==
  /\ run.phase = TriggerPhase(s)
  /\ \/ /\ NewDeploy(s)
        /\ run' = [run EXCEPT !.phase = TriggeredPhase(s), !.deploy[s] = "building"]
        /\ UNCHANGED queued
     \/ /\ NewDeploy(s)
        /\ To(LatestPhase(s))
        /\ UNCHANGED queued
     \/ /\ building[s] # NoEnv
        /\ queued' = [queued EXCEPT ![s] = TRUE]
        /\ run' = [run EXCEPT !.phase = LatestPhase(s), !.behind = @ \cup {s}]
        /\ UNCHANGED building
  /\ UNCHANGED <<github, minted, project, envVars, last, live, split>>

\* getLatestDeployStatus after an empty body: the newest deploy that is listed, whoever
\* made it; none at all ends the run.
LatestDeploy(s) ==
  /\ run.phase = LatestPhase(s)
  /\ building[s] # NoEnv \/ last[s] # "none"
  /\ run' = [run EXCEPT !.phase = TriggeredPhase(s),
                        !.deploy[s] = IF building[s] # NoEnv THEN "building" ELSE last[s],
                        !.behind = IF queued[s] THEN @ ELSE @ \ {s}]
  /\ UNCHANGED <<github, minted, project, envVars, renderVars, split>>

\* Both polls, each of one deploy; one that failed throws.
WaitForDeploys ==
  /\ run.phase = "wait"
  /\ \A s \in Services : run.deploy[s] = "live"
  /\ To("seed")
  /\ UNCHANGED <<github, minted, project, envVars, renderVars, split>>

\* startJob and waitForJobCompletion of db:seed.
SeedPlatform ==
  /\ run.phase = "seed"
  /\ To("vibecast")
  /\ UNCHANGED <<github, minted, project, envVars, renderVars, split>>

\* The job of db:seed:vibecast has succeeded: the run is complete.
CompleteRun ==
  /\ run.phase = "vibecast"
  /\ run' = NoRun
  /\ UNCHANGED <<github, minted, project, envVars, renderVars, split>>

(* Render and the operator *)

Report(s, status) ==
  run' = IF run.deploy[s] = "building" THEN [run EXCEPT !.deploy[s] = status] ELSE run

DeployEnds(s, status) ==
  /\ building[s] # NoEnv
  /\ building' = [building EXCEPT ![s] = NoEnv]
  /\ last' = [last EXCEPT ![s] = status]
  /\ Report(s, status)
  /\ UNCHANGED <<github, minted, project, envVars, queued, split>>

DeployGoesLive(s) ==
  /\ DeployEnds(s, "live")
  /\ live' = [live EXCEPT ![s] = building[s]]

DeployFails(s) ==
  /\ DeployEnds(s, "failed")
  /\ UNCHANGED live

QueuedStarts(s) ==
  /\ queued[s] /\ building[s] = NoEnv
  /\ NewDeploy(s)
  /\ queued' = [queued EXCEPT ![s] = FALSE]
  /\ UNCHANGED <<github, minted, project, envVars, last, live, run, split>>

\* A push starts a deploy and cancels the one under way.
AutoDeploy(s) ==
  /\ envVars[s] # NoEnv
  /\ NewDeploy(s)
  /\ Report(s, "failed")
  /\ UNCHANGED <<github, minted, project, envVars, queued, last, live, split>>

\* Rotation: the secret is deleted, and the next run makes a new one.
DeleteSecret(n) ==
  /\ github[n] # 0
  /\ github' = [github EXCEPT ![n] = 0]
  /\ UNCHANGED <<minted, project, envVars, renderVars, run, split>>

DeploymentNext ==
  \/ StartRun \/ StopRun \/ EnsureKeys \/ StorePublicKey \/ EnsureAuthSecret
  \/ CheckDatabaseUrl \/ CreateProject \/ StoreDatabaseUrl \/ CheckValues
  \/ WaitForDeploys \/ SeedPlatform \/ CompleteRun
  \/ \E s \in Services :
       \/ SyncManagedEnvVars(s) \/ TriggerDeploy(s) \/ LatestDeploy(s)
       \/ DeployGoesLive(s) \/ DeployFails(s) \/ QueuedStarts(s) \/ AutoDeploy(s)
  \/ \E n \in Deletable : DeleteSecret(n)

DeploymentSpec == DeploymentInit /\ [][DeploymentNext]_deployVars

-----------------------------------------------------------------------------
(* Properties *)

DeploymentTypeOK ==
  /\ github \in Env /\ minted \in 0 .. MaxMinted /\ project \in BOOLEAN /\ split \in BOOLEAN
  /\ envVars \in [Services -> Env] /\ building \in [Services -> Env] /\ live \in [Services -> Env]
  /\ queued \in [Services -> BOOLEAN] /\ last \in [Services -> {"none", "live", "failed"}]
  /\ run \in Run

\* A run that ends as a success has each service live with the values it worked out,
\* whatever a push deploys meanwhile, however often earlier runs stopped halfway and secrets
\* were rotated, with one exception to what cli.ts says, that it waits on the deploys it has
\* triggered: where Render queues one and answers with an empty body, triggerDeploy takes the
\* latest deploy for it, the one before, with the environment from before the sync.  And
\* the keys among the values are a pair, unless a run has stopped after it had stored the
\* private half and before it stored the public one.
DeployedIsTrue ==
  [][CompleteRun =>
       /\ \A s \in Services : live[s] = SecretValues \/ s \in run.behind
       /\ split \/ SecretValues["RSA_PRIVATE_KEY"] = SecretValues["RSA_PUBLIC_KEY"]]_deployVars
=============================================================================
