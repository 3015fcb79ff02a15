--------------------------- MODULE MCAdministration ---------------------------
(***************************************************************************)
(* Four parts that share no state, one of them active in a behaviour and   *)
(* the others at rest: what operators do to a system that is in use (bar   *)
(* an account, seed the database, deploy), and which of them may.          *)
(***************************************************************************)
EXTENDS AccountAccess, Seeding, Deployment, Tenancy

CONSTANT Scenes    \* the parts to look at

VARIABLE scene     \* the active one; never changes

Rest(active, resting) == IF scene = active THEN TRUE ELSE UNCHANGED resting

\* A part at rest is in one initial state only.
AdministrationInit ==
  /\ scene \in Scenes
  /\ Init /\ SeedingInit /\ DeploymentInit /\ TenancyInit
  /\ scene # "seeding" => program = "vibecast"
  /\ scene # "tenancy" => contested = "org.users.manage" /\ steady = {}

AdministrationNext ==
  /\ \/ scene = "account" /\ Next
     \/ scene = "seeding" /\ SeedingNext
     \/ scene = "deployment" /\ DeploymentNext
     \/ scene = "tenancy" /\ TenancyNext
  /\ Rest("account", vars) /\ Rest("seeding", seedVars) /\ Rest("deployment", deployVars)
  /\ Rest("tenancy", tenancyVars)
  /\ UNCHANGED scene

AdministrationVars == <<vars, seedVars, deployVars, tenancyVars, scene>>

AdministrationSpec == AdministrationInit /\ [][AdministrationNext]_AdministrationVars

\* The state of every part has its type.
AdministrationTypeOK ==
  /\ scene = "account" => TypeOK
  /\ scene = "seeding" => SeedingTypeOK
  /\ scene = "deployment" => DeploymentTypeOK
  /\ scene = "tenancy" => TenancyTypeOK
=============================================================================
