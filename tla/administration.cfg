SPECIFICATION AdministrationSpec
CONSTANTS
  Scenes = {"account", "seeding", "deployment", "tenancy"}
  Users = {u1}
  Creds = {c1, c2, c3}
  Requests = {r1, r2}
  None = None
  Jobs = {j1, j2}
  Programs = {"platform", "demo", "vibecast"}
  MaxMinted = 3
  Deletable = {"RSA_PRIVATE_KEY", "RSA_PUBLIC_KEY"}
  Steadies = {{}, {"org.users.manage"}}
INVARIANTS
  AdministrationTypeOK
  ExitIsTrue
PROPERTIES
  BarredGetsNothing
  DeactivationReaches
  DeployedIsTrue
  OnlyTheEntitled
