------------------------------- MODULE MCGrants -------------------------------
(***************************************************************************)
(* Sign-ups, and the codes with which they end, in one run: the two share  *)
(* no state, and one is active in a behaviour.                             *)
(***************************************************************************)
EXTENDS SignupPages, AuthorizationCodes, TLC

CONSTANTS
  Scenes,          \* the parts to look at
  t1, t2

VARIABLE scene     \* the active one; never changes

\* Two tabs of the same person: two sign-up attempts for one address.
MCTabs == {t1, t2}
MCInformed == {t1}
MCCalls == {<<t1, "main">>, <<t1, "resend">>, <<t2, "main">>}

MCApps ==
  {[method |-> "code", eligible |-> FALSE, webhook |-> TRUE],
   [method |-> "link", eligible |-> TRUE, webhook |-> TRUE],
   [method |-> "link", eligible |-> FALSE, webhook |-> FALSE]}

\* Every user belongs to the same, arbitrary app.
HomeApp == CHOOSE a \in Clients : TRUE
MCHome == [u \in Users |-> HomeApp]

\* The part at rest is in one initial state only.
GrantsInit ==
  /\ scene \in Scenes
  /\ Init /\ CodesInit
  /\ scene # "signup" => app = CHOOSE a \in Apps : TRUE
  /\ scene # "codes" => /\ \A a \in Clients : client[a].secret = 0
                       /\ \A u \in Users : status[u] = "active"

\* Bound: the Resend button of one tab is not pressed while the other waits.
Spaced == Idle(<<t1, "resend">>) \/ Idle(<<t2, "main">>)

\* Bound: the redirect URIs of the users' app are the only ones that are replaced.
Settled == \A a \in Clients \ {HomeApp} : client'[a].uris = client[a].uris

GrantsNext ==
  \/ scene = "signup" /\ Next /\ Spaced' /\ UNCHANGED <<codesVars, scene>>
  \/ scene = "codes" /\ CodesNext /\ Settled /\ UNCHANGED <<vars, scene>>

GrantsSpec == GrantsInit /\ [][GrantsNext]_<<vars, codesVars, scene>>

Symmetry == Permutations(Requests) \cup Permutations(Uris)

\* Each variable of the two parts has its type.
GrantsTypeOK == TypeOK /\ CodesTypeOK
=============================================================================
