------------------------------- MODULE MCSignIn -------------------------------
(***************************************************************************)
(* Three parts that share no state, one of them active in a behaviour and  *)
(* the others at rest: the owner of an account with two browsers, the      *)
(* gateway of the console that their sessions pass, and the tokens that    *)
(* are minted and presented without any browser.                           *)
(*                                                                         *)
(* Browsers: every way in, every page and every call from one of them, for *)
(* apps of three kinds; the security page while the other signs in.        *)
(***************************************************************************)
EXTENDS LoginPages, Gateway, BearerTokens, TLC

CONSTANTS b1, b2

VARIABLE scene     \* the active part; never changes

MCBrowsers == {b1, b2}

First(calls, others) == b1 :> calls @@ b2 :> others

Insistent == [require |-> TRUE, prompt |-> FALSE, documents |-> TRUE]
Proposing == [require |-> FALSE, prompt |-> TRUE, documents |-> TRUE]
Plain == [require |-> FALSE, prompt |-> FALSE, documents |-> FALSE]

MCSettings ==
  {<<First({"signIn", "social", "verify", "accept", "authorize", "enable", "confirm"}, {}),
     Insistent>>,
   <<First({"signIn", "social", "verifyOtp", "verify", "accept", "authorize", "enable",
            "confirm"}, {}), Proposing>>,
   <<First({"signIn", "verify", "enable", "confirm", "disable", "regenerate", "reset"}, {}),
     Plain>>,
   <<First({"social", "enable", "confirm", "disable"}, {"signIn"}), Plain>>}

\* Two apps with a user, a role and a permission each, and a system permission.
MCAppOf ==
  "ua" :> "a" @@ "ra" :> "a" @@ "pa" :> "a" @@ "ub" :> "b" @@ "rb" :> "b" @@ "pb" :> "b"
    @@ "org" :> "platform"

\* What others change while a token is minted for the first of the users.
MCTurning ==
  [holds |-> {<<"ua", "ra">>}, grants |-> {"ra"} \X {"pa", "org"},
   direct |-> {<<"ua", "org">>}, inactive |-> {"ua"}, enrolled |-> {"ua"},
   required |-> {"a"}, confidential |-> {"a"}, optedIn |-> {"a"}]

\* A part at rest is in one initial state only.
SignInInit ==
  /\ scene \in {"browsers", "gateway", "tokens"}
  /\ Init /\ GatewayInit /\ TokensInit
  /\ scene # "browsers" => uses = First({"social", "enable", "confirm", "disable"}, {"signIn"})

SignInNext ==
  /\ \/ scene = "browsers" /\ Next /\ UNCHANGED <<gatewayVars, tokenVars>>
     \/ scene = "gateway" /\ GatewayNext /\ UNCHANGED <<vars, tokenVars>>
     \/ scene = "tokens" /\ TokensNext /\ UNCHANGED <<vars, gatewayVars>>
  /\ UNCHANGED scene

SignInVars == <<vars, gatewayVars, tokenVars, scene>>

SignInSpec == SignInInit /\ [][SignInNext]_SignInVars

\* The state of every part has its type.
SignInTypeOK ==
  /\ scene = "browsers" => TypeOK
  /\ scene = "gateway" => GatewayTypeOK
  /\ scene = "tokens" => TokensTypeOK
=============================================================================
