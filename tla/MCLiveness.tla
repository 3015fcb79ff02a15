------------------------------ MODULE MCLiveness ------------------------------
(***************************************************************************)
(* What must happen in the end, for refresh tokens and authorization codes *)
(* in one run: the two share no state, and one is active in a behaviour.   *)
(***************************************************************************)
EXTENDS AuthorizationCodes, TLC

CONSTANTS
  Scenes,                                   \* the parts to look at
  Tokens, RefreshApps, Rotations,           \* of RefreshTokens
  NoToken, NoRow, SlidingTTL, AbsoluteTTL, RefreshTime

VARIABLES
  scene,                                    \* the active one; never changes
  clock, table, rotation                    \* of RefreshTokens

Refresh ==
  INSTANCE RefreshTokens WITH
    now <- clock, req <- rotation, Apps <- RefreshApps, Requests <- Rotations,
    MaxTime <- RefreshTime

\* Every user belongs to the same, arbitrary app.
MCHome == [u \in Users |-> CHOOSE a \in Clients : TRUE]

refreshVars == <<clock, table, rotation>>

livenessVars == <<codesVars, refreshVars, scene>>

\* The part at rest is in one initial state only.
LivenessInit ==
  /\ scene \in Scenes
  /\ CodesInit /\ Refresh!Init
  /\ scene # "codes" => /\ \A a \in Clients : client[a].secret = 0
                       /\ \A u \in Users : status[u] = "active"

InCodes(A) == scene = "codes" /\ A /\ UNCHANGED <<refreshVars, scene>>

InRefresh(A) == scene = "refresh" /\ A /\ UNCHANGED <<codesVars, scene>>

LivenessNext == InCodes(CodesNext) \/ InRefresh(Refresh!Next)

\* The fairness of the two modules: the sweeper's timer and the clock run, and a
\* handler that can proceed again and again does.
LivenessSpec ==
  /\ LivenessInit /\ [][LivenessNext]_livenessVars
  /\ WF_livenessVars(InCodes(SweepCodes)) /\ WF_livenessVars(InCodes(Tick))
  /\ \A r \in Rotations : SF_livenessVars(InRefresh(Refresh!Serve(r)))

\* No set of refresh-token handlers waits on each other's row locks for ever.
EveryRequestAnswered == Refresh!EveryRequestAnswered
=============================================================================
