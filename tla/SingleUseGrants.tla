-------------------------- MODULE SingleUseGrants --------------------------
(***************************************************************************)
(* What an authorization code promises: it is claimed by at most one       *)
(* request, it leads to at most one answer with tokens, and once it is     *)
(* spent or void nothing brings it back.  No clients, users, clock,        *)
(* database or concurrent handlers.  AuthorizationCodes implements it.     *)
(***************************************************************************)

CONSTANT Codes

VARIABLE grant      \* grant[c]: what has become of code c

Stages == {"unissued", "outstanding", "claimed", "granted", "void"}

Init == grant = [c \in Codes |-> "unissued"]

Move(c, from, to) ==
  /\ grant[c] = from
  /\ grant' = [grant EXCEPT ![c] = to]

\* A code is handed to a browser.
Issue(c) == Move(c, "unissued", "outstanding")

\* One token request takes it.
Claim(c) == Move(c, "outstanding", "claimed")

\* That request is answered with tokens.
Grant(c) == Move(c, "claimed", "granted")

\* Codes that expired, were presented wrongly, or whose request failed.
Void(C) ==
  /\ \A c \in C : grant[c] \in {"outstanding", "claimed"}
  /\ grant' = [c \in Codes |-> IF c \in C THEN "void" ELSE grant[c]]

Next ==
  \/ \E c \in Codes : Issue(c) \/ Claim(c) \/ Grant(c)
  \/ \E C \in SUBSET Codes : Void(C)

Spec == Init /\ [][Next]_grant
=============================================================================
