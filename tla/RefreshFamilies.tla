-------------------------- MODULE RefreshFamilies --------------------------
(***************************************************************************)
(* What a rotation family promises to the relying party, with no database, *)
(* no request in flight and no clock: a family is a baton.  It is started  *)
(* once, exactly one token holds it at a time, a rotation hands it to a    *)
(* token nobody has seen before, and once a revocation drops it nobody can *)
(* pick it up again.  RefreshTokens implements this specification.         *)
(***************************************************************************)

CONSTANTS
  Tokens,       \* token values; a family is named by the first token in it
  NoToken       \* no token

VARIABLES
  current,      \* current[f]: the token that holds family f, or NoToken
  spent         \* spent[f]: the tokens of f that can no longer be redeemed

familyVars == <<current, spent>>

Seen(t) == \E f \in Tokens : t = current[f] \/ t \in spent[f]

Init ==
  /\ current = [f \in Tokens |-> NoToken]
  /\ spent = [f \in Tokens |-> {}]

\* A sign-in hands out the first token of a new family.
Start(t) ==
  /\ ~Seen(t)
  /\ current' = [current EXCEPT ![t] = t]
  /\ UNCHANGED spent

\* Redeeming the current token replaces it by one never seen before.
Rotate(f, n) ==
  /\ current[f] # NoToken
  /\ ~Seen(n)
  /\ current' = [current EXCEPT ![f] = n]
  /\ spent' = [spent EXCEPT ![f] = @ \cup {current[f]}]

\* Reuse of a spent token, a logout or a deactivation ends whole families.
Revoke(F) ==
  /\ \A f \in F : current[f] # NoToken
  /\ current' = [f \in Tokens |-> IF f \in F THEN NoToken ELSE current[f]]
  /\ spent' = [f \in Tokens |->
                 IF f \in F THEN spent[f] \cup {current[f]} ELSE spent[f]]

Next ==
  \/ \E t \in Tokens : Start(t)
  \/ \E f, n \in Tokens : Rotate(f, n)
  \/ \E F \in SUBSET Tokens : Revoke(F)

Spec == Init /\ [][Next]_familyVars
=============================================================================
