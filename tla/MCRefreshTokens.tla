-------------------------- MODULE MCRefreshTokens --------------------------
(* Model values and symmetry for the runs of RefreshTokens. *)
EXTENDS RefreshTokens, TLC

Symmetry == Permutations(Tokens) \cup Permutations(Requests)
=============================================================================
