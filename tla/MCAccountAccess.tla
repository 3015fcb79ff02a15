--------------------------- MODULE MCAccountAccess ---------------------------
(* Model values and symmetry for the runs of AccountAccess. *)
EXTENDS AccountAccess, TLC

Symmetry == Permutations(Creds) \cup Permutations(Requests)
=============================================================================
