--------------------------- MODULE MCUserLifecycle ---------------------------
(* Model values and symmetry for the runs of UserLifecycle. *)
EXTENDS UserLifecycle, TLC

Symmetry == Permutations(Invitations) \cup Permutations(Requests)
=============================================================================
