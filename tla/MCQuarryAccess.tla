--------------------------- MODULE MCQuarryAccess ---------------------------
(* Model values for TLC. *)
EXTENDS QuarryAccess, TLC

Symmetry ==
    Permutations(Requests) \cup Permutations(Users) \cup Permutations(Quarries)

=============================================================================
