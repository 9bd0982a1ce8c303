------------------------- MODULE MCPassportLifecycle -------------------------
(* Model values and the state constraint for TLC. *)
EXTENDS PassportLifecycle, FiniteSets, TLC

Symmetry == Permutations(Revisions) \cup Permutations(Requests)

\* Bound: at most two passports go through the life cycle.  A third may exist
\* as a DRAFT, so that a passport can be revised twice.
TwoLeaveDraft ==
    Cardinality({p \in Passports : status[p] \notin {"absent", "draft"}}) <= 2

=============================================================================
