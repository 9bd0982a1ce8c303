------------------------- MODULE MCAnalysisPipeline -------------------------
(***************************************************************************)
(* Instances of AnalysisPipeline for TLC: how many jobs share a session.   *)
(***************************************************************************)
EXTENDS AnalysisPipeline, TLC

\* Every job analyses the same capture session.
SharedSession == [j \in Jobs |-> CHOOSE s \in Sessions : TRUE]

\* Job and slot names are interchangeable when all jobs share the session.
Symmetry == Permutations(Jobs) \cup Permutations(Slots)
=============================================================================
