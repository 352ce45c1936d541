---------------------------- MODULE MC_PublishPlan ----------------------------
(***************************************************************************)
(* Small instances of PublishPlan.  Plans, workers and clerks are          *)
(* interchangeable.                                                        *)
(***************************************************************************)
EXTENDS PublishPlan, TLC

Symmetry == Permutations(Plans) \cup Permutations(Workers) \cup Permutations(Clerks)
=============================================================================
