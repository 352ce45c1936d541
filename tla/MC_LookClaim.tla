----------------------------- MODULE MC_LookClaim -----------------------------
(***************************************************************************)
(* Two runs for two projects that watch the same repository; weeks of      *)
(* three hours whose first two are Monday.                                 *)
(***************************************************************************)
EXTENDS LookClaim

CONSTANTS r1, r2, p1, p2

MCProject == [r \in Runs |-> IF r = r1 THEN p1 ELSE p2]
=============================================================================
