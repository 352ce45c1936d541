---------------------------- MODULE MC_Migration ----------------------------
(***************************************************************************)
(* Small instances of Migration: two profiles with pillars of their own    *)
(* and one that has none.                                                  *)
(***************************************************************************)
EXTENDS Migration

MCPillarsOf == [p \in Profiles |-> IF p = "bare" THEN "none" ELSE p]
=============================================================================
