------------------------------ MODULE MC_GhCall ------------------------------
(***************************************************************************)
(* Small instances of GhCall: a call, the next one, and fewer process ids  *)
(* than calls, so that they are reused at once.                            *)
(***************************************************************************)
EXTENDS GhCall
=============================================================================
