------------------------------ MODULE MCRecKeep ------------------------------
(***************************************************************************)
(* Model of RecKeep for TLC.  A cluster of two records and numbers up to 4 *)
(* let two clusters be archived, the first of them once more after a       *)
(* restart.  Three good games and a table of two digests let a game be     *)
(* refused as a duplicate and accepted again after its digest has gone;    *)
(* with two crashes the repair of one crash is hit by another.             *)
(***************************************************************************)
EXTENDS RecKeep
=============================================================================
