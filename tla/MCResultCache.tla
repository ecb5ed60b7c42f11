--------------------------- MODULE MCResultCache ---------------------------
(***************************************************************************)
(* Small instances of ResultCache for TLC.                                 *)
(***************************************************************************)
EXTENDS ResultCache

Symmetry == Permutations(Keys)
=============================================================================
