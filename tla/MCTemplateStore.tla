-------------------------- MODULE MCTemplateStore --------------------------
(***************************************************************************)
(* Small instances of TemplateStore for TLC.                               *)
(***************************************************************************)
EXTENDS TemplateStore, TLC

CONSTANTS i1, i2, i3

\* Two templates were saved under one name, and one under another.
Naming == (i1 :> "users") @@ (i2 :> "users") @@ (i3 :> "orders")

Symmetry == Permutations({i1, i2}) \cup Permutations(Queries) \cup Permutations(Requests)
=============================================================================
