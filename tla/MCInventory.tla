----------------------------- MODULE MCInventory -----------------------------
(***************************************************************************)
(* Small instances of Inventory for TLC.                                   *)
(***************************************************************************)
EXTENDS Inventory, TLC

\* Request slots are interchangeable: no property names one of them.
SlotSymmetry == Permutations(Requests)

=============================================================================
