------------------------------ MODULE MCHandover ------------------------------
(***************************************************************************)
(* Small instances of Handover for TLC.                                    *)
(***************************************************************************)
EXTENDS Handover, TLC

\* Request slots are interchangeable: no property names one of them.
SlotSymmetry == Permutations(Requests)

=============================================================================
