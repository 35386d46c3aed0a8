----------------------------- MODULE MCBackOffice -----------------------------
(***************************************************************************)
(* Small instances of BackOffice for TLC.                                  *)
(***************************************************************************)
EXTENDS BackOffice, TLC

SmallContracts == 1..3

\* Staff are interchangeable: no property names one of them.
StaffSymmetry == Permutations(Staff)

===============================================================================
