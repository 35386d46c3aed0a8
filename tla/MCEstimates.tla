----------------------------- MODULE MCEstimates -----------------------------
(***************************************************************************)
(* Small instances of Estimates for TLC.                                   *)
(***************************************************************************)
EXTENDS Estimates

=============================================================================
