---------------------------- MODULE WarrantyClaims ----------------------------
(***************************************************************************)
(* WarrantyClaimsService: consumed spares of in-warranty jobs are claimed  *)
(* from their vendor.  All reservations here are consumed, in warranty and *)
(* of one supplier; the period picks some of them.                         *)
(***************************************************************************)
EXTENDS Desk

CONSTANT Spares        (* consumed reservations                            *)

VARIABLES
  claim,       (* status of each WarrantyClaim                             *)
  line,        (* WarrantyClaimLine: the claim of each reservation (the    *)
               (* index on inventoryReservationId is unique), or None      *)
  vendor       (* history: pairs of a claim and a spare it was submitted   *)
               (* for                                                      *)

claimVars == <<claim, line, vendor>>

ClaimStatus == {"NONE", "DRAFT", "SUBMITTED", "CREDIT_RECEIVED", "CANCELLED"}

ClaimsInit ==
  /\ claim = [c \in Claims |-> "NONE"]
  /\ line = [p \in Spares |-> None]
  /\ vendor = {}

LinesOf(c) == {p \in Spares : line[p] = c}

\* Fault: the period's spares are taken whether or not another claim has them.
UnclaimedAny(period) == period

Unclaimed(period) == {p \in period : line[p] = None}

\* One transaction under the supplier's lock.
Aggregate(s, c, period) ==
  /\ MayBegin(s, "warranty claims")
  /\ claim[c] = "NONE"
  /\ Unclaimed(period) # {}
  /\ claim' = [claim EXCEPT ![c] = "DRAFT"]
  /\ line' = [p \in Spares |-> IF p \in Unclaimed(period) THEN c ELSE line[p]]
  /\ UNCHANGED <<subject, req, ledger, vendor>>

\* submit, cancel and recordCreditNote read the claim with its lines and check its status.
ReadClaim(s, c, status, op) ==
  /\ MayBegin(s, "warranty claims")
  /\ claim[c] = status
  /\ Then(s, op, c, LinesOf(c))
  /\ UNCHANGED <<subject, ledger, claim, line, vendor>>

SaveClaim(s, status) == claim' = [claim EXCEPT ![req[s].doc] = status]

\* What the clerk uploads are the lines that were read.
Submit(s) ==
  /\ Pending(s, "submit")
  /\ SaveClaim(s, "SUBMITTED")
  /\ vendor' = vendor \union ({req[s].doc} \X req[s].copy)
  /\ Done(s)
  /\ UNCHANGED <<subject, ledger, line>>

CancelDeletesLines(s) ==
  /\ Pending(s, "cancel")
  /\ line' = [p \in Spares |-> IF line[p] = req[s].doc THEN None ELSE line[p]]
  /\ Then(s, "cancelSave", req[s].doc, None)
  /\ UNCHANGED <<subject, ledger, claim, vendor>>

CancelClaim(s) ==
  /\ Pending(s, "cancelSave")
  /\ SaveClaim(s, "CANCELLED")
  /\ Done(s)
  /\ UNCHANGED <<subject, ledger, line, vendor>>

RecordCreditNote(s) ==
  /\ Pending(s, "creditNote")
  /\ SaveClaim(s, "CREDIT_RECEIVED")
  /\ Then(s, "ledger", req[s].doc, None)
  /\ UNCHANGED <<subject, ledger, line, vendor>>

ClaimsStep(s) ==
  \/ \E c \in Claims :
       \/ \E period \in SUBSET Spares : Aggregate(s, c, period)
       \/ ReadClaim(s, c, "DRAFT", "submit")
       \/ ReadClaim(s, c, "DRAFT", "cancel")
       \/ ReadClaim(s, c, "SUBMITTED", "creditNote")
  \/ Submit(s) \/ CancelDeletesLines(s) \/ CancelClaim(s) \/ RecordCreditNote(s)
===============================================================================
