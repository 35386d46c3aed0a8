------------------------------ MODULE BackOffice ------------------------------
(***************************************************************************)
(* The desks together.  They share the general ledger and nothing else, so *)
(* a behaviour is about one of them, chosen at the start.                  *)
(***************************************************************************)
EXTENDS DebitNotes, WarrantyClaims, Dismantling, AmcContracts

CONSTANT Subjects      (* the services a behaviour may be about            *)

vars == <<subject, req, ledger, note, claimVars, recordVars, contractVars>>

Init ==
  /\ subject \in Subjects
  /\ req = [s \in Slots |-> Idle]
  /\ ledger = [d \in Documents |-> 0]
  /\ DebitNotesInit /\ ClaimsInit /\ DismantlingInit /\ ContractsInit

Next ==
  \E s \in Slots :
    \/ DebitNotesStep(s) /\ UNCHANGED <<claimVars, recordVars, contractVars>>
    \/ ClaimsStep(s) /\ UNCHANGED <<note, recordVars, contractVars>>
    \/ DismantlingStep(s) /\ UNCHANGED <<note, claimVars, contractVars>>
    \/ ContractsStep(s) /\ UNCHANGED <<note, claimVars, recordVars>>
    \/ PostToLedger(s) /\ UNCHANGED <<note, claimVars, recordVars, contractVars>>
    \/ Die(s) /\ UNCHANGED <<note, claimVars, recordVars, contractVars>>

Spec == Init /\ [][Next]_vars

-----------------------------------------------------------------------------
(***************************************************************************)
(* Properties.                                                             *)
(***************************************************************************)

TypeOK ==
  /\ subject \in Subjects
  /\ ledger \in [Documents -> Nat]
  /\ note \in [Notes -> DebitNoteStatus]
  /\ claim \in [Claims -> ClaimStatus]
  /\ line \in [Spares -> Claims \union {None}]
  /\ record \in [Records -> DismantlingRecord]
  /\ recovered \in [Records -> Nat]
  /\ contract \in [Contracts -> AmcContract]
  /\ scheduled \in [Contracts -> 0..VisitsDue]
  /\ bills \in [Contracts \X Periods -> Bills]

\* When a document has had its effect: a note is posted, a credit note is recorded, a
\* dismantled unit's parts are on the shelf.
Effect(d) ==
  IF d \in Notes THEN IF note[d] = "POSTED" THEN 1 ELSE 0
  ELSE IF d \in Claims THEN IF claim[d] = "CREDIT_RECEIVED" THEN 1 ELSE 0
  ELSE recovered[d]

Promise == INSTANCE PostedOnce WITH effect <- [d \in Documents |-> Effect(d)],
                                    posted <- ledger

\* Wherever a request dies and however often it is repeated: a document takes effect once,
\* is never taken back, and is posted to the ledger at most once and only afterwards.
PostedOnceSpec == Promise!PostedOnceSpec

\* warranty-claim-line.entity.ts:15-18: the unique index "makes double-claiming
\* structurally impossible".  No consumed spare is claimed from the vendor twice, through
\* cancelled drafts, new aggregations and cancellations that died halfway.  (For requests
\* that do not overlap: a submit that read the lines a cancel is deleting sends them.)
ClaimedOnce == \A c, d \in Claims, p \in Spares : {<<c, p>>, <<d, p>>} \subseteq vendor => c = d

\* A RENEWED contract has a successor whose whole schedule was inserted, wherever a
\* renewal died and however often it was tried again.
RenewedIsCarriedOn ==
  \A k \in Contracts : contract[k].status = "RENEWED" =>
    \E j \in Contracts : /\ contract[j].previous = k
                         /\ \/ scheduled[j] = VisitsDue
                            \/ contract[j].status = "CANCELLED"
===============================================================================
