--------------------------- MODULE BackOfficeProofs ---------------------------
(***************************************************************************)
(* Proofs about BackOffice (debit notes, warranty claims, dismantling, AMC *)
(* contracts and their postings), for any documents and contracts. Types   *)
(* hold for any number of overlapping requests (TypeInv); that nothing     *)
(* takes effect or is posted twice, and the rest, for requests that do not *)
(* overlap (SerialInv).                                                    *)
(*                                                                         *)
(* A posting is a transaction of its own after the one that gives the      *)
(* document its effect, and either may be the last thing a request does.   *)
(* So the invariant cannot say that the ledger equals the effects: it says *)
(* that the ledger is never ahead of them (Books), and what the one        *)
(* request under way is still going to do about it (Recalls).              *)
(***************************************************************************)
EXTENDS BackOffice, TLAPS

\* What a request under way knows, whoever else is at work.
Knows(x) ==
  /\ x.op = "post" => x.doc \in Notes /\ x.copy = "POSTED"
  /\ x.op = "ledger" => x.doc \in Documents
  /\ x.op \in {"submit", "cancel", "cancelSave", "creditNote"} => x.doc \in Claims
  /\ x.op = "save" => x.doc \in Records /\ x.copy \in DismantlingRecord
  /\ x.op = "price" => x.doc \in Records /\ x.copy \in Staff
  /\ x.op \in {"schedule", "cancelContract", "reminder", "cancelVisits"} =>
       x.doc \in Contracts /\ contract[x.doc].status # "NONE"
  /\ x.op \in {"cancelContract", "reminder"} =>
       /\ x.copy \in AmcContract /\ x.copy.status # "NONE"
       /\ x.copy.previous = contract[x.doc].previous
  /\ x.op = "schedule" /\ contract[x.doc].previous # None =>
       /\ x.copy \in AmcContract /\ x.copy.status # "NONE"
       /\ contract[contract[x.doc].previous].status # "NONE"
       /\ x.copy.previous = contract[contract[x.doc].previous].previous
  /\ x.op = "bill" => x.doc \in Contracts \X Periods

\* Types are inductive only with what requests know: a save writes what was read before.
TypeInv ==
  /\ TypeOK
  /\ req = [s \in Slots |-> req[s]]
  /\ \A s \in Slots : Knows(req[s])

-----------------------------------------------------------------------------

LEMMA IdleKnows == Knows(Idle) /\ Knows(Idle)' /\ Idle.op = "idle"
BY DEF Idle, Knows

\* A step that writes slot q, and no contract.
LEMMA SlotWritten ==
  ASSUME TypeInv, NEW q \in Slots, NEW x, req' = [req EXCEPT ![q] = x], Knows(x),
         contract' = contract, TypeOK'
  PROVE  TypeInv'
<1>1. req' = [s \in Slots |-> req'[s]] /\ \A s \in Slots : req'[s] = IF s = q THEN x ELSE req[s]
  BY DEF TypeInv
<1>2. \A s \in Slots : Knows(req'[s])
  BY <1>1 DEF TypeInv
<1>3. \A s \in Slots : Knows(req[s])'
  BY <1>2 DEF Knows
<1>. QED
  BY <1>1, <1>3 DEF TypeInv

LEMMA SlotsSame ==
  ASSUME TypeInv, req' = req, contract' = contract, TypeOK'
  PROVE  TypeInv'
BY DEF TypeInv, Knows

LEMMA DieTyped == ASSUME TypeInv, NEW s \in Slots, Die(s), UNCHANGED <<note, claimVars, recordVars, contractVars>>
  PROVE TypeInv'
<1>1. TypeOK'
  BY DEF TypeInv, TypeOK, Die, claimVars, recordVars, contractVars
<1>. QED
  BY <1>1, IdleKnows, SlotWritten DEF Die, Done, contractVars

LEMMA PostToLedgerTyped ==
  ASSUME TypeInv, NEW s \in Slots, PostToLedger(s), UNCHANGED <<note, claimVars, recordVars, contractVars>>
  PROVE TypeInv'
<1>1. req[s].doc \in Documents
  BY DEF TypeInv, Knows, PostToLedger, Pending
<1>2. TypeOK'
  BY <1>1 DEF TypeInv, TypeOK, PostToLedger, claimVars, recordVars, contractVars
<1>. QED
  BY <1>2, IdleKnows, SlotWritten DEF PostToLedger, Done, contractVars

LEMMA DebitNotesTyped ==
  ASSUME TypeInv, NEW s \in Slots, DebitNotesStep(s), UNCHANGED <<claimVars, recordVars, contractVars>>
  PROVE  TypeInv'
<1>1. ASSUME NEW n \in Notes, GetOrCreateForJobCard(s, n) PROVE TypeInv'
  <2>1. TypeOK'
    BY <1>1 DEF TypeInv, TypeOK, GetOrCreateForJobCard, claimVars, recordVars, contractVars, DebitNoteStatus
  <2>. QED
    BY <1>1, <2>1, SlotsSame DEF GetOrCreateForJobCard, contractVars
<1>2. ASSUME NEW n \in Notes, PostDebitNoteRead(s, n) PROVE TypeInv'
  <2>1. TypeOK'
    BY <1>2 DEF TypeInv, TypeOK, PostDebitNoteRead, claimVars, recordVars, contractVars
  <2>2. Knows([op |-> "post", doc |-> n, copy |-> "POSTED"])
    BY DEF Knows
  <2>. QED
    BY <1>2, <2>1, <2>2, SlotWritten DEF PostDebitNoteRead, Then, contractVars
<1>3. CASE PostDebitNote(s)
  <2>1. req[s].doc \in Notes /\ req[s].copy = "POSTED"
    BY <1>3 DEF TypeInv, Knows, PostDebitNote, Pending
  <2>2. TypeOK'
    BY <1>3, <2>1 DEF TypeInv, TypeOK, PostDebitNote, claimVars, recordVars, contractVars, DebitNoteStatus
  <2>3. Knows([op |-> "ledger", doc |-> req[s].doc, copy |-> None])
    BY <2>1 DEF Knows, Documents
  <2>. QED
    BY <1>3, <2>2, <2>3, SlotWritten DEF PostDebitNote, Then, contractVars
<1>. QED
  BY <1>1, <1>2, <1>3 DEF DebitNotesStep

LEMMA ClaimsTyped ==
  ASSUME TypeInv, NEW s \in Slots, ClaimsStep(s), UNCHANGED <<note, recordVars, contractVars>>
  PROVE  TypeInv'
<1>1. ASSUME NEW c \in Claims, NEW period \in SUBSET Spares, Aggregate(s, c, period) PROVE TypeInv'
  <2>1. TypeOK'
    BY <1>1 DEF TypeInv, TypeOK, Aggregate, recordVars, contractVars, ClaimStatus
  <2>. QED
    BY <1>1, <2>1, SlotsSame DEF Aggregate, contractVars
<1>2. ASSUME NEW c \in Claims, NEW status, NEW op \in {"submit", "cancel", "creditNote"},
             ReadClaim(s, c, status, op)
      PROVE  TypeInv'
  <2>1. TypeOK'
    BY <1>2 DEF TypeInv, TypeOK, ReadClaim, recordVars, contractVars
  <2>2. Knows([op |-> op, doc |-> c, copy |-> LinesOf(c)])
    BY DEF Knows
  <2>. QED
    BY <1>2, <2>1, <2>2, SlotWritten DEF ReadClaim, Then, contractVars
<1>3. CASE Submit(s) \/ CancelClaim(s)
  <2>1. req[s].doc \in Claims
    BY <1>3 DEF TypeInv, Knows, Submit, CancelClaim, Pending
  <2>2. TypeOK'
    BY <1>3, <2>1 DEF TypeInv, TypeOK, Submit, CancelClaim, SaveClaim, recordVars, contractVars, ClaimStatus
  <2>. QED
    BY <1>3, <2>2, IdleKnows, SlotWritten DEF Submit, CancelClaim, Done, contractVars
<1>4. CASE CancelDeletesLines(s)
  <2>1. req[s].doc \in Claims
    BY <1>4 DEF TypeInv, Knows, CancelDeletesLines, Pending
  <2>2. TypeOK'
    BY <1>4, <2>1 DEF TypeInv, TypeOK, CancelDeletesLines, recordVars, contractVars
  <2>3. Knows([op |-> "cancelSave", doc |-> req[s].doc, copy |-> None])
    BY <2>1 DEF Knows
  <2>. QED
    BY <1>4, <2>2, <2>3, SlotWritten DEF CancelDeletesLines, Then, contractVars
<1>5. CASE RecordCreditNote(s)
  <2>1. req[s].doc \in Claims
    BY <1>5 DEF TypeInv, Knows, RecordCreditNote, Pending
  <2>2. TypeOK'
    BY <1>5, <2>1 DEF TypeInv, TypeOK, RecordCreditNote, SaveClaim, recordVars, contractVars, ClaimStatus
  <2>3. Knows([op |-> "ledger", doc |-> req[s].doc, copy |-> None])
    BY <2>1 DEF Knows, Documents
  <2>. QED
    BY <1>5, <2>2, <2>3, SlotWritten DEF RecordCreditNote, Then, contractVars
<1>. QED
  BY <1>1, <1>2, <1>3, <1>4, <1>5 DEF ClaimsStep

LEMMA DismantlingTyped ==
  ASSUME TypeInv, NEW s \in Slots, DismantlingStep(s), UNCHANGED <<note, claimVars, contractVars>>
  PROVE  TypeInv'
<1>0. \A d \in Records : record[d] \in DismantlingRecord
  BY DEF TypeInv, TypeOK
<1>1. ASSUME NEW d \in Records, CreateRecord(s, d) PROVE TypeInv'
  <2>1. [record[d] EXCEPT !.status = "PENDING_HARVEST"] \in DismantlingRecord
    BY <1>0 DEF DismantlingRecord, DismantlingStatus
  <2>2. TypeOK'
    BY <1>1, <2>1 DEF TypeInv, TypeOK, CreateRecord, claimVars, contractVars
  <2>. QED
    BY <1>1, <2>2, SlotsSame DEF CreateRecord, contractVars
<1>2. ASSUME NEW d \in Records, NEW from, NEW copy, NEW op, ReadRecord(s, d, from, op, copy),
             Knows([op |-> op, doc |-> d, copy |-> copy])
      PROVE  TypeInv'
  <2>1. TypeOK'
    BY <1>2 DEF TypeInv, TypeOK, ReadRecord, claimVars, contractVars
  <2>. QED
    BY <1>2, <2>1, SlotWritten DEF ReadRecord, Then, contractVars
<1>3. ASSUME NEW d \in Records, NEW copy \in DismantlingRecord
      PROVE  Knows([op |-> "save", doc |-> d, copy |-> copy])
  BY DEF Knows
<1>4. ASSUME NEW d \in Records, CancelRecordRead(s, d) PROVE TypeInv'
  <2>1. [record[d] EXCEPT !.status = "CANCELLED"] \in DismantlingRecord
    BY <1>0 DEF DismantlingRecord, DismantlingStatus
  <2>. QED
    BY <1>2, <1>3, <1>4, <2>1 DEF CancelRecordRead
<1>5. ASSUME NEW d \in Records, NEW by \in Staff, HarvestRead(s, d, by) PROVE TypeInv'
  <2>1. [record[d] EXCEPT !.status = "COMPONENTS_LOGGED", !.harvested = by] \in DismantlingRecord
    BY <1>0 DEF DismantlingRecord, DismantlingStatus
  <2>. QED
    BY <1>2, <1>3, <1>5, <2>1 DEF HarvestRead
<1>6. ASSUME NEW d \in Records, NEW by \in Staff, VerifyRead(s, d, by) PROVE TypeInv'
  <2>1. [record[d] EXCEPT !.status = "VERIFIED", !.verified = by] \in DismantlingRecord
    BY <1>0 DEF DismantlingRecord, DismantlingStatus
  <2>. QED
    BY <1>2, <1>3, <1>6, <2>1 DEF VerifyRead
<1>7. ASSUME NEW d \in Records, NEW by \in Staff, PriceAndPostRead(s, d, by) PROVE TypeInv'
  <2>1. Knows([op |-> "price", doc |-> d, copy |-> by])
    BY DEF Knows
  <2>. QED
    BY <1>2, <1>7, <2>1 DEF PriceAndPostRead
<1>8. CASE SaveRecord(s)
  <2>1. req[s].doc \in Records /\ req[s].copy \in DismantlingRecord
    BY <1>8 DEF TypeInv, Knows, SaveRecord, Pending
  <2>2. TypeOK'
    BY <1>8, <2>1 DEF TypeInv, TypeOK, SaveRecord, claimVars, contractVars
  <2>. QED
    BY <1>8, <2>2, IdleKnows, SlotWritten DEF SaveRecord, Done, contractVars
<1>9. CASE PriceAndPost(s)
  <2>1. req[s].doc \in Records /\ req[s].copy \in Staff
    BY <1>9 DEF TypeInv, Knows, PriceAndPost, Pending
  <2>2. CASE record[req[s].doc].status = "VERIFIED"
    <3>1. [record[req[s].doc] EXCEPT !.status = "POSTED", !.priced = req[s].copy] \in DismantlingRecord
      BY <1>0, <2>1 DEF DismantlingRecord, DismantlingStatus
    <3>2. /\ record' = [record EXCEPT ![req[s].doc] =
                         [record[req[s].doc] EXCEPT !.status = "POSTED", !.priced = req[s].copy]]
          /\ recovered' = [recovered EXCEPT ![req[s].doc] = @ + 1]
          /\ req' = [req EXCEPT ![s] = [op |-> "ledger", doc |-> req[s].doc, copy |-> None]]
          /\ UNCHANGED <<subject, ledger>>
      BY <1>0, <1>9, <2>1, <2>2 DEF PriceAndPost, Then, TypeInv, TypeOK
    <3>3. TypeOK'
      BY <2>1, <3>1, <3>2 DEF TypeInv, TypeOK, claimVars, contractVars
    <3>4. Knows([op |-> "ledger", doc |-> req[s].doc, copy |-> None])
      BY <2>1 DEF Knows, Documents
    <3>. QED
      BY <3>2, <3>3, <3>4, SlotWritten DEF contractVars
  <2>3. CASE record[req[s].doc].status # "VERIFIED"
    <3>1. TypeOK' /\ req' = [req EXCEPT ![s] = Idle]
      BY <1>9, <2>3 DEF PriceAndPost, Done, TypeInv, TypeOK, claimVars, recordVars, contractVars
    <3>. QED
      BY <3>1, IdleKnows, SlotWritten DEF contractVars
  <2>. QED
    BY <2>2, <2>3
<1>. QED
  BY <1>1, <1>4, <1>5, <1>6, <1>7, <1>8, <1>9 DEF DismantlingStep

\* Contracts are saved whole, but nothing ever changes which contract one renews, and
\* none goes back to not being there.
Older ==
  \A k \in Contracts : contract[k].status # "NONE" =>
    contract'[k].status # "NONE" /\ contract'[k].previous = contract[k].previous

\* What every request knows survives such a step.
LEMMA OlderKnows ==
  ASSUME TypeInv, Older, NEW x, Knows(x)
  PROVE  Knows(x)'
<1>1. contract \in [Contracts -> AmcContract] /\ None \notin Contracts
  BY ContractsAssumption DEF TypeInv, TypeOK
<1>2. \A k \in Contracts : contract[k].previous \in Contracts \union {None}
  BY <1>1 DEF AmcContract
<1>3. x.op \in {"schedule", "cancelContract", "reminder", "cancelVisits"} =>
        /\ x.doc \in Contracts /\ contract'[x.doc].status # "NONE"
        /\ contract'[x.doc].previous = contract[x.doc].previous
  BY DEF Older, Knows
<1>4. x.op = "schedule" /\ contract[x.doc].previous # None =>
        /\ contract[x.doc].previous \in Contracts
        /\ contract'[contract[x.doc].previous].status # "NONE"
        /\ contract'[contract[x.doc].previous].previous = contract[contract[x.doc].previous].previous
  <2>. SUFFICES ASSUME x.op = "schedule", contract[x.doc].previous # None
                PROVE  /\ contract[x.doc].previous \in Contracts
                       /\ contract'[contract[x.doc].previous].status # "NONE"
                       /\ contract'[contract[x.doc].previous].previous =
                            contract[contract[x.doc].previous].previous
    OBVIOUS
  <2>1. x.doc \in Contracts /\ contract[contract[x.doc].previous].status # "NONE"
    BY DEF Knows
  <2>2. contract[x.doc].previous \in Contracts
    BY <1>2, <2>1
  <2>. QED
    BY <2>1, <2>2 DEF Older
<1>5. x.op \in {"cancelContract", "reminder"} =>
        /\ x.copy \in AmcContract /\ x.copy.status # "NONE"
        /\ x.copy.previous = contract'[x.doc].previous
  BY <1>3 DEF Knows
<1>6. x.op = "schedule" /\ contract'[x.doc].previous # None =>
        /\ x.copy \in AmcContract /\ x.copy.status # "NONE"
        /\ contract'[contract'[x.doc].previous].status # "NONE"
        /\ x.copy.previous = contract'[contract'[x.doc].previous].previous
  BY <1>3, <1>4 DEF Knows
<1>7. /\ x.op = "post" => x.doc \in Notes /\ x.copy = "POSTED"
      /\ x.op = "ledger" => x.doc \in Documents
      /\ x.op \in {"submit", "cancel", "cancelSave", "creditNote"} => x.doc \in Claims
      /\ x.op = "save" => x.doc \in Records /\ x.copy \in DismantlingRecord
      /\ x.op = "price" => x.doc \in Records /\ x.copy \in Staff
      /\ x.op = "bill" => x.doc \in Contracts \X Periods
  BY DEF Knows
<1>. QED
  BY <1>3, <1>5, <1>6, <1>7 DEF Knows

LEMMA ContractsChanged ==
  ASSUME TypeInv, NEW q \in Slots, NEW x, req' = [req EXCEPT ![q] = x], Knows(x)', Older, TypeOK'
  PROVE  TypeInv'
<1>1. req' = [s \in Slots |-> req'[s]] /\ \A s \in Slots : req'[s] = IF s = q THEN x ELSE req[s]
  BY DEF TypeInv
<1>2. \A s \in Slots : Knows(req[s])
  BY DEF TypeInv
<1>3. ASSUME NEW s \in Slots PROVE Knows(req[s])'
  <2>1. CASE s = q
    BY <1>1, <2>1 DEF Knows
  <2>2. CASE s # q
    <3>1. PICK y : y = req[s]
      OBVIOUS
    <3>2. Knows(y)
      BY <1>2, <3>1
    <3>3. Knows(y)'
      BY <3>2, OlderKnows
    <3>4. y = req'[s]
      BY <1>1, <2>2, <3>1
    <3>. QED
      BY <3>3, <3>4 DEF Knows
  <2>. QED
    BY <2>1, <2>2
<1>. QED
  BY <1>1, <1>3 DEF TypeInv

LEMMA SameContracts == ASSUME contract' = contract PROVE Older
BY DEF Older

\* A new contract, the renewal of none or of one that is there.
LEMMA ContractInserted ==
  ASSUME TypeInv, NEW k \in Fresh, NEW previous \in Contracts \union {None},
         InsertContract(k, previous)
  PROVE  /\ contract' \in [Contracts -> AmcContract]
         /\ Older
         /\ contract'[k].status = "ACTIVE" /\ contract'[k].previous = previous
         /\ \A j \in Contracts \ {k} : contract'[j] = contract[j]
<1>1. k \in Contracts /\ contract[k].status = "NONE"
  BY DEF Fresh
<1>2. [status |-> "ACTIVE", previous |-> previous] \in AmcContract
  BY DEF AmcContract
<1>3. contract \in [Contracts -> AmcContract]
  BY DEF TypeInv, TypeOK
<1>. QED
  BY <1>1, <1>2, <1>3 DEF InsertContract, Older

\* A contract saved as some request knows it.
LEMMA ContractSaved ==
  ASSUME TypeInv, NEW k \in Contracts, NEW c \in AmcContract, c.status # "NONE",
         c.previous = contract[k].previous, contract' = [contract EXCEPT ![k] = c]
  PROVE  contract' \in [Contracts -> AmcContract] /\ Older
<1>1. contract \in [Contracts -> AmcContract]
  BY DEF TypeInv, TypeOK
<1>. QED
  BY <1>1 DEF Older

\* Where only the contract and the schedule change, the rest stays typed.
LEMMA RestTyped ==
  ASSUME TypeInv, contract' \in [Contracts -> AmcContract],
         scheduled' \in [Contracts -> 0..VisitsDue], bills' \in [Contracts \X Periods -> Bills],
         UNCHANGED <<subject, ledger, note, claimVars, recordVars>>
  PROVE  TypeOK'
BY DEF TypeInv, TypeOK, claimVars, recordVars

LEMMA ContractsTyped ==
  ASSUME TypeInv, NEW s \in Slots, ContractsStep(s), UNCHANGED <<note, claimVars, recordVars>>
  PROVE  TypeInv'
<1>0. /\ contract \in [Contracts -> AmcContract] /\ None \notin Contracts
      /\ scheduled \in [Contracts -> 0..VisitsDue]
      /\ bills \in [Contracts \X Periods -> Bills]
      /\ VisitsDue \in Nat
      /\ Knows(req[s])
  BY ContractsAssumption, VisitsDueAssumption DEF TypeInv, TypeOK
<1>1. ASSUME NEW k \in Contracts, CreateContract(s, k) PROVE TypeInv'
  <2>1. k \in Fresh /\ InsertContract(k, None) /\ UNCHANGED <<subject, ledger, scheduled, bills>>
    BY <1>1 DEF CreateContract
  <2>2. /\ contract' \in [Contracts -> AmcContract] /\ Older
        /\ contract'[k].status = "ACTIVE" /\ contract'[k].previous = None
    BY <2>1, ContractInserted
  <2>3. TypeOK'
    BY <1>0, <2>1, <2>2, RestTyped
  <2>4. Knows([op |-> "schedule", doc |-> k, copy |-> None])'
    BY <2>2 DEF Knows
  <2>. QED
    BY <1>1, <2>2, <2>3, <2>4, ContractsChanged DEF CreateContract, Then
<1>2. ASSUME NEW k \in Contracts, NEW original \in Contracts, RenewContract(s, k, original)
      PROVE  TypeInv'
  <2>1. /\ k \in Fresh /\ InsertContract(k, original) /\ contract[original].status = "ACTIVE"
        /\ UNCHANGED <<subject, ledger, scheduled, bills>>
    BY <1>2 DEF RenewContract, Renewable
  <2>2. k # original
    BY <2>1 DEF Fresh
  <2>3. /\ contract' \in [Contracts -> AmcContract] /\ Older
        /\ contract'[k].status = "ACTIVE" /\ contract'[k].previous = original
        /\ contract'[original] = contract[original]
    BY <2>1, <2>2, ContractInserted
  <2>4. TypeOK'
    BY <1>0, <2>1, <2>3, RestTyped
  <2>5. PICK c : c = [contract[original] EXCEPT !.status = "RENEWED"]
    OBVIOUS
  <2>6. c \in AmcContract /\ c.status # "NONE" /\ c.previous = contract[original].previous
    BY <1>0, <2>5 DEF AmcContract
  <2>7. Knows([op |-> "schedule", doc |-> k, copy |-> c])'
    BY <2>1, <2>3, <2>6 DEF Knows
  <2>8. req' = [req EXCEPT ![s] = [op |-> "schedule", doc |-> k, copy |-> c]]
    BY <1>2, <2>5 DEF RenewContract, Then
  <2>. QED
    BY <2>3, <2>4, <2>7, <2>8, ContractsChanged
<1>3. ASSUME NEW k \in Contracts, NEW op \in {"cancelContract", "reminder"},
             NEW status \in {"CANCELLED", "ACTIVE"}, ReadContract(s, k, op, status)
      PROVE  TypeInv'
  <2>1. TypeOK'
    BY <1>0, <1>3, RestTyped DEF ReadContract
  <2>2. PICK c : c = [contract[k] EXCEPT !.status = status]
    OBVIOUS
  <2>3. c \in AmcContract /\ c.status # "NONE" /\ c.previous = contract[k].previous
    BY <1>0, <2>2 DEF AmcContract
  <2>4. Knows([op |-> op, doc |-> k, copy |-> c])
    BY <1>3, <2>3 DEF Knows, ReadContract
  <2>. QED
    BY <1>3, <2>1, <2>2, <2>4, SlotWritten DEF ReadContract, Then
<1>4. ASSUME NEW b \in Contracts \X Periods, GenerateBillingInvoiceRead(s, b) PROVE TypeInv'
  <2>1. TypeOK'
    BY <1>0, <1>4, RestTyped DEF GenerateBillingInvoiceRead
  <2>2. Knows([op |-> "bill", doc |-> b, copy |-> None])
    BY DEF Knows
  <2>. QED
    BY <1>4, <2>1, <2>2, SlotWritten DEF GenerateBillingInvoiceRead, Then
<1>5. ASSUME NEW b \in Contracts \X Periods, RecordBillingPayment(s, b) PROVE TypeInv'
  <2>1. [bills[b] EXCEPT !.paid = @ + 1] \in Bills
    BY <1>0 DEF Bills
  <2>2. bills' \in [Contracts \X Periods -> Bills]
    BY <1>0, <1>5, <2>1 DEF RecordBillingPayment
  <2>3. TypeOK'
    BY <1>0, <1>5, <2>2, RestTyped DEF RecordBillingPayment
  <2>. QED
    BY <1>5, <2>3, SlotsSame DEF RecordBillingPayment
<1>6. CASE GenerateBillingInvoice(s)
  <2>1. req[s].doc \in Contracts \X Periods
    BY <1>0, <1>6 DEF Knows, GenerateBillingInvoice, Pending
  <2>2. [bills[req[s].doc] EXCEPT !.made = @ + 1] \in Bills
    BY <1>0, <2>1 DEF Bills
  <2>3. bills' \in [Contracts \X Periods -> Bills]
    BY <1>0, <1>6, <2>1, <2>2 DEF GenerateBillingInvoice
  <2>4. TypeOK'
    BY <1>0, <1>6, <2>3, RestTyped DEF GenerateBillingInvoice
  <2>. QED
    BY <1>6, <2>4, IdleKnows, SlotWritten DEF GenerateBillingInvoice, Done
<1>7. CASE GenerateVisit(s)
  <2>1. req[s].doc \in Contracts /\ scheduled[req[s].doc] # VisitsDue
    BY <1>0, <1>7 DEF Knows, GenerateVisit, Pending, ScheduleComplete
  <2>2. scheduled[req[s].doc] + 1 \in 0..VisitsDue
    BY <1>0, <2>1
  <2>3. scheduled' \in [Contracts -> 0..VisitsDue]
    BY <1>0, <1>7, <2>1, <2>2 DEF GenerateVisit
  <2>4. TypeOK'
    BY <1>0, <1>7, <2>3, RestTyped DEF GenerateVisit
  <2>. QED
    BY <1>7, <2>4, SlotsSame DEF GenerateVisit
<1>8. CASE ScheduleDone(s)
  <2>1. req[s].op = "schedule" /\ req[s].doc \in Contracts
    BY <1>0, <1>8 DEF Knows, ScheduleDone, Pending
  <2>2. contract' \in [Contracts -> AmcContract] /\ Older
    <3>1. CASE contract[req[s].doc].previous = None
      BY <1>0, <1>8, <3>1, SameContracts DEF ScheduleDone
    <3>2. CASE contract[req[s].doc].previous # None
      <4>1. PICK j : j = contract[req[s].doc].previous
        OBVIOUS
      <4>2. PICK c : c = req[s].copy
        OBVIOUS
      <4>3. j \in Contracts
        BY <1>0, <2>1, <3>2, <4>1 DEF AmcContract
      <4>4. c \in AmcContract /\ c.status # "NONE" /\ c.previous = contract[j].previous
        BY <1>0, <2>1, <3>2, <4>1, <4>2 DEF Knows
      <4>5. contract' = [contract EXCEPT ![j] = c]
        BY <1>8, <3>2, <4>1, <4>2 DEF ScheduleDone
      <4>. QED
        BY <4>3, <4>4, <4>5, ContractSaved
    <3>. QED
      BY <3>1, <3>2
  <2>3. TypeOK'
    BY <1>0, <1>8, <2>2, RestTyped DEF ScheduleDone
  <2>. QED
    BY <1>8, <2>2, <2>3, IdleKnows, ContractsChanged DEF ScheduleDone, Done
<1>9. CASE SendRenewalReminder(s) \/ CancelContract(s)
  <2>1. req[s].op \in {"cancelContract", "reminder"}
    BY <1>9 DEF SendRenewalReminder, CancelContract, Pending
  <2>2. PICK k : k = req[s].doc
    OBVIOUS
  <2>3. PICK c : c = req[s].copy
    OBVIOUS
  <2>4. k \in Contracts /\ c \in AmcContract /\ c.status # "NONE" /\ c.previous = contract[k].previous
    BY <1>0, <2>1, <2>2, <2>3 DEF Knows
  <2>5. contract' = [contract EXCEPT ![k] = c] /\ UNCHANGED <<subject, ledger, scheduled, bills>>
    BY <1>9, <2>2, <2>3 DEF SendRenewalReminder, CancelContract, SaveContract
  <2>6. contract' \in [Contracts -> AmcContract] /\ Older
    BY <2>4, <2>5, ContractSaved
  <2>7. TypeOK'
    BY <1>0, <2>5, <2>6, RestTyped
  <2>8. CASE SendRenewalReminder(s)
    BY <2>8, <2>6, <2>7, IdleKnows, ContractsChanged DEF SendRenewalReminder, Done
  <2>9. CASE CancelContract(s)
    <3>1. Knows([op |-> "cancelVisits", doc |-> k, copy |-> None])'
      BY <1>0, <2>4, <2>5 DEF Knows
    <3>. QED
      BY <2>2, <2>6, <2>7, <2>9, <3>1, ContractsChanged DEF CancelContract, Then
  <2>. QED
    BY <1>9, <2>8, <2>9
<1>10. CASE CancelVisits(s)
  <2>1. scheduled' \in [Contracts -> 0..VisitsDue]
    <3>1. 0 \in 0..VisitsDue
      BY <1>0
    <3>. QED
      BY <1>0, <1>10, <3>1 DEF CancelVisits
  <2>2. TypeOK'
    BY <1>0, <1>10, <2>1, RestTyped DEF CancelVisits
  <2>. QED
    BY <1>10, <2>2, IdleKnows, SlotWritten DEF CancelVisits, Done
<1>. QED
  BY <1>1, <1>2, <1>3, <1>4, <1>5, <1>6, <1>7, <1>8, <1>9, <1>10 DEF ContractsStep

LEMMA InitTyped == Init => TypeInv
<1>. SUFFICES ASSUME Init PROVE TypeInv
  OBVIOUS
<1>1. TypeOK
  BY VisitsDueAssumption DEF Init, TypeOK, DebitNotesInit, ClaimsInit, DismantlingInit,
     ContractsInit, DebitNoteStatus, ClaimStatus, DismantlingRecord, DismantlingStatus,
     AmcContract, Bills
<1>2. \A s \in Slots : req[s] = Idle
  BY DEF Init
<1>3. req = [s \in Slots |-> req[s]]
  BY DEF Init
<1>. QED
  BY <1>1, <1>2, <1>3, IdleKnows DEF TypeInv

LEMMA NextTyped == TypeInv /\ [Next]_vars => TypeInv'
<1>1. ASSUME TypeInv, Next PROVE TypeInv'
  BY <1>1, DebitNotesTyped, ClaimsTyped, DismantlingTyped, ContractsTyped, PostToLedgerTyped,
     DieTyped DEF Next
<1>2. ASSUME TypeInv, UNCHANGED vars PROVE TypeInv'
  BY <1>2 DEF vars, claimVars, recordVars, contractVars, TypeInv, TypeOK, Knows, Effect
<1>. QED
  BY <1>1, <1>2

\* Every variable has its type, whether requests overlap or not: no schedule is longer
\* than the contract's plan, and no request saves a copy that is not a whole entity.
THEOREM TypeCorrect == Spec => []TypeOK
<1>1. Spec => []TypeInv
  BY InitTyped, NextTyped, PTL DEF Spec
<1>2. TypeInv => TypeOK
  BY DEF TypeInv
<1>. QED
  BY <1>1, <1>2, PTL
-----------------------------------------------------------------------------
\* From here on, requests do not overlap: what one read is still so when it writes.
\* A request may die at any point, and be made again.

Alone == \A r, s \in Slots : req[r] # Idle /\ req[s] # Idle => r = s

Recalls(x) ==
  /\ x.op = "post" => note[x.doc] = "DRAFT"
  /\ x.op = "ledger" => Effect(x.doc) = 1 /\ ledger[x.doc] = 0
  /\ x.op = "submit" => claim[x.doc] = "DRAFT" /\ x.copy = LinesOf(x.doc)
  /\ x.op \in {"cancel", "cancelSave"} => claim[x.doc] = "DRAFT"
  /\ x.op = "creditNote" => claim[x.doc] = "SUBMITTED"
  /\ x.op = "save" => record[x.doc].status # "POSTED" /\ x.copy.status # "POSTED"
  /\ x.op = "cancelContract" => contract[x.doc].status = "ACTIVE" /\ x.copy.status = "CANCELLED"
  /\ x.op = "reminder" => contract[x.doc].status = "ACTIVE" /\ x.copy.status = "ACTIVE"
  /\ x.op = "cancelVisits" => contract[x.doc].status = "CANCELLED"
  /\ x.op = "schedule" =>
       /\ contract[x.doc].status = "ACTIVE"
       /\ contract[x.doc].previous # None =>
            contract[contract[x.doc].previous].status = "ACTIVE" /\ x.copy.status = "RENEWED"

\* Nothing is in the ledger that has not taken effect, nor twice.
Books == \A d \in Documents : Effect(d) \in {0, 1} /\ ledger[d] \in 0..Effect(d)

\* A dismantling record has brought its parts in once it is posted.
Recovered == \A d \in Records : recovered[d] = IF record[d].status = "POSTED" THEN 1 ELSE 0

\* What the vendor was asked for keeps its line, and its claim cannot be cancelled.
Claimed ==
  \A c \in Claims, p \in Spares :
    <<c, p>> \in vendor => line[p] = c /\ claim[c] \in {"SUBMITTED", "CREDIT_RECEIVED"}

\* A contract that is not there renews none: no successor can be overwritten.
NothingRenewsBefore == \A k \in Contracts : contract[k].status = "NONE" => contract[k].previous = None

\* The inductive invariant for requests that do not overlap.
SerialInv ==
  /\ TypeInv
  /\ Alone
  /\ \A s \in Slots : Recalls(req[s])
  /\ Books
  /\ Recovered
  /\ Claimed
  /\ RenewedIsCarriedOn
  /\ NothingRenewsBefore

\* What a step may do to the books: nothing, give one document its effect, or post one.
BooksMove ==
  \/ ledger' = ledger /\ \A d \in Documents : Effect(d)' = Effect(d)
  \/ /\ ledger' = ledger
     /\ \E e \in Documents : /\ Effect(e) = 0 /\ Effect(e)' = 1
                             /\ \A d \in Documents \ {e} : Effect(d)' = Effect(d)
  \/ \E e \in Documents : /\ Effect(e) = 1 /\ ledger[e] = 0
                          /\ ledger' = [ledger EXCEPT ![e] = 1]
                          /\ \A d \in Documents : Effect(d)' = Effect(d)

LEMMA EffectOf ==
  /\ \A n \in Notes : n \in Documents /\ Effect(n) = IF note[n] = "POSTED" THEN 1 ELSE 0
  /\ \A c \in Claims : c \in Documents /\ Effect(c) = IF claim[c] = "CREDIT_RECEIVED" THEN 1 ELSE 0
  /\ \A d \in Records : d \in Documents /\ Effect(d) = recovered[d]
BY DocumentsAssumption DEF Effect, Documents

LEMMA EffectOfNext ==
  /\ \A n \in Notes : n \in Documents /\ Effect(n)' = IF note'[n] = "POSTED" THEN 1 ELSE 0
  /\ \A c \in Claims : c \in Documents /\ Effect(c)' = IF claim'[c] = "CREDIT_RECEIVED" THEN 1 ELSE 0
  /\ \A d \in Records : d \in Documents /\ Effect(d)' = recovered'[d]
BY DocumentsAssumption DEF Effect, Documents

LEMMA EffectSame ==
  ASSUME note' = note, claim' = claim, recovered' = recovered
  PROVE  \A d \in Documents : Effect(d)' = Effect(d)
BY DEF Effect

LEMMA BooksKept == ASSUME Books, BooksMove, ledger \in [Documents -> Nat] PROVE Books'
BY DEF Books, BooksMove

LEMMA IdleRecalls == Recalls(Idle) /\ Recalls(Idle)'
BY DEF Idle, Recalls

\* A request that begins, or goes on, is the only one.
LEMMA OnlySlot ==
  ASSUME Serial, Alone, NEW s \in Slots, NEW service,
         MayBegin(s, service) \/ req[s] # Idle
  PROVE  \A r \in Slots \ {s} : req[r] = Idle
BY DEF Alone, MayBegin

LEMMA PendingIsBusy == ASSUME NEW s, req[s].op # "idle" PROVE req[s] # Idle
BY DEF Idle

LEMMA SlotRecalls ==
  ASSUME TypeInv, NEW q \in Slots, NEW x, req' = [req EXCEPT ![q] = x], Recalls(x)',
         \A r \in Slots \ {q} : req[r] = Idle
  PROVE  Alone' /\ \A s \in Slots : Recalls(req[s])'
<1>1. \A s \in Slots : req'[s] = IF s = q THEN x ELSE Idle
  BY DEF TypeInv
<1>2. Alone'
  BY <1>1 DEF Alone, Idle
<1>3. ASSUME NEW s \in Slots PROVE Recalls(req[s])'
  <2>1. PICK y : y = req'[s]
    OBVIOUS
  <2>2. y = x \/ y = Idle
    BY <1>1, <2>1
  <2>3. Recalls(y)'
    <3>1. CASE y = x
      BY <3>1
    <3>2. CASE y = Idle
      BY <3>2, IdleRecalls
    <3>. QED
      BY <2>2, <3>1, <3>2
  <2>. QED
    BY <2>1, <2>3 DEF Recalls
<1>. QED
  BY <1>2, <1>3

\* A step that begins and ends within itself.
LEMMA NoSlotRecalls ==
  ASSUME TypeInv, req' = req, \A r \in Slots : req[r] = Idle
  PROVE  Alone' /\ \A s \in Slots : Recalls(req[s])'
<1>1. \A s \in Slots : req'[s] = Idle
  OBVIOUS
<1>2. ASSUME NEW s \in Slots PROVE Recalls(req[s])'
  <2>1. req'[s] = Idle
    BY <1>1
  <2>. QED
    BY <2>1 DEF Recalls, Idle
<1>. QED
  BY <1>1, <1>2 DEF Alone, Idle

\* The parts that a desk's step leaves alone.
LEMMA ClaimsKept == ASSUME Claimed, UNCHANGED claimVars PROVE Claimed'
BY DEF Claimed, claimVars

LEMMA RecordsKept == ASSUME Recovered, UNCHANGED recordVars PROVE Recovered'
BY DEF Recovered, recordVars

LEMMA ContractsKept ==
  ASSUME RenewedIsCarriedOn, NothingRenewsBefore, contract' = contract, scheduled' = scheduled
  PROVE  RenewedIsCarriedOn' /\ NothingRenewsBefore'
BY DEF RenewedIsCarriedOn, NothingRenewsBefore

LEMMA DieSerial ==
  ASSUME Serial, SerialInv, NEW s \in Slots, Die(s),
         UNCHANGED <<note, claimVars, recordVars, contractVars>>
  PROVE  BooksMove /\ SerialInv'
<1>1. TypeInv'
  BY DieTyped DEF SerialInv
<1>2. BooksMove
  BY EffectSame DEF Die, BooksMove, claimVars, recordVars
<1>3. Books'
  BY <1>2, BooksKept DEF SerialInv, TypeInv, TypeOK
<1>4. Alone' /\ \A r \in Slots : Recalls(req[r])'
  BY OnlySlot, SlotRecalls, IdleRecalls DEF SerialInv, Die, Done
<1>. QED
  BY <1>1, <1>2, <1>3, <1>4, ClaimsKept, RecordsKept, ContractsKept DEF SerialInv, contractVars

LEMMA PostToLedgerSerial ==
  ASSUME Serial, SerialInv, NEW s \in Slots, PostToLedger(s),
         UNCHANGED <<note, claimVars, recordVars, contractVars>>
  PROVE  BooksMove /\ SerialInv'
<1>1. TypeInv'
  BY PostToLedgerTyped DEF SerialInv
<1>2. PICK e : e = req[s].doc
  OBVIOUS
<1>3. e \in Documents /\ Effect(e) = 1 /\ ledger[e] = 0
  BY <1>2 DEF SerialInv, TypeInv, Knows, Recalls, PostToLedger, Pending
<1>4. ledger' = [ledger EXCEPT ![e] = 1]
  BY <1>2, <1>3 DEF PostToLedger
<1>5. BooksMove
  BY <1>3, <1>4, EffectSame DEF BooksMove, claimVars, recordVars
<1>6. Books'
  BY <1>5, BooksKept DEF SerialInv, TypeInv, TypeOK
<1>7. Alone' /\ \A r \in Slots : Recalls(req[r])'
  <2>1. \A r \in Slots \ {s} : req[r] = Idle
    BY PendingIsBusy, OnlySlot DEF SerialInv, PostToLedger, Pending
  <2>. QED
    BY <2>1, SlotRecalls, IdleRecalls DEF SerialInv, PostToLedger, Done
<1>. QED
  BY <1>1, <1>5, <1>6, <1>7, ClaimsKept, RecordsKept, ContractsKept DEF SerialInv, contractVars

LEMMA DebitNotesSerial ==
  ASSUME Serial, SerialInv, NEW s \in Slots, DebitNotesStep(s),
         UNCHANGED <<claimVars, recordVars, contractVars>>
  PROVE  BooksMove /\ SerialInv'
<1>. USE DEF SerialInv
<1>0. TypeInv'
  BY DebitNotesTyped
<1>1. Claimed' /\ Recovered' /\ RenewedIsCarriedOn' /\ NothingRenewsBefore'
  BY ClaimsKept, RecordsKept, ContractsKept DEF contractVars
<1>2. /\ note \in [Notes -> DebitNoteStatus]
      /\ ledger \in [Documents -> Nat]
      /\ claim' = claim /\ recovered' = recovered
  BY DEF TypeInv, TypeOK, claimVars, recordVars
<1>3. ASSUME NEW n \in Notes, GetOrCreateForJobCard(s, n) PROVE BooksMove /\ SerialInv'
  <2>1. \A d \in Documents : Effect(d)' = Effect(d)
    BY <1>2, <1>3 DEF GetOrCreateForJobCard, Effect
  <2>2. BooksMove
    BY <1>3, <2>1 DEF GetOrCreateForJobCard, BooksMove
  <2>3. Books'
    BY <1>2, <2>2, BooksKept
  <2>4. req' = req /\ \A r \in Slots : req[r] = Idle
    BY <1>3 DEF GetOrCreateForJobCard, MayBegin
  <2>. QED
    BY <1>0, <1>1, <2>2, <2>3, <2>4, NoSlotRecalls
<1>4. ASSUME NEW n \in Notes, PostDebitNoteRead(s, n) PROVE BooksMove /\ SerialInv'
  <2>1. BooksMove
    BY <1>2, <1>4, EffectSame DEF PostDebitNoteRead, BooksMove
  <2>2. Books'
    BY <1>2, <2>1, BooksKept
  <2>3. Recalls([op |-> "post", doc |-> n, copy |-> "POSTED"])'
    BY <1>4 DEF PostDebitNoteRead, Postable, Recalls
  <2>4. \A r \in Slots \ {s} : req[r] = Idle
    BY <1>4, OnlySlot DEF PostDebitNoteRead
  <2>5. Alone' /\ \A r \in Slots : Recalls(req[r])'
    BY <1>4, <2>3, <2>4, SlotRecalls DEF PostDebitNoteRead, Then
  <2>. QED
    BY <1>0, <1>1, <2>1, <2>2, <2>5
<1>5. CASE PostDebitNote(s)
  <2>1. PICK n : n = req[s].doc
    OBVIOUS
  <2>2. n \in Notes /\ req[s].copy = "POSTED" /\ note[n] = "DRAFT" /\ req[s] # Idle
    BY <1>5, <2>1, PendingIsBusy DEF TypeInv, Knows, Recalls, PostDebitNote, Pending
  <2>3. note' = [note EXCEPT ![n] = "POSTED"] /\ ledger' = ledger
    BY <1>5, <2>1, <2>2 DEF PostDebitNote
  <2>4. /\ n \in Documents /\ Effect(n) = 0 /\ Effect(n)' = 1
        /\ \A d \in Documents \ {n} : Effect(d)' = Effect(d)
    BY <1>2, <2>2, <2>3, EffectOf, EffectOfNext DEF Effect
  <2>5. BooksMove
    BY <2>3, <2>4 DEF BooksMove
  <2>6. Books'
    BY <1>2, <2>5, BooksKept
  <2>7. ledger[n] = 0
    BY <2>4 DEF Books
  <2>8. Recalls([op |-> "ledger", doc |-> n, copy |-> None])'
    BY <2>3, <2>4, <2>7 DEF Recalls
  <2>9. \A r \in Slots \ {s} : req[r] = Idle
    BY <2>2, OnlySlot
  <2>10. Alone' /\ \A r \in Slots : Recalls(req[r])'
    BY <1>5, <2>1, <2>8, <2>9, SlotRecalls DEF PostDebitNote, Then
  <2>. QED
    BY <1>0, <1>1, <2>5, <2>6, <2>10
<1>. QED
  BY <1>3, <1>4, <1>5 DEF DebitNotesStep

\* A step that only reads and takes a slot, whatever its desk.
LEMMA ReadSerial ==
  ASSUME Serial, SerialInv, TypeInv', NEW s \in Slots, NEW service, MayBegin(s, service), NEW x,
         req' = [req EXCEPT ![s] = x], Recalls(x)',
         UNCHANGED <<ledger, note, claimVars, recordVars, contractVars>>
  PROVE  BooksMove /\ SerialInv'
<1>1. BooksMove
  BY EffectSame DEF BooksMove, claimVars, recordVars
<1>2. Books'
  BY <1>1, BooksKept DEF SerialInv, TypeInv, TypeOK
<1>3. Alone' /\ \A r \in Slots : Recalls(req[r])'
  BY OnlySlot, SlotRecalls DEF SerialInv
<1>. QED
  BY <1>1, <1>2, <1>3, ClaimsKept, RecordsKept, ContractsKept DEF SerialInv, contractVars

LEMMA ClaimsSerial ==
  ASSUME Serial, SerialInv, NEW s \in Slots, ClaimsStep(s),
         UNCHANGED <<note, recordVars, contractVars>>
  PROVE  BooksMove /\ SerialInv'
<1>. USE DEF SerialInv
<1>0. TypeInv'
  BY ClaimsTyped
<1>1. Recovered' /\ RenewedIsCarriedOn' /\ NothingRenewsBefore'
  BY RecordsKept, ContractsKept DEF contractVars
<1>2. /\ claim \in [Claims -> ClaimStatus] /\ line \in [Spares -> Claims \union {None}]
      /\ ledger \in [Documents -> Nat]
      /\ note' = note /\ recovered' = recovered
      /\ None \notin Claims
  BY NoneAssumption DEF TypeInv, TypeOK, recordVars
<1>3. ASSUME NEW c \in Claims, NEW period \in SUBSET Spares, Aggregate(s, c, period)
      PROVE  BooksMove /\ SerialInv'
  <2>1. claim[c] = "NONE" /\ claim' = [claim EXCEPT ![c] = "DRAFT"] /\ UNCHANGED <<ledger, req, vendor>>
    BY <1>3 DEF Aggregate
  <2>2. \A d \in Documents : Effect(d)' = Effect(d)
    BY <1>2, <2>1 DEF Effect
  <2>3. BooksMove
    BY <2>1, <2>2 DEF BooksMove
  <2>4. Books'
    BY <1>2, <2>3, BooksKept
  <2>5. \A p \in Spares : line[p] # None => line'[p] = line[p]
    BY <1>3 DEF Aggregate, Unclaimed
  <2>6. Claimed'
    BY <1>2, <2>1, <2>5 DEF Claimed
  <2>7. \A r \in Slots : req[r] = Idle
    BY <1>3 DEF Aggregate, MayBegin
  <2>. QED
    BY <1>0, <1>1, <2>1, <2>3, <2>4, <2>6, <2>7, NoSlotRecalls
<1>4. ASSUME NEW c \in Claims, NEW status, NEW op,
             <<status, op>> \in {<<"DRAFT", "submit">>, <<"DRAFT", "cancel">>, <<"SUBMITTED", "creditNote">>},
             ReadClaim(s, c, status, op)
      PROVE  BooksMove /\ SerialInv'
  <2>1. LinesOf(c)' = LinesOf(c) /\ claim'[c] = status
    BY <1>4 DEF ReadClaim, LinesOf
  <2>2. PICK x : x = [op |-> op, doc |-> c, copy |-> LinesOf(c)]
    OBVIOUS
  <2>3. Recalls(x)'
    BY <1>4, <2>1, <2>2 DEF Recalls
  <2>. QED
    BY <1>0, <1>4, <2>2, <2>3, ReadSerial DEF ReadClaim, Then, claimVars
<1>5. CASE Submit(s)
  <2>1. PICK c : c = req[s].doc
    OBVIOUS
  <2>2. c \in Claims /\ claim[c] = "DRAFT" /\ req[s].copy = LinesOf(c) /\ req[s] # Idle
    BY <1>5, <2>1, PendingIsBusy DEF TypeInv, Knows, Recalls, Submit, Pending
  <2>3. /\ claim' = [claim EXCEPT ![c] = "SUBMITTED"]
        /\ vendor' = vendor \union ({c} \X LinesOf(c)) /\ UNCHANGED <<ledger, line>>
    BY <1>5, <2>1, <2>2 DEF Submit, SaveClaim
  <2>4. \A d \in Documents : Effect(d)' = Effect(d)
    BY <1>2, <2>2, <2>3 DEF Effect
  <2>5. BooksMove
    BY <2>3, <2>4 DEF BooksMove
  <2>6. Books'
    BY <1>2, <2>5, BooksKept
  <2>7. Claimed'
    BY <1>2, <2>2, <2>3 DEF Claimed, LinesOf
  <2>8. \A r \in Slots \ {s} : req[r] = Idle
    BY <2>2, OnlySlot
  <2>. QED
    BY <1>0, <1>1, <1>5, <2>5, <2>6, <2>7, <2>8, SlotRecalls, IdleRecalls DEF Submit, Done
<1>6. CASE CancelDeletesLines(s)
  <2>1. PICK c : c = req[s].doc
    OBVIOUS
  <2>2. c \in Claims /\ claim[c] = "DRAFT" /\ req[s] # Idle
    BY <1>6, <2>1, PendingIsBusy DEF TypeInv, Knows, Recalls, CancelDeletesLines, Pending
  <2>3. /\ line' = [p \in Spares |-> IF line[p] = c THEN None ELSE line[p]]
        /\ UNCHANGED <<ledger, claim, vendor>>
    BY <1>6, <2>1 DEF CancelDeletesLines
  <2>4. BooksMove
    BY <1>2, <2>3, EffectSame DEF BooksMove
  <2>5. Books'
    BY <1>2, <2>4, BooksKept
  <2>6. Claimed'
    BY <2>2, <2>3 DEF Claimed
  <2>7. Recalls([op |-> "cancelSave", doc |-> c, copy |-> None])'
    BY <2>2, <2>3 DEF Recalls
  <2>8. \A r \in Slots \ {s} : req[r] = Idle
    BY <2>2, OnlySlot
  <2>9. Alone' /\ \A r \in Slots : Recalls(req[r])'
    BY <1>6, <2>1, <2>7, <2>8, SlotRecalls DEF CancelDeletesLines, Then
  <2>. QED
    BY <1>0, <1>1, <2>4, <2>5, <2>6, <2>9
<1>7. CASE CancelClaim(s)
  <2>1. PICK c : c = req[s].doc
    OBVIOUS
  <2>2. c \in Claims /\ claim[c] = "DRAFT" /\ req[s] # Idle
    BY <1>7, <2>1, PendingIsBusy DEF TypeInv, Knows, Recalls, CancelClaim, Pending
  <2>3. claim' = [claim EXCEPT ![c] = "CANCELLED"] /\ UNCHANGED <<ledger, line, vendor>>
    BY <1>7, <2>1 DEF CancelClaim, SaveClaim
  <2>4. \A d \in Documents : Effect(d)' = Effect(d)
    BY <1>2, <2>2, <2>3 DEF Effect
  <2>5. BooksMove
    BY <2>3, <2>4 DEF BooksMove
  <2>6. Books'
    BY <1>2, <2>5, BooksKept
  <2>7. Claimed'
    BY <1>2, <2>2, <2>3 DEF Claimed
  <2>8. \A r \in Slots \ {s} : req[r] = Idle
    BY <2>2, OnlySlot
  <2>. QED
    BY <1>0, <1>1, <1>7, <2>5, <2>6, <2>7, <2>8, SlotRecalls, IdleRecalls DEF CancelClaim, Done
<1>8. CASE RecordCreditNote(s)
  <2>1. PICK c : c = req[s].doc
    OBVIOUS
  <2>2. c \in Claims /\ claim[c] = "SUBMITTED" /\ req[s] # Idle
    BY <1>8, <2>1, PendingIsBusy DEF TypeInv, Knows, Recalls, RecordCreditNote, Pending
  <2>3. claim' = [claim EXCEPT ![c] = "CREDIT_RECEIVED"] /\ UNCHANGED <<ledger, line, vendor>>
    BY <1>8, <2>1 DEF RecordCreditNote, SaveClaim
  <2>4. /\ c \in Documents /\ Effect(c) = 0 /\ Effect(c)' = 1
        /\ \A d \in Documents \ {c} : Effect(d)' = Effect(d)
    BY <1>2, <2>2, <2>3, EffectOf, EffectOfNext DEF Effect
  <2>5. BooksMove
    BY <2>3, <2>4 DEF BooksMove
  <2>6. Books'
    BY <1>2, <2>5, BooksKept
  <2>7. ledger[c] = 0
    BY <2>4 DEF Books
  <2>8. Claimed'
    BY <1>2, <2>2, <2>3 DEF Claimed
  <2>9. Recalls([op |-> "ledger", doc |-> c, copy |-> None])'
    BY <2>3, <2>4, <2>7 DEF Recalls
  <2>10. \A r \in Slots \ {s} : req[r] = Idle
    BY <2>2, OnlySlot
  <2>11. Alone' /\ \A r \in Slots : Recalls(req[r])'
    BY <1>8, <2>1, <2>9, <2>10, SlotRecalls DEF RecordCreditNote, Then
  <2>. QED
    BY <1>0, <1>1, <2>5, <2>6, <2>8, <2>11
<1>. QED
  BY <1>3, <1>4, <1>5, <1>6, <1>7, <1>8 DEF ClaimsStep

LEMMA DismantlingSerial ==
  ASSUME Serial, SerialInv, NEW s \in Slots, DismantlingStep(s),
         UNCHANGED <<note, claimVars, contractVars>>
  PROVE  BooksMove /\ SerialInv'
<1>. USE DEF SerialInv
<1>0. TypeInv'
  BY DismantlingTyped
<1>1. Claimed' /\ RenewedIsCarriedOn' /\ NothingRenewsBefore'
  BY ClaimsKept, ContractsKept DEF contractVars
<1>2. /\ record \in [Records -> DismantlingRecord] /\ recovered \in [Records -> Nat]
      /\ ledger \in [Documents -> Nat]
      /\ note' = note /\ claim' = claim
  BY DEF TypeInv, TypeOK, claimVars
<1>3. ASSUME NEW d \in Records, CreateRecord(s, d) PROVE BooksMove /\ SerialInv'
  <2>1. BooksMove
    BY <1>2, <1>3, EffectSame DEF CreateRecord, BooksMove
  <2>2. Books'
    BY <1>2, <2>1, BooksKept
  <2>3. Recovered'
    BY <1>2, <1>3 DEF CreateRecord, Recovered, DismantlingRecord
  <2>4. req' = req /\ \A r \in Slots : req[r] = Idle
    BY <1>3 DEF CreateRecord, MayBegin
  <2>. QED
    BY <1>0, <1>1, <2>1, <2>2, <2>3, <2>4, NoSlotRecalls
<1>4. ASSUME NEW d \in Records, NEW from, NEW op \in {"save", "price"}, NEW copy,
             ReadRecord(s, d, from, op, copy), "POSTED" \notin from,
             op = "save" => copy.status # "POSTED"
      PROVE  BooksMove /\ SerialInv'
  <2>1. Recalls([op |-> op, doc |-> d, copy |-> copy])'
    BY <1>4 DEF ReadRecord, Recalls
  <2>. QED
    BY <1>0, <1>4, <2>1, ReadSerial DEF ReadRecord, Then, recordVars
<1>5. ASSUME NEW d \in Records, CancelRecordRead(s, d) PROVE BooksMove /\ SerialInv'
  <2>1. PICK copy : copy = [record[d] EXCEPT !.status = "CANCELLED"]
    OBVIOUS
  <2>2. copy.status # "POSTED"
    BY <1>2, <2>1 DEF DismantlingRecord
  <2>. QED
    BY <1>4, <1>5, <2>1, <2>2 DEF CancelRecordRead
<1>6. ASSUME NEW d \in Records, NEW by \in Staff, HarvestRead(s, d, by) PROVE BooksMove /\ SerialInv'
  <2>1. PICK copy : copy = [record[d] EXCEPT !.status = "COMPONENTS_LOGGED", !.harvested = by]
    OBVIOUS
  <2>2. copy.status # "POSTED"
    BY <1>2, <2>1 DEF DismantlingRecord
  <2>. QED
    BY <1>4, <1>6, <2>1, <2>2 DEF HarvestRead
<1>7. ASSUME NEW d \in Records, NEW by \in Staff, VerifyRead(s, d, by) PROVE BooksMove /\ SerialInv'
  <2>1. PICK copy : copy = [record[d] EXCEPT !.status = "VERIFIED", !.verified = by]
    OBVIOUS
  <2>2. copy.status # "POSTED"
    BY <1>2, <2>1 DEF DismantlingRecord
  <2>. QED
    BY <1>4, <1>7, <2>1, <2>2 DEF VerifyRead
<1>8. ASSUME NEW d \in Records, NEW by \in Staff, PriceAndPostRead(s, d, by) PROVE BooksMove /\ SerialInv'
  BY <1>4, <1>8 DEF PriceAndPostRead
<1>9. CASE SaveRecord(s)
  <2>1. PICK d : d = req[s].doc
    OBVIOUS
  <2>2. /\ d \in Records /\ record[d].status # "POSTED" /\ req[s].copy.status # "POSTED"
        /\ req[s] # Idle
    BY <1>9, <2>1, PendingIsBusy DEF TypeInv, Knows, Recalls, SaveRecord, Pending
  <2>3. BooksMove
    BY <1>2, <1>9, EffectSame DEF SaveRecord, BooksMove
  <2>4. Books'
    BY <1>2, <2>3, BooksKept
  <2>5. Recovered'
    BY <1>2, <1>9, <2>1, <2>2 DEF SaveRecord, Recovered
  <2>6. \A r \in Slots \ {s} : req[r] = Idle
    BY <2>2, OnlySlot
  <2>. QED
    BY <1>0, <1>1, <1>9, <2>3, <2>4, <2>5, <2>6, SlotRecalls, IdleRecalls DEF SaveRecord, Done
<1>10. CASE PriceAndPost(s)
  <2>1. PICK d : d = req[s].doc
    OBVIOUS
  <2>2. d \in Records /\ req[s] # Idle /\ ledger' = ledger
    BY <1>10, <2>1, PendingIsBusy DEF TypeInv, Knows, PriceAndPost, Pending
  <2>3. \A r \in Slots \ {s} : req[r] = Idle
    BY <2>2, OnlySlot
  <2>4. CASE record[d].status = "VERIFIED"
    <3>1. /\ \A e \in Records \ {d} : record'[e].status = record[e].status
          /\ record'[d].status = "POSTED"
          /\ recovered' = [recovered EXCEPT ![d] = @ + 1]
          /\ req' = [req EXCEPT ![s] = [op |-> "ledger", doc |-> d, copy |-> None]]
      BY <1>2, <1>10, <2>1, <2>2, <2>4 DEF PriceAndPost, Then, DismantlingRecord
    <3>2. recovered[d] = 0
      BY <2>2, <2>4 DEF Recovered
    <3>3. Recovered'
      BY <1>2, <2>2, <3>1, <3>2 DEF Recovered
    <3>4. /\ d \in Documents /\ Effect(d) = 0 /\ Effect(d)' = 1
          /\ \A e \in Documents \ {d} : Effect(e)' = Effect(e)
      <4>1. d \in Documents /\ Effect(d) = 0 /\ Effect(d)' = 1
        BY <1>2, <2>2, <3>1, <3>2, EffectOf, EffectOfNext
      <4>2. ASSUME NEW e \in Documents \ {d} PROVE Effect(e)' = Effect(e)
        BY <1>2, <3>1 DEF Effect, Documents
      <4>. QED
        BY <4>1, <4>2
    <3>5. BooksMove
      BY <2>2, <3>4 DEF BooksMove
    <3>6. Books'
      BY <1>2, <3>5, BooksKept
    <3>7. ledger[d] = 0
      BY <3>4 DEF Books
    <3>8. Recalls([op |-> "ledger", doc |-> d, copy |-> None])'
      BY <2>2, <3>4, <3>7 DEF Recalls
    <3>9. Alone' /\ \A r \in Slots : Recalls(req[r])'
      BY <2>3, <3>1, <3>8, SlotRecalls
    <3>. QED
      BY <1>0, <1>1, <3>3, <3>5, <3>6, <3>9
  <2>5. CASE record[d].status # "VERIFIED"
    <3>1. UNCHANGED recordVars /\ req' = [req EXCEPT ![s] = Idle]
      BY <1>10, <2>1, <2>5 DEF PriceAndPost, Done
    <3>2. BooksMove
      BY <1>2, <2>2, <3>1, EffectSame DEF BooksMove, recordVars
    <3>3. Books'
      BY <1>2, <3>2, BooksKept
    <3>4. Alone' /\ \A r \in Slots : Recalls(req[r])'
      BY <2>3, <3>1, SlotRecalls, IdleRecalls
    <3>. QED
      BY <1>0, <1>1, <3>1, <3>2, <3>3, <3>4, RecordsKept
  <2>. QED
    BY <2>4, <2>5
<1>. QED
  BY <1>3, <1>5, <1>6, <1>7, <1>8, <1>9, <1>10 DEF DismantlingStep

\* The books do not know of contracts.
LEMMA ContractsBooks ==
  ASSUME SerialInv, UNCHANGED <<ledger, note, claimVars, recordVars>>
  PROVE  BooksMove /\ Books' /\ Claimed' /\ Recovered'
<1>1. BooksMove
  BY EffectSame DEF BooksMove, claimVars, recordVars
<1>2. Books'
  BY <1>1, BooksKept DEF SerialInv, TypeInv, TypeOK
<1>. QED
  BY <1>1, <1>2, ClaimsKept, RecordsKept DEF SerialInv

\* A contract is saved, and a RENEWED one only with its successor scheduled.
LEMMA ContractSavedCarries ==
  ASSUME SerialInv, NEW k \in Contracts, NEW c \in AmcContract, contract' = [contract EXCEPT ![k] = c],
         c.previous = contract[k].previous, c.status # "NONE", contract[k].status = "ACTIVE",
         scheduled' = scheduled,
         c.status = "RENEWED" =>
           \E j \in Contracts : contract[j].previous = k /\ scheduled[j] = VisitsDue
  PROVE  RenewedIsCarriedOn' /\ NothingRenewsBefore'
<1>1. contract \in [Contracts -> AmcContract]
  BY DEF SerialInv, TypeInv, TypeOK
<1>2. /\ contract'[k] = c
      /\ \A j \in Contracts \ {k} : contract'[j] = contract[j]
      /\ \A j \in Contracts : contract'[j].previous = contract[j].previous
  BY <1>1
<1>3. NothingRenewsBefore'
  BY <1>2 DEF SerialInv, NothingRenewsBefore
<1>4. ASSUME NEW a \in Contracts, contract'[a].status = "RENEWED"
      PROVE  \E j \in Contracts : /\ contract'[j].previous = a
                                  /\ scheduled'[j] = VisitsDue \/ contract'[j].status = "CANCELLED"
  <2>1. CASE a = k
    BY <1>2, <1>4, <2>1
  <2>2. CASE a # k
    <3>1. PICK j \in Contracts : /\ contract[j].previous = a
                                 /\ scheduled[j] = VisitsDue \/ contract[j].status = "CANCELLED"
      BY <1>2, <1>4, <2>2 DEF SerialInv, RenewedIsCarriedOn
    <3>2. contract'[j].previous = a /\ (scheduled'[j] = VisitsDue \/ contract'[j].status = "CANCELLED")
      BY <1>2, <3>1
    <3>. QED
      BY <3>2
  <2>. QED
    BY <2>1, <2>2
<1>. QED
  BY <1>3, <1>4 DEF RenewedIsCarriedOn

\* A contract is inserted where there was none.
LEMMA ContractInsertedCarries ==
  ASSUME SerialInv, NEW k \in Fresh, NEW previous \in Contracts \union {None},
         InsertContract(k, previous), scheduled' = scheduled
  PROVE  RenewedIsCarriedOn' /\ NothingRenewsBefore'
<1>1. k \in Contracts /\ contract[k].status = "NONE" /\ contract[k].previous = None /\ None \notin Contracts
  BY ContractsAssumption DEF Fresh, SerialInv, NothingRenewsBefore
<1>2. contract'[k].status = "ACTIVE" /\ \A j \in Contracts \ {k} : contract'[j] = contract[j]
  BY ContractInserted DEF SerialInv
<1>3. NothingRenewsBefore'
  BY <1>2 DEF SerialInv, NothingRenewsBefore
<1>4. ASSUME NEW a \in Contracts, contract'[a].status = "RENEWED"
      PROVE  \E j \in Contracts : /\ contract'[j].previous = a
                                  /\ scheduled'[j] = VisitsDue \/ contract'[j].status = "CANCELLED"
  <2>1. a # k /\ contract[a].status = "RENEWED"
    BY <1>2, <1>4
  <2>2. PICK j \in Contracts : /\ contract[j].previous = a
                               /\ scheduled[j] = VisitsDue \/ contract[j].status = "CANCELLED"
    BY <2>1 DEF SerialInv, RenewedIsCarriedOn
  <2>3. j # k
    BY <1>1, <2>2
  <2>4. contract'[j] = contract[j] /\ scheduled'[j] = scheduled[j]
    BY <1>2, <2>3
  <2>. QED
    BY <2>2, <2>4
<1>. QED
  BY <1>3, <1>4 DEF RenewedIsCarriedOn

LEMMA ContractsSerial ==
  ASSUME Serial, SerialInv, NEW s \in Slots, ContractsStep(s),
         UNCHANGED <<note, claimVars, recordVars>>
  PROVE  BooksMove /\ SerialInv'
<1>. USE DEF SerialInv
<1>0. TypeInv'
  BY ContractsTyped
<1>1. /\ contract \in [Contracts -> AmcContract] /\ None \notin Contracts
      /\ scheduled \in [Contracts -> 0..VisitsDue]
      /\ Knows(req[s]) /\ Recalls(req[s])
  BY ContractsAssumption DEF TypeInv, TypeOK
<1>2. ASSUME ledger' = ledger, NEW x, req' = [req EXCEPT ![s] = x], Recalls(x)',
             RenewedIsCarriedOn', NothingRenewsBefore',
             (\E service : MayBegin(s, service)) \/ req[s] # Idle
      PROVE  BooksMove /\ SerialInv'
  <2>1. BooksMove /\ Books' /\ Claimed' /\ Recovered'
    BY <1>2, ContractsBooks
  <2>2. \A r \in Slots \ {s} : req[r] = Idle
    BY <1>2, OnlySlot
  <2>3. Alone' /\ \A r \in Slots : Recalls(req[r])'
    BY <1>2, <2>2, SlotRecalls
  <2>. QED
    BY <1>0, <1>2, <2>1, <2>3
<1>3. ASSUME NEW k \in Contracts, CreateContract(s, k) PROVE BooksMove /\ SerialInv'
  <2>1. /\ k \in Fresh /\ InsertContract(k, None) /\ UNCHANGED <<ledger, scheduled>>
        /\ MayBegin(s, "contracts")
    BY <1>3 DEF CreateContract
  <2>2. RenewedIsCarriedOn' /\ NothingRenewsBefore'
    BY <2>1, ContractInsertedCarries
  <2>3. contract'[k].status = "ACTIVE" /\ contract'[k].previous = None
    BY <2>1, ContractInserted
  <2>4. Recalls([op |-> "schedule", doc |-> k, copy |-> None])'
    BY <2>3 DEF Recalls
  <2>. QED
    BY <1>2, <1>3, <2>1, <2>2, <2>4 DEF CreateContract, Then
<1>4. ASSUME NEW k \in Contracts, NEW original \in Contracts, RenewContract(s, k, original)
      PROVE  BooksMove /\ SerialInv'
  <2>1. /\ k \in Fresh /\ InsertContract(k, original) /\ UNCHANGED <<ledger, scheduled>>
        /\ MayBegin(s, "contracts") /\ contract[original].status = "ACTIVE"
    BY <1>4 DEF RenewContract, Renewable
  <2>2. RenewedIsCarriedOn' /\ NothingRenewsBefore'
    BY <2>1, ContractInsertedCarries
  <2>3. k # original
    BY <2>1 DEF Fresh
  <2>4. /\ contract'[k].status = "ACTIVE" /\ contract'[k].previous = original
        /\ contract'[original].status = "ACTIVE"
    BY <2>1, <2>3, ContractInserted
  <2>5. PICK c : c = [contract[original] EXCEPT !.status = "RENEWED"]
    OBVIOUS
  <2>6. c.status = "RENEWED"
    BY <1>1, <2>5 DEF AmcContract
  <2>7. Recalls([op |-> "schedule", doc |-> k, copy |-> c])'
    BY <2>4, <2>6 DEF Recalls
  <2>8. req' = [req EXCEPT ![s] = [op |-> "schedule", doc |-> k, copy |-> c]]
    BY <1>4, <2>5 DEF RenewContract, Then
  <2>. QED
    BY <1>2, <2>1, <2>2, <2>7, <2>8
<1>5. ASSUME NEW k \in Contracts, NEW op, NEW status,
             <<op, status>> \in {<<"cancelContract", "CANCELLED">>, <<"reminder", "ACTIVE">>},
             ReadContract(s, k, op, status)
      PROVE  BooksMove /\ SerialInv'
  <2>1. PICK c : c = [contract[k] EXCEPT !.status = status]
    OBVIOUS
  <2>2. c.status = status
    BY <1>1, <2>1 DEF AmcContract
  <2>3. PICK x : x = [op |-> op, doc |-> k, copy |-> c]
    OBVIOUS
  <2>4. Recalls(x)'
    BY <1>5, <2>2, <2>3 DEF ReadContract, Recalls
  <2>5. RenewedIsCarriedOn' /\ NothingRenewsBefore'
    BY <1>5, ContractsKept DEF ReadContract
  <2>. QED
    BY <1>2, <1>5, <2>1, <2>3, <2>4, <2>5 DEF ReadContract, Then
<1>6. ASSUME NEW b \in Contracts \X Periods, GenerateBillingInvoiceRead(s, b)
      PROVE  BooksMove /\ SerialInv'
  <2>1. Recalls([op |-> "bill", doc |-> b, copy |-> None])'
    BY DEF Recalls
  <2>2. RenewedIsCarriedOn' /\ NothingRenewsBefore'
    BY <1>6, ContractsKept DEF GenerateBillingInvoiceRead
  <2>. QED
    BY <1>2, <1>6, <2>1, <2>2 DEF GenerateBillingInvoiceRead, Then
<1>7. ASSUME NEW b \in Contracts \X Periods, RecordBillingPayment(s, b)
      PROVE  BooksMove /\ SerialInv'
  <2>1. RenewedIsCarriedOn' /\ NothingRenewsBefore'
    BY <1>7, ContractsKept DEF RecordBillingPayment
  <2>2. BooksMove /\ Books' /\ Claimed' /\ Recovered'
    BY <1>7, ContractsBooks DEF RecordBillingPayment
  <2>3. req' = req /\ \A r \in Slots : req[r] = Idle
    BY <1>7 DEF RecordBillingPayment, MayBegin
  <2>. QED
    BY <1>0, <2>1, <2>2, <2>3, NoSlotRecalls
<1>8. CASE GenerateBillingInvoice(s)
  <2>1. RenewedIsCarriedOn' /\ NothingRenewsBefore'
    BY <1>8, ContractsKept DEF GenerateBillingInvoice
  <2>2. req[s] # Idle
    BY <1>8, PendingIsBusy DEF GenerateBillingInvoice, Pending
  <2>. QED
    BY <1>2, <1>8, <2>1, <2>2, IdleRecalls DEF GenerateBillingInvoice, Done
<1>9. CASE GenerateVisit(s)
  <2>1. PICK k : k = req[s].doc
    OBVIOUS
  <2>2. /\ k \in Contracts /\ scheduled[k] # VisitsDue /\ req[s] # Idle
        /\ scheduled' = [scheduled EXCEPT ![k] = @ + 1]
        /\ UNCHANGED <<req, ledger, contract>>
    BY <1>1, <1>9, <2>1, PendingIsBusy DEF GenerateVisit, Pending, Knows, ScheduleComplete
  <2>3. RenewedIsCarriedOn'
    <3>1. \A j \in Contracts : scheduled[j] = VisitsDue => scheduled'[j] = VisitsDue
      BY <1>1, <2>2
    <3>. QED
      BY <2>2, <3>1 DEF RenewedIsCarriedOn
  <2>4. NothingRenewsBefore'
    BY <2>2 DEF NothingRenewsBefore
  <2>5. PICK x : x = req[s]
    OBVIOUS
  <2>6. req' = [req EXCEPT ![s] = x]
    BY <2>2, <2>5 DEF TypeInv
  <2>7. x.op = "schedule" /\ Recalls(x)
    BY <1>1, <1>9, <2>5 DEF GenerateVisit, Pending
  <2>8. Recalls(x)'
    BY <2>2, <2>7 DEF Recalls
  <2>. QED
    BY <1>2, <2>2, <2>3, <2>4, <2>6, <2>8
<1>10. CASE ScheduleDone(s)
  <2>1. PICK k : k = req[s].doc
    OBVIOUS
  <2>2. /\ req[s].op = "schedule" /\ k \in Contracts /\ scheduled[k] = VisitsDue
        /\ req[s] # Idle /\ UNCHANGED <<ledger, scheduled>>
    BY <1>1, <1>10, <2>1, PendingIsBusy DEF ScheduleDone, Pending, Knows, ScheduleComplete
  <2>3. RenewedIsCarriedOn' /\ NothingRenewsBefore'
    <3>1. CASE contract[k].previous = None
      BY <1>10, <2>1, <2>2, <3>1, ContractsKept DEF ScheduleDone
    <3>2. CASE contract[k].previous # None
      <4>1. PICK j : j = contract[k].previous
        OBVIOUS
      <4>2. PICK c : c = req[s].copy
        OBVIOUS
      <4>3. j \in Contracts
        BY <1>1, <2>2, <3>2, <4>1 DEF AmcContract
      <4>4. c \in AmcContract /\ c.status # "NONE" /\ c.previous = contract[j].previous
        BY <1>1, <2>1, <2>2, <3>2, <4>1, <4>2 DEF Knows
      <4>5. contract[j].status = "ACTIVE" /\ c.status = "RENEWED"
        BY <1>1, <2>1, <2>2, <3>2, <4>1, <4>2 DEF Recalls
      <4>6. contract' = [contract EXCEPT ![j] = c]
        BY <1>10, <2>1, <3>2, <4>1, <4>2 DEF ScheduleDone
      <4>. QED
        BY <2>2, <4>1, <4>3, <4>4, <4>5, <4>6, ContractSavedCarries
    <3>. QED
      BY <3>1, <3>2
  <2>. QED
    BY <1>2, <1>10, <2>2, <2>3, IdleRecalls DEF ScheduleDone, Done
<1>11. CASE SendRenewalReminder(s) \/ CancelContract(s)
  <2>1. PICK k : k = req[s].doc
    OBVIOUS
  <2>2. PICK c : c = req[s].copy
    OBVIOUS
  <2>3. req[s].op \in {"cancelContract", "reminder"} /\ req[s] # Idle
    BY <1>11, PendingIsBusy DEF SendRenewalReminder, CancelContract, Pending
  <2>4. k \in Contracts /\ c \in AmcContract /\ c.status # "NONE" /\ c.previous = contract[k].previous
    BY <1>1, <2>1, <2>2, <2>3 DEF Knows
  <2>5. contract[k].status = "ACTIVE" /\ c.status \in {"CANCELLED", "ACTIVE"}
    BY <1>1, <2>1, <2>2, <2>3 DEF Recalls
  <2>6. contract' = [contract EXCEPT ![k] = c] /\ UNCHANGED <<ledger, scheduled>>
    BY <1>11, <2>1, <2>2 DEF SendRenewalReminder, CancelContract, SaveContract
  <2>7. RenewedIsCarriedOn' /\ NothingRenewsBefore'
    BY <2>4, <2>5, <2>6, ContractSavedCarries
  <2>8. CASE SendRenewalReminder(s)
    BY <1>2, <2>3, <2>6, <2>7, <2>8, IdleRecalls DEF SendRenewalReminder, Done
  <2>9. CASE CancelContract(s)
    <3>1. contract'[k].status = "CANCELLED"
      BY <1>1, <2>1, <2>2, <2>4, <2>6, <2>9 DEF CancelContract, Pending, Recalls
    <3>2. Recalls([op |-> "cancelVisits", doc |-> k, copy |-> None])'
      BY <3>1 DEF Recalls
    <3>. QED
      BY <1>2, <2>1, <2>3, <2>6, <2>7, <2>9, <3>2 DEF CancelContract, Then
  <2>. QED
    BY <1>11, <2>8, <2>9
<1>12. CASE CancelVisits(s)
  <2>1. PICK k : k = req[s].doc
    OBVIOUS
  <2>2. k \in Contracts /\ contract[k].status = "CANCELLED" /\ req[s] # Idle
    BY <1>1, <1>12, <2>1, PendingIsBusy DEF CancelVisits, Pending, Knows, Recalls
  <2>3. scheduled' = [scheduled EXCEPT ![k] = 0] /\ UNCHANGED <<ledger, contract>>
    BY <1>12, <2>1 DEF CancelVisits
  <2>4. RenewedIsCarriedOn'
    <3>1. \A j \in Contracts \ {k} : scheduled'[j] = scheduled[j]
      BY <1>1, <2>3
    <3>. QED
      BY <2>2, <2>3, <3>1 DEF RenewedIsCarriedOn
  <2>5. NothingRenewsBefore'
    BY <2>3 DEF NothingRenewsBefore
  <2>. QED
    BY <1>2, <1>12, <2>2, <2>3, <2>4, <2>5, IdleRecalls DEF CancelVisits, Done
<1>. QED
  BY <1>3, <1>4, <1>5, <1>6, <1>7, <1>8, <1>9, <1>10, <1>11, <1>12 DEF ContractsStep

LEMMA InitSerial == Init => SerialInv
<1>. SUFFICES ASSUME Init PROVE SerialInv
  OBVIOUS
<1>1. TypeInv
  BY InitTyped
<1>2. \A s \in Slots : req[s] = Idle
  BY DEF Init
<1>3. Alone /\ \A s \in Slots : Recalls(req[s])
  BY <1>2, IdleRecalls DEF Alone
<1>4. Recovered
  BY DEF Init, DismantlingInit, Recovered
<1>5. \A d \in Documents : Effect(d) = 0 /\ ledger[d] = 0
  BY DEF Init, DismantlingInit, DebitNotesInit, ClaimsInit, Effect, Documents
<1>6. Books
  BY <1>5 DEF Books
<1>7. Claimed /\ RenewedIsCarriedOn /\ NothingRenewsBefore
  BY DEF Init, ClaimsInit, ContractsInit, Claimed, RenewedIsCarriedOn, NothingRenewsBefore
<1>. QED
  BY <1>1, <1>3, <1>4, <1>6, <1>7 DEF SerialInv

LEMMA NextSerial ==
  ASSUME Serial, SerialInv, [Next]_vars
  PROVE  BooksMove /\ SerialInv'
<1>1. CASE Next
  BY <1>1, DebitNotesSerial, ClaimsSerial, DismantlingSerial, ContractsSerial, PostToLedgerSerial,
     DieSerial DEF Next
<1>2. CASE UNCHANGED vars
  <2>1. /\ ledger' = ledger /\ req' = req /\ note' = note
        /\ UNCHANGED claimVars /\ UNCHANGED recordVars /\ UNCHANGED contractVars
    BY <1>2 DEF vars
  <2>2. BooksMove /\ Books' /\ Claimed' /\ Recovered'
    BY <2>1, ContractsBooks
  <2>3. TypeInv'
    BY <1>2, NextTyped DEF SerialInv
  <2>4. Alone' /\ \A s \in Slots : Recalls(req[s])'
    BY <2>1 DEF SerialInv, Alone, Recalls, Effect, LinesOf, claimVars, recordVars, contractVars
  <2>. QED
    BY <2>1, <2>2, <2>3, <2>4, ContractsKept DEF SerialInv, contractVars
<1>. QED
  BY <1>1, <1>2

LEMMA AlwaysSerial == ASSUME Serial PROVE Spec => []SerialInv
<1>1. SerialInv /\ [Next]_vars => SerialInv'
  BY NextSerial
<1>. QED
  BY <1>1, InitSerial, PTL DEF Spec

\* WarrantyClaimsService: when requests do not overlap, no consumed spare is claimed from
\* its vendor twice, through cancelled drafts, new aggregations and requests that died
\* between deleting a claim's lines and saving the claim, for any claims and spares.
THEOREM NoDoubleClaim == ASSUME Serial PROVE Spec => []ClaimedOnce
<1>1. SerialInv => ClaimedOnce
  BY DEF SerialInv, Claimed, ClaimedOnce
<1>. QED
  BY <1>1, AlwaysSerial, PTL

\* AmcService: when requests do not overlap, a RENEWED contract has a successor with its
\* whole schedule (or one that was cancelled), for any number of contracts and visits and
\* wherever a renewal died.
THEOREM RenewalCarriesOn == ASSUME Serial PROVE Spec => []RenewedIsCarriedOn
<1>1. SerialInv => RenewedIsCarriedOn
  BY DEF SerialInv
<1>. QED
  BY <1>1, AlwaysSerial, PTL

\* The finance desk: when requests do not overlap, each debit note, warranty claim and
\* dismantling record takes effect once and is posted to the ledger at most once, and only
\* afterwards: BackOffice implements PostedOnce.
THEOREM ImplementsPostedOnce == ASSUME Serial PROVE Spec => PostedOnceSpec
<1>1. Init => Promise!PostedOnceInit
  <2>. SUFFICES ASSUME Init PROVE Promise!PostedOnceInit
    OBVIOUS
  <2>1. \A d \in Documents : Effect(d) = 0
    BY DEF Init, DismantlingInit, DebitNotesInit, ClaimsInit, Effect, Documents
  <2>. QED
    BY <2>1 DEF Init, Promise!PostedOnceInit
<1>2. SerialInv /\ [Next]_vars => [Promise!PostedOnceNext]_<<[d \in Documents |-> Effect(d)], ledger>>
  <2>. SUFFICES ASSUME SerialInv, [Next]_vars
                PROVE  Promise!PostedOnceNext
                       \/ UNCHANGED <<[d \in Documents |-> Effect(d)], ledger>>
    OBVIOUS
  <2>1. BooksMove
    BY NextSerial
  <2>2. CASE ledger' = ledger /\ \A d \in Documents : Effect(d)' = Effect(d)
    <3>1. [d \in Documents |-> Effect(d)]' = [d \in Documents |-> Effect(d)]
      BY <2>2
    <3>. QED
      BY <2>2, <3>1
  <2>3. ASSUME ledger' = ledger, NEW e \in Documents, Effect(e) = 0, Effect(e)' = 1,
               \A d \in Documents \ {e} : Effect(d)' = Effect(d)
        PROVE  Promise!PostedOnceNext
    <3>1. [d \in Documents |-> Effect(d)]' = [[d \in Documents |-> Effect(d)] EXCEPT ![e] = 1]
      BY <2>3
    <3>2. Promise!TakeEffect(e)
      BY <2>3, <3>1 DEF Promise!TakeEffect
    <3>. QED
      BY <3>2 DEF Promise!PostedOnceNext
  <2>4. ASSUME NEW e \in Documents, Effect(e) = 1, ledger[e] = 0,
               ledger' = [ledger EXCEPT ![e] = 1], \A d \in Documents : Effect(d)' = Effect(d)
        PROVE  Promise!PostedOnceNext
    <3>1. [d \in Documents |-> Effect(d)]' = [d \in Documents |-> Effect(d)]
      BY <2>4
    <3>2. Promise!Post(e)
      BY <2>4, <3>1 DEF Promise!Post
    <3>. QED
      BY <3>2 DEF Promise!PostedOnceNext
  <2>. QED
    BY <2>1, <2>2, <2>3, <2>4 DEF BooksMove
<1>. QED
  BY <1>1, <1>2, AlwaysSerial, PTL DEF Spec, PostedOnceSpec, Promise!PostedOnceSpec

=============================================================================
