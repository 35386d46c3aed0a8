------------------------------ MODULE DebitNotes ------------------------------
(***************************************************************************)
(* DebitNotesService: the recharge of an in-warranty job between           *)
(* departments.  The job card has passed QC and qualifies; its cost and    *)
(* labour are left out.                                                    *)
(***************************************************************************)
EXTENDS Desk

VARIABLE note      (* status of each job card's debit note                 *)

DebitNoteStatus == {"NONE", "DRAFT", "POSTED"}

DebitNotesInit == note = [n \in Notes |-> "NONE"]

\* The unique index on the job card lets one of two overlapping inserts win.
GetOrCreateForJobCard(s, n) ==
  /\ MayBegin(s, "debit notes")
  /\ note[n] = "NONE"
  /\ note' = [note EXCEPT ![n] = "DRAFT"]
  /\ UNCHANGED <<subject, req, ledger>>

\* Fault: a note that has been posted is posted again.
PostableAgain(n) == note[n] # "NONE"

Postable(n) == note[n] = "DRAFT"

PostDebitNoteRead(s, n) ==
  /\ MayBegin(s, "debit notes")
  /\ Postable(n)
  /\ Then(s, "post", n, "POSTED")
  /\ UNCHANGED <<subject, ledger, note>>

PostDebitNote(s) ==
  /\ Pending(s, "post")
  /\ note' = [note EXCEPT ![req[s].doc] = req[s].copy]
  /\ Then(s, "ledger", req[s].doc, None)
  /\ UNCHANGED <<subject, ledger>>

DebitNotesStep(s) ==
  \/ \E n \in Notes : GetOrCreateForJobCard(s, n) \/ PostDebitNoteRead(s, n)
  \/ PostDebitNote(s)
===============================================================================
