----------------------------- MODULE AmcContracts -----------------------------
(***************************************************************************)
(* AmcService: a contract, the visits it schedules, its renewal, its       *)
(* cancellation and its bills.  What becomes of a visit is Visits's        *)
(* subject: here it is scheduled or it is not.                             *)
(***************************************************************************)
EXTENDS Desk

CONSTANTS
  Contracts,       (* bound: the contracts there is room for: 1..n         *)
  Periods,         (* bound: the periods a bill can be labelled with       *)
  VisitsDue        (* visits in a contract's schedule                      *)

ASSUME ContractsAssumption == Contracts \subseteq Nat \ {0} /\ None \notin Contracts
ASSUME VisitsDueAssumption == VisitsDue \in Nat

VARIABLES
  contract,    (* AmcContract: status and previousContractId               *)
  scheduled,   (* PM visits inserted for each contract                     *)
  bills        (* AmcBillingInvoice: for each contract and period, how     *)
               (* many were made and how many of them are PAID             *)

contractVars == <<contract, scheduled, bills>>

AmcContract == [status   : {"NONE", "ACTIVE", "CANCELLED", "RENEWED"},
                previous : Contracts \union {None}]

Bills == [made : Nat, paid : Nat]

ContractsInit ==
  /\ contract = [k \in Contracts |-> [status |-> "NONE", previous |-> None]]
  /\ scheduled = [k \in Contracts |-> 0]
  /\ bills = [b \in Contracts \X Periods |-> [made |-> 0, paid |-> 0]]

\* The next contract number.
Fresh == {k \in Contracts : /\ contract[k].status = "NONE"
                            /\ \A j \in Contracts : j < k => contract[j].status # "NONE"}

InsertContract(k, previous) ==
  contract' = [contract EXCEPT ![k] = [status |-> "ACTIVE", previous |-> previous]]

CreateContract(s, k) ==
  /\ MayBegin(s, "contracts")
  /\ k \in Fresh
  /\ InsertContract(k, None)
  /\ Then(s, "schedule", k, None)
  /\ UNCHANGED <<subject, ledger, scheduled, bills>>

Renewable(k) == contract[k].status = "ACTIVE"

\* The new contract, its visits one by one, and at last the original is RENEWED.
RenewContract(s, k, original) ==
  /\ MayBegin(s, "contracts")
  /\ k \in Fresh
  /\ Renewable(original)
  /\ InsertContract(k, original)
  /\ Then(s, "schedule", k, [contract[original] EXCEPT !.status = "RENEWED"])
  /\ UNCHANGED <<subject, ledger, scheduled, bills>>

\* Fault: the last visit of the schedule is left out.
ScheduledEarly(k) == scheduled[k] + 1 >= VisitsDue

\* Fault: the end date gets a visit more.
ScheduledLate(k) == scheduled[k] > VisitsDue

ScheduleComplete(k) == scheduled[k] = VisitsDue

GenerateVisit(s) ==
  LET k == req[s].doc IN
  /\ Pending(s, "schedule")
  /\ ~ScheduleComplete(k)
  /\ scheduled' = [scheduled EXCEPT ![k] = @ + 1]
  /\ UNCHANGED <<subject, req, ledger, contract, bills>>

\* createContract ends with its schedule, renewContract saves the original.
ScheduleDone(s) ==
  LET original == contract[req[s].doc].previous IN
  /\ Pending(s, "schedule")
  /\ ScheduleComplete(req[s].doc)
  /\ contract' = IF original = None THEN contract
                 ELSE [contract EXCEPT ![original] = req[s].copy]
  /\ Done(s)
  /\ UNCHANGED <<subject, ledger, scheduled, bills>>

\* cancelContract and sendRenewalReminder read an ACTIVE contract and save the entity.
ReadContract(s, k, op, status) ==
  /\ MayBegin(s, "contracts")
  /\ contract[k].status = "ACTIVE"
  /\ Then(s, op, k, [contract[k] EXCEPT !.status = status])
  /\ UNCHANGED <<subject, ledger, contract, scheduled, bills>>

SaveContract(s) ==
  /\ contract' = [contract EXCEPT ![req[s].doc] = req[s].copy]
  /\ UNCHANGED <<subject, ledger, scheduled, bills>>

\* Between reading and saving, the reminder goes out.
SendRenewalReminder(s) == Pending(s, "reminder") /\ SaveContract(s) /\ Done(s)

CancelContract(s) ==
  /\ Pending(s, "cancelContract")
  /\ SaveContract(s)
  /\ Then(s, "cancelVisits", req[s].doc, None)

CancelVisits(s) ==
  /\ Pending(s, "cancelVisits")
  /\ scheduled' = [scheduled EXCEPT ![req[s].doc] = 0]
  /\ Done(s)
  /\ UNCHANGED <<subject, ledger, contract, bills>>

Billable(b) == bills[b].made = 0

GenerateBillingInvoiceRead(s, b) ==
  /\ MayBegin(s, "contracts")
  /\ contract[b[1]].status = "ACTIVE"
  /\ Billable(b)
  /\ Then(s, "bill", b, None)
  /\ UNCHANGED <<subject, ledger, contract, scheduled, bills>>

GenerateBillingInvoice(s) ==
  /\ Pending(s, "bill")
  /\ bills' = [bills EXCEPT ![req[s].doc].made = @ + 1]
  /\ Done(s)
  /\ UNCHANGED <<subject, ledger, contract, scheduled>>

\* A bill can be paid whatever became of its contract.
RecordBillingPayment(s, b) ==
  /\ MayBegin(s, "contracts")
  /\ bills[b].paid < bills[b].made
  /\ bills' = [bills EXCEPT ![b].paid = @ + 1]
  /\ UNCHANGED <<subject, req, ledger, contract, scheduled>>

ContractsStep(s) ==
  \/ \E k \in Contracts :
       \/ CreateContract(s, k)
       \/ \E original \in Contracts : RenewContract(s, k, original)
       \/ ReadContract(s, k, "cancelContract", "CANCELLED")
       \/ ReadContract(s, k, "reminder", "ACTIVE")
  \/ \E b \in Contracts \X Periods :
       GenerateBillingInvoiceRead(s, b) \/ RecordBillingPayment(s, b)
  \/ GenerateBillingInvoice(s)
  \/ GenerateVisit(s) \/ ScheduleDone(s) \/ SendRenewalReminder(s)
  \/ CancelContract(s) \/ CancelVisits(s)
===============================================================================
