------------------------------ MODULE Inventory ------------------------------
(***************************************************************************)
(* The spare-part store of the service portal: InventoryService together   *)
(* with the job-card status its handlers read and write.                   *)
(*                                                                         *)
(* A handler is an HTTP request that runs on Node's event loop and talks   *)
(* to PostgreSQL.  Between two awaits other requests run, so a handler is  *)
(* modelled as one action per database transaction it commits: typically   *)
(* a READ, which copies the rows it will write into the request's memory,  *)
(* and a COMMIT.  repository.save(entity) SELECTs the row and UPDATEs the  *)
(* columns whose value in the entity differs.  So a column the handler     *)
(* changed gets its new value, and one it left alone is put back to what   *)
(* the handler read, unless another request changed it after that SELECT:  *)
(* SaveRows has a choice, kept, for exactly those columns.                 *)
(*                                                                         *)
(* Writers of a MAIN_STORE stock row hold pg_advisory_xact_lock(part) from *)
(* before they read that row until they commit; the part of a transaction  *)
(* after it has its part locks is therefore one step.                      *)
(***************************************************************************)
EXTENDS Naturals, FiniteSets, Functions

CONSTANTS
  Parts,            (* spare parts linked to at least one model (AC-17)     *)
  Jobs,             (* job cards                                            *)
  OnSiteJobs,       (* those whose section is ON_SITE_REPAIR                *)
  Requests,         (* slots for requests in flight at the same time        *)
  Quantities,       (* quantities a caller may ask for (DTOs: IsInt, Min 1) *)
  MaxReservations,  (* bound: reservation rows ever inserted                *)
  MaxReceived,      (* bound: units of a part received by goods receipts    *)
  MaxOnHand         (* bound: quantityOnHand, so that returns stay finite   *)

ASSUME PartsAssumption      == Parts # {} /\ IsFiniteSet(Parts)
ASSUME JobsAssumption       == Jobs # {} /\ OnSiteJobs \subseteq Jobs
ASSUME QuantitiesAssumption == Quantities \subseteq Nat \ {0}
ASSUME BoundsAssumption     == /\ MaxReservations \in Nat
                               /\ MaxReceived \in Nat
                               /\ MaxOnHand \in Nat

VARIABLES
  stocked,          (* parts that have a MAIN_STORE stock row               *)
  onHand,           (* MAIN_STORE quantityOnHand                            *)
  quantityReserved, (* MAIN_STORE quantityReserved                          *)
  damage,           (* DAMAGE_LOCATION quantityOnHand                       *)
  received,         (* history: units that came in by goods receipt         *)
  res,              (* the inventory_reservations table                     *)
  nextId,           (* the next reservation row; rows are in requestedAt    *)
                    (* order                                                *)
  jobStatus,        (* JobCard.status                                       *)
  req               (* the requests in flight                               *)

stockVars == <<stocked, onHand, quantityReserved, damage, received>>
tableVars == <<res, nextId>>
vars      == <<stocked, onHand, quantityReserved, damage, received,
               res, nextId, jobStatus, req>>

Reservations == 1..MaxReservations

(***************************************************************************)
(* ReservationStatus; NONE is a row not inserted yet.                      *)
(***************************************************************************)
Status == {"NONE", "PENDING_REVIEW", "HELD", "PARTIALLY_RESERVED",
           "RETURN_PENDING", "RETURNED", "CONSUMED", "REJECTED"}
Active   == {"HELD", "PARTIALLY_RESERVED"}
Terminal == {"RETURNED", "CONSUMED", "REJECTED"}

(***************************************************************************)
(* The statuses of a job card that reservations depend on.                 *)
(***************************************************************************)
JobStatus == {"SECTION_ASSIGNED", "IN_PROGRESS", "SPARE_PENDING",
              "READY_FOR_QC", "QC_PASSED", "CANCELLED"}

(***************************************************************************)
(* What a request in flight is doing: the handler and how far it is.       *)
(***************************************************************************)
Ops == {"idle", "requestSpare", "topUp", "spareHeld", "spareShort",
        "resume", "setSparePending", "needSpare", "needSpareReview",
        "review", "requestReturn", "mark", "confirmEach", "confirm",
        "release", "cancel", "cancelled", "cancelReservations",
        "qcApprove", "qcReject", "complete"}

AnyPart == CHOOSE p \in Parts : TRUE
AnyJob  == CHOOSE j \in Jobs : TRUE

Row == [status    : Status,
        part      : Parts,
        job       : Jobs,
        requested : Nat,
        reserved  : Nat,
        returned  : Nat]

NoRow == [status |-> "NONE", part |-> AnyPart, job |-> AnyJob,
          requested |-> 0, reserved |-> 0, returned |-> 0]

(***************************************************************************)
(* seen is the set of reservations the request has loaded and not dealt    *)
(* with yet, copy their in-memory entities; at and qty are the arguments   *)
(* of the call of confirmReturn it is in (at = 0: none).                   *)
(***************************************************************************)
Request == [op   : Ops,
            job  : Jobs,
            seen : SUBSET Reservations,
            copy : [Reservations -> Row],
            at   : Nat,
            qty  : Nat]

NoCopy    == [r \in Reservations |-> NoRow]
NoRequest == [op |-> "idle", job |-> AnyJob, seen |-> {}, copy |-> NoCopy,
              at |-> 0, qty |-> 0]

\* Fault: no limit.
AtMostUnlimited(m, n) == m

AtMost(m, n) == IF m <= n THEN m ELSE n

\* Fault: the subtraction without its Math.max(0, ...).
MinusUnclamped(m, n) == m - n

\* Math.max(0, m - n)
Minus(m, n) == IF n <= m THEN m - n ELSE 0

\* Fault: what others have set aside still counts as available.
AvailableIgnoresReserved(p) == onHand[p]

\* stock.quantityOnHand - stock.quantityReserved, and never below 0
Available(p) == Minus(onHand[p], quantityReserved[p])

\* Sum of quantityReserved over a set of entities
ReservedSum(rows, S) == SumFunctionOnSet([r \in DOMAIN rows |-> rows[r].reserved], S)

Init ==
  /\ stocked = {}
  /\ onHand = [p \in Parts |-> 0]
  /\ quantityReserved = [p \in Parts |-> 0]
  /\ damage = [p \in Parts |-> 0]
  /\ received = [p \in Parts |-> 0]
  /\ res = NoCopy
  /\ nextId = 1
  /\ jobStatus = [j \in Jobs |-> IF j \in OnSiteJobs THEN "SECTION_ASSIGNED"
                                                      ELSE "IN_PROGRESS"]
  /\ req = [q \in Requests |-> NoRequest]

-----------------------------------------------------------------------------
(***************************************************************************)
(* Steps shared by the handlers.                                           *)
(***************************************************************************)

\* Load the rows S for handler op on job j.
Load(q, op, j, S) ==
  req' = [req EXCEPT ![q] =
            [op |-> op, job |-> j, seen |-> S, at |-> 0, qty |-> 0,
             copy |-> [r \in Reservations |-> IF r \in S THEN res[r] ELSE NoRow]]]

\* findReservationById, then the handler's check of the row's status.
ReadRow(q, op, r, allowed) ==
  /\ req[q].op = "idle"
  /\ res[r].status \in allowed
  /\ Load(q, op, res[r].job, {r})
  /\ UNCHANGED <<stockVars, tableVars, jobStatus>>

\* Read a job card whose status the handler accepts.
ReadJob(q, op, j, allowed) ==
  /\ req[q].op = "idle"
  /\ jobStatus[j] \in allowed
  /\ Load(q, op, j, {})
  /\ UNCHANGED <<stockVars, tableVars, jobStatus>>

\* Read the job card of the request again, for its next service call.
RereadJob(q, op, next, allowed) ==
  /\ req[q].op = op
  /\ jobStatus[req[q].job] \in allowed
  /\ req' = [req EXCEPT ![q].op = next]
  /\ UNCHANGED <<stockVars, tableVars, jobStatus>>

Finish(q) == req' = [req EXCEPT ![q] = NoRequest]

\* The columns handlers change once a row is inserted.
Columns == {"status", "reserved", "returned"}

\* The entity old, changed to new, saved over the row cur.
Merge(cur, old, new, kept) ==
  LET put(c, was, read, now) == IF now = read /\ c \in kept THEN was ELSE now IN
  [cur EXCEPT !.status   = put("status", @, old.status, new.status),
              !.reserved = put("reserved", @, old.reserved, new.reserved),
              !.returned = put("returned", @, old.returned, new.returned)]

\* Columns <<r, c>> of loaded rows that another request has changed since.
Touched(q) ==
  {rc \in req[q].seen \X Columns : res[rc[1]][rc[2]] # req[q].copy[rc[1]][rc[2]]}

\* Those of row r among kept.
KeptOf(kept, r) == {c \in Columns : <<r, c>> \in kept}

\* save(): the entities of S, changed to rows, are written.
SaveRows(q, rows, S) ==
  \E kept \in SUBSET Touched(q) :
    res' = [r \in Reservations |->
              IF r \in S THEN Merge(res[r], req[q].copy[r], rows[r], KeptOf(kept, r))
              ELSE res[r]]

\* The entities of request q with status s.
WithStatus(q, s) ==
  [r \in Reservations |-> IF r \in req[q].seen THEN [req[q].copy[r] EXCEPT !.status = s]
                                               ELSE req[q].copy[r]]

InsertRow(row) ==
  /\ nextId \in Reservations
  /\ res' = [res EXCEPT ![nextId] = row]
  /\ nextId' = nextId + 1

\* A handler whose only write is its loaded entities with a new status.
SaveStatus(q, op, s) ==
  /\ req[q].op = op
  /\ SaveRows(q, WithStatus(q, s), req[q].seen)
  /\ Finish(q)
  /\ UNCHANGED <<stockVars, nextId, jobStatus>>

\* A handler whose write is the job card it read, with a new status.
SaveJob(q, op, s) ==
  /\ req[q].op = op
  /\ jobStatus' = [jobStatus EXCEPT ![req[q].job] = s]
  /\ UNCHANGED <<stockVars, tableVars>>

\* Fault: a short reservation is reported as held.
ReservedStatusAlwaysHeld(got, asked) == "HELD"

\* HELD when everything asked for was set aside, else PARTIALLY_RESERVED.
ReservedStatus(got, asked) == IF got >= asked THEN "HELD" ELSE "PARTIALLY_RESERVED"

-----------------------------------------------------------------------------
(***************************************************************************)
(* grn: a goods receipt, one transaction under the part's lock.            *)
(***************************************************************************)
Grn(p, n) ==
  /\ received[p] + n <= MaxReceived
  /\ onHand[p] + n <= MaxOnHand
  /\ stocked' = stocked \cup {p}
  /\ onHand' = [onHand EXCEPT ![p] = @ + n]
  /\ received' = [received EXCEPT ![p] = @ + n]
  /\ UNCHANGED <<quantityReserved, damage, tableVars, jobStatus, req>>

(***************************************************************************)
(* WorkshopService.requestSpare: the status check on the job card, then    *)
(* reserve(), a transaction of its own under the part's lock, then the     *)
(* job card is read again: a full reservation resumes a job that waits     *)
(* for parts, a short one makes it wait.  A job that was READY_FOR_QC when *)
(* it was first read is left alone (topUp).                                *)
(***************************************************************************)
RequestSpareRead(q, j) ==
  /\ j \notin OnSiteJobs
  /\ ReadJob(q, "requestSpare", j, {"IN_PROGRESS", "SPARE_PENDING"})

TopUpRead(q, j) ==
  /\ j \notin OnSiteJobs
  /\ ReadJob(q, "topUp", j, {"READY_FOR_QC"})

\* Fault: the job is made to wait for parts whatever it got.
AfterReserveAlwaysShort(x, status) ==
  IF x.op = "topUp" THEN NoRequest ELSE [x EXCEPT !.op = "spareShort"]

\* What is left of the request once its reservation is committed.
AfterReserve(x, status) ==
  IF x.op = "topUp" THEN NoRequest
  ELSE [x EXCEPT !.op = IF status = "HELD" THEN "spareHeld" ELSE "spareShort"]

Reserve(q, p, n) ==
  LET got    == AtMost(n, Available(p))
      status == ReservedStatus(got, n) IN
  /\ req[q].op \in {"requestSpare", "topUp"}
  /\ p \in stocked
  /\ quantityReserved' = [quantityReserved EXCEPT ![p] = @ + got]
  /\ InsertRow([status |-> status, part |-> p, job |-> req[q].job,
                requested |-> n, reserved |-> got, returned |-> 0])
  /\ req' = [req EXCEPT ![q] = AfterReserve(req[q], status)]
  /\ UNCHANGED <<stocked, onHand, damage, received, jobStatus>>

ResumeRead(q) == RereadJob(q, "spareHeld", "resume", {"SPARE_PENDING"})

ResumeFromSparePending(q) == SaveJob(q, "resume", "IN_PROGRESS") /\ Finish(q)

SetSparePendingRead(q) ==
  RereadJob(q, "spareShort", "setSparePending", {"IN_PROGRESS", "SPARE_PENDING"})

SetSparePending(q) == SaveJob(q, "setSparePending", "SPARE_PENDING") /\ Finish(q)

(***************************************************************************)
(* TechnicianService.requestNeedSpare: the on-site job must be             *)
(* SECTION_ASSIGNED when it is read; then the row is inserted.  A retry    *)
(* with the same idempotency key gets the row it inserted: no step.        *)
(***************************************************************************)
NeedSpareRead(q, j) ==
  /\ j \in OnSiteJobs
  /\ ReadJob(q, "needSpare", j, {"SECTION_ASSIGNED"})

RequestNeedSpare(q, p, n) ==
  /\ req[q].op = "needSpare"
  /\ InsertRow([status |-> "PENDING_REVIEW", part |-> p, job |-> req[q].job,
                requested |-> n, reserved |-> 0, returned |-> 0])
  /\ Finish(q)
  /\ UNCHANGED <<stockVars, jobStatus>>

(***************************************************************************)
(* reviewNeedSpareRequest: the status is checked on a row read before the  *)
(* part's lock is taken and is not looked at again.                        *)
(***************************************************************************)
NeedSpareReviewRead(q, r) ==
  ReadRow(q, "needSpareReview", r, {"PENDING_REVIEW"})

NeedSpareReject(q) == SaveStatus(q, "needSpareReview", "REJECTED")

NeedSpareApprove(q, r) ==
  LET row == req[q].copy[r]
      got == AtMost(row.requested, Available(row.part)) IN
  /\ req[q].op = "needSpareReview"
  /\ r \in req[q].seen
  /\ row.part \in stocked
  /\ quantityReserved' = [quantityReserved EXCEPT ![row.part] = @ + got]
  /\ SaveRows(q, [req[q].copy EXCEPT
                    ![r] = [row EXCEPT !.reserved = got,
                                       !.status = ReservedStatus(got, row.requested)]], {r})
  /\ Finish(q)
  /\ UNCHANGED <<stocked, onHand, damage, received, nextId, jobStatus>>

(***************************************************************************)
(* review of an idle reservation.  REJECT keeps the status it read;        *)
(* APPROVE_REALLOCATION sends the part back.                               *)
(***************************************************************************)
ReviewRead(q, r) == ReadRow(q, "review", r, Active)

ReviewReject(q) ==
  /\ req[q].op = "review"
  /\ SaveRows(q, req[q].copy, req[q].seen)
  /\ Finish(q)
  /\ UNCHANGED <<stockVars, nextId, jobStatus>>

ReviewApprove(q) == SaveStatus(q, "review", "RETURN_PENDING")

\* Fault: the return is requested whatever the status of the row.
RequestReturnReadAny(q, r) == ReadRow(q, "requestReturn", r, Status \ {"NONE"})

RequestReturnRead(q, r) == ReadRow(q, "requestReturn", r, Active)

RequestReturn(q) == SaveStatus(q, "requestReturn", "RETURN_PENDING")

(***************************************************************************)
(* confirmReturn: the row is read and checked, then the transaction takes  *)
(* the part's lock, credits the stock row and writes the entity back.      *)
(***************************************************************************)
ConfirmReturnRead(q, r, n) ==
  /\ req[q].op = "idle"
  /\ res[r].status = "RETURN_PENDING"
  /\ n <= res[r].reserved
  /\ req' = [req EXCEPT ![q] =
               [op |-> "confirm", job |-> res[r].job, seen |-> {r}, at |-> r, qty |-> n,
                copy |-> [NoCopy EXCEPT ![r] = res[r]]]]
  /\ UNCHANGED <<stockVars, tableVars, jobStatus>>

\* Fault: the returned quantity is added to what the row already has.
ReturnedRowAdds(row, n) == [row EXCEPT !.status = "RETURNED", !.returned = row.returned + n]

ReturnedRow(row, n) == [row EXCEPT !.status = "RETURNED", !.returned = n]

ConfirmReturn(q, r) ==
  LET row  == req[q].copy[r]
      p    == row.part
      n    == req[q].qty
      rest == req[q].seen \ {r} IN
  /\ req[q].op = "confirm"
  /\ r = req[q].at
  /\ onHand[p] + n <= MaxOnHand
  /\ onHand' = [onHand EXCEPT ![p] = IF p \in stocked THEN @ + n ELSE @]
  /\ quantityReserved' = [quantityReserved EXCEPT
                            ![p] = IF p \in stocked THEN Minus(@, row.reserved) ELSE @]
  /\ SaveRows(q, [req[q].copy EXCEPT ![r] = ReturnedRow(row, n)], {r})
  /\ req' = [req EXCEPT ![q] =
               IF rest = {} THEN NoRequest
               ELSE [req[q] EXCEPT !.op = "confirmEach", !.seen = rest, !.at = 0,
                                   !.qty = 0, !.copy[r] = NoRow]]
  /\ UNCHANGED <<stocked, damage, received, nextId, jobStatus>>

(***************************************************************************)
(* markPhysicallyReturned: an active row is first saved RETURN_PENDING,    *)
(* then confirmReturn runs, reading the row again.                         *)
(* confirmAllReturnsForJobCard lists the RETURN_PENDING rows of a job and  *)
(* runs confirmReturn on each, one after the other.  Both confirm the      *)
(* quantity of the entity they loaded first; a call that throws ends the   *)
(* request (Abandon).                                                      *)
(***************************************************************************)
MarkRead(q, r) == ReadRow(q, "mark", r, Active)

MarkSave(q) ==
  /\ req[q].op = "mark"
  /\ SaveRows(q, WithStatus(q, "RETURN_PENDING"), req[q].seen)
  /\ req' = [req EXCEPT ![q].op = "confirmEach",
                        ![q].copy = WithStatus(q, "RETURN_PENDING")]
  /\ UNCHANGED <<stockVars, nextId, jobStatus>>

MarkReturnPending(q, r) == ReadRow(q, "confirmEach", r, {"RETURN_PENDING"})

ConfirmAllRead(q, j) ==
  LET pending == {r \in Reservations : res[r].status = "RETURN_PENDING" /\ res[r].job = j} IN
  /\ req[q].op = "idle"
  /\ pending # {}
  /\ Load(q, "confirmEach", j, pending)
  /\ UNCHANGED <<stockVars, tableVars, jobStatus>>

ConfirmEachRead(q, r) ==
  LET listed == req[q].copy[r].reserved IN
  /\ req[q].op = "confirmEach"
  /\ r \in req[q].seen
  /\ res[r].status = "RETURN_PENDING"
  /\ listed <= res[r].reserved
  /\ req' = [req EXCEPT ![q] = [req[q] EXCEPT !.op = "confirm", !.at = r, !.qty = listed,
                                              !.copy[r] = res[r]]]
  /\ UNCHANGED <<stockVars, tableVars, jobStatus>>

(***************************************************************************)
(* releaseReservation: a request never reviewed is closed; a held part is  *)
(* un-reserved and sent back, both from the status first read.             *)
(***************************************************************************)
ReleaseRead(q, r) == ReadRow(q, "release", r, Active \cup {"PENDING_REVIEW"})

ReleaseUnreviewed(q) ==
  /\ \A r \in req[q].seen : req[q].copy[r].status = "PENDING_REVIEW"
  /\ SaveStatus(q, "release", "REJECTED")

ReleaseReservation(q, r) ==
  LET row == req[q].copy[r] IN
  /\ req[q].op = "release"
  /\ r \in req[q].seen
  /\ row.status \in Active
  /\ quantityReserved' = [quantityReserved EXCEPT ![row.part] = Minus(@, row.reserved)]
  /\ SaveRows(q, [req[q].copy EXCEPT ![r] = [row EXCEPT !.status = "RETURN_PENDING"]], {r})
  /\ Finish(q)
  /\ UNCHANGED <<stocked, onHand, damage, received, nextId, jobStatus>>

-----------------------------------------------------------------------------
(***************************************************************************)
(* JobCardsController.cancel: JobCardsService.cancel saves the job card,   *)
(* then cancelReservationsForJobCard reads and saves its active rows.      *)
(***************************************************************************)
CancelRead(q, j) == ReadJob(q, "cancel", j, {"SECTION_ASSIGNED", "IN_PROGRESS", "SPARE_PENDING"})

CancelJob(q) ==
  /\ SaveJob(q, "cancel", "CANCELLED")
  /\ req' = [req EXCEPT ![q].op = "cancelled"]

CancelReservationsRead(q) ==
  LET j == req[q].job IN
  /\ req[q].op = "cancelled"
  /\ Load(q, "cancelReservations", j,
          {r \in Reservations : res[r].job = j /\ res[r].status \in Active})
  /\ UNCHANGED <<stockVars, tableVars, jobStatus>>

\* Fault: cancelling closes the rows without anybody bringing the parts back.
CancelReservationsCloses(q) == SaveStatus(q, "cancelReservations", "RETURNED")

CancelReservations(q) == SaveStatus(q, "cancelReservations", "RETURN_PENDING")

(***************************************************************************)
(* The workshop or the on-site technician finishes; QC sends a job back.   *)
(***************************************************************************)
CompleteRead(q, j) ==
  ReadJob(q, "complete", j,
          IF j \in OnSiteJobs THEN {"SECTION_ASSIGNED", "IN_PROGRESS"} ELSE {"IN_PROGRESS"})

CompleteSave(q) == SaveJob(q, "complete", "READY_FOR_QC") /\ Finish(q)

QcRejectRead(q, j) == ReadJob(q, "qcReject", j, {"READY_FOR_QC"})

QcReject(q) == SaveJob(q, "qcReject", "IN_PROGRESS") /\ Finish(q)

(***************************************************************************)
(* consumeReservationsOnQcApproval.  The transaction holds the lock        *)
(* jobcard:<id> from its first read to its commit, but reads the           *)
(* reservations before it has the locks of their parts; what commits in    *)
(* between is seen neither by the shortfall gate nor by the entities it    *)
(* saves.  The update of PENDING_REVIEW rows re-checks their status.       *)
(***************************************************************************)
OpenRows(j) == {r \in Reservations : /\ res[r].job = j
                                     /\ res[r].status \in Active \cup {"PENDING_REVIEW"}}

ActiveOf(q) == {r \in req[q].seen : req[q].copy[r].status \in Active}

\* The latest active request for a part came back short.
Shortfall(j, p) ==
  \E r \in OpenRows(j) :
    /\ res[r].part = p
    /\ res[r].status = "PARTIALLY_RESERVED"
    /\ \A s \in OpenRows(j) :
         (res[s].part = p /\ res[s].status \in Active) => s <= r

QcApproveRead(q, j) ==
  /\ req[q].op = "idle"
  /\ \A other \in Requests : req[other].op = "qcApprove" => req[other].job # j
  /\ jobStatus[j] = "READY_FOR_QC"
  /\ \A p \in Parts : ~Shortfall(j, p)
  /\ Load(q, "qcApprove", j, OpenRows(j))
  /\ UNCHANGED <<stockVars, tableVars, jobStatus>>

\* What the approval uses of each part.
QcUsed(q) ==
  [p \in Parts |->
     ReservedSum(req[q].copy, {r \in ActiveOf(q) : req[q].copy[r].part = p})]

\* Fault: the requests that were never reviewed stay open.
RejectUnreviewedNot(q) == {}

\* The requests for review it rejects, if they still await review.
RejectUnreviewed(q) ==
  {r \in req[q].seen \ ActiveOf(q) : res[r].status = "PENDING_REVIEW"}

\* Fault: the consumed rows are saved as they were read.
QcRowStaysHeld(row) == row

QcRow(row) == [row EXCEPT !.status = "CONSUMED"]

\* Fault: the used units are not received at DAMAGE_LOCATION.
DamageReceivedNot(used) == damage

DamageReceived(used) == [p \in Parts |-> damage[p] + used[p]]

QcApprove(q) ==
  LET used == QcUsed(q) IN
  /\ req[q].op = "qcApprove"
  /\ \A r \in ActiveOf(q) : req[q].copy[r].part \in stocked
  /\ \A p \in Parts : used[p] \in 0..onHand[p]
  /\ onHand' = [p \in Parts |-> onHand[p] - used[p]]
  /\ quantityReserved' = [p \in Parts |-> Minus(quantityReserved[p], used[p])]
  /\ damage' = DamageReceived(used)
  /\ \E kept \in SUBSET Touched(q) :
       res' = [r \in Reservations |->
                 IF r \in ActiveOf(q)
                 THEN Merge(res[r], req[q].copy[r], QcRow(req[q].copy[r]), KeptOf(kept, r))
                 ELSE IF r \in RejectUnreviewed(q)
                      THEN [res[r] EXCEPT !.status = "REJECTED"]
                      ELSE res[r]]
  /\ jobStatus' = [jobStatus EXCEPT ![req[q].job] = "QC_PASSED"]
  /\ Finish(q)
  /\ UNCHANGED <<stocked, received, nextId>>

(***************************************************************************)
(* A handler that throws, or dies with its process, between two of its     *)
(* transactions: what it committed stays, what it had in memory is gone.   *)
(***************************************************************************)
Abandon(q) ==
  /\ req[q].op # "idle"
  /\ Finish(q)
  /\ UNCHANGED <<stockVars, tableVars, jobStatus>>

-----------------------------------------------------------------------------
JobStep(q) ==
  \/ CancelJob(q)
  \/ CancelReservationsRead(q)
  \/ CancelReservations(q)
  \/ ResumeRead(q)
  \/ ResumeFromSparePending(q)
  \/ SetSparePendingRead(q)
  \/ SetSparePending(q)
  \/ CompleteSave(q)
  \/ QcReject(q)
  \/ QcApprove(q)
  \/ \E j \in Jobs : \/ CancelRead(q, j)
                     \/ CompleteRead(q, j)
                     \/ QcRejectRead(q, j)
                     \/ QcApproveRead(q, j)

ReservationStep(q) ==
  \/ NeedSpareReject(q)
  \/ ReviewReject(q)
  \/ ReviewApprove(q)
  \/ RequestReturn(q)
  \/ MarkSave(q)
  \/ ReleaseUnreviewed(q)
  \/ \E r \in Reservations : \/ NeedSpareReviewRead(q, r)
                             \/ NeedSpareApprove(q, r)
                             \/ ReviewRead(q, r)
                             \/ RequestReturnRead(q, r)
                             \/ MarkRead(q, r)
                             \/ MarkReturnPending(q, r)
                             \/ ConfirmEachRead(q, r)
                             \/ ConfirmReturn(q, r)
                             \/ ReleaseRead(q, r)
                             \/ ReleaseReservation(q, r)
                             \/ \E n \in Quantities : ConfirmReturnRead(q, r, n)

RequestStep(q) ==
  \/ \E j \in Jobs : \/ RequestSpareRead(q, j)
                     \/ TopUpRead(q, j)
                     \/ NeedSpareRead(q, j)
                     \/ ConfirmAllRead(q, j)
  \/ \E p \in Parts, n \in Quantities : \/ Reserve(q, p, n)
                                        \/ RequestNeedSpare(q, p, n)

Next ==
  \/ \E p \in Parts, n \in Quantities : Grn(p, n)
  \/ \E q \in Requests : \/ RequestStep(q)
                         \/ ReservationStep(q)
                         \/ JobStep(q)
                         \/ Abandon(q)

Spec == Init /\ [][Next]_vars

-----------------------------------------------------------------------------
(***************************************************************************)
(* Properties that hold however the handlers interleave.                   *)
(***************************************************************************)

\* Every variable and every request's memory has its type.
TypeOK ==
  /\ stocked \subseteq Parts
  /\ onHand \in [Parts -> Nat]
  /\ quantityReserved \in [Parts -> Nat]
  /\ damage \in [Parts -> Nat]
  /\ received \in [Parts -> Nat]
  /\ res \in [Reservations -> Row]
  /\ nextId \in Nat \ {0}
  /\ jobStatus \in [Jobs -> JobStatus]
  /\ req \in [Requests -> Request]

(***************************************************************************)
(* The store is never oversold: what is set aside never exceeds what is on *)
(* the shelf, whatever is read stale, confirmed twice or released twice.   *)
(* This is what "reserve() should already guarantee quantityReserved never *)
(* exceeds quantityOnHand" (inventory.service.ts:511) relies on.           *)
(***************************************************************************)
StockNeverOversold == \A p \in Parts : quantityReserved[p] <= onHand[p]

(***************************************************************************)
(* No interleaving sets aside, or books as returned, more than was asked   *)
(* for, although a row's quantities may come from different requests'      *)
(* saves (see SaveRows).                                                   *)
(***************************************************************************)
Within(row) == row.reserved <= row.requested /\ row.returned <= row.requested

RowsWithinRequest == \A r \in Reservations : Within(res[r])

(***************************************************************************)
(* What a request in flight remembers, however old, is still right where   *)
(* it matters: its entities are rows that exist, of the part and for the   *)
(* quantity it read, and the return it is about to book is within that.    *)
(***************************************************************************)
Remembers(x) ==
  /\ \A r \in Reservations : Within(x.copy[r])
  /\ \A r \in x.seen : /\ r < nextId
                       /\ x.copy[r].part = res[r].part
                       /\ x.copy[r].requested = res[r].requested
  /\ x.op = "confirm" => x.at \in x.seen /\ x.qty <= x.copy[x.at].requested

MemoryConsistent == \A q \in Requests : Remembers(req[q])

\* Rows are inserted in order.
FreshRows == \A r \in Reservations : r >= nextId => res[r] = NoRow

\* The inductive invariant behind the above.
IInv == TypeOK /\ StockNeverOversold /\ RowsWithinRequest /\ MemoryConsistent /\ FreshRows

(***************************************************************************)
(* No unit ever vanishes from the books of a part, and the only ones that  *)
(* appear, other than by a goods receipt, come back on some reservation    *)
(* for it and are at most what that one asked for; QC approval only moves  *)
(* units from MAIN_STORE to DAMAGE_LOCATION ("the numbers always balance", *)
(* inventory-stock.entity.ts:20).                                          *)
(***************************************************************************)
Units(p) == onHand[p] + damage[p]

MovesAreExplained ==
  [][\A p \in Parts :
       Units(p)' # Units(p) =>
         \/ Units(p)' - Units(p) = received'[p] - received[p]
         \/ \E r \in Reservations :
              /\ res[r].part = p
              /\ Units(p)' - Units(p) \in 1..res[r].requested]_vars

(***************************************************************************)
(* The store as its callers may think of it.                               *)
(***************************************************************************)
Ledger == INSTANCE StockLedger

LedgerSpec == Ledger!Spec

-----------------------------------------------------------------------------
(***************************************************************************)
(* Properties of the bookkeeping when requests do not overlap (Requests    *)
(* has one member): they need every read to be current at the commit.      *)
(***************************************************************************)

RowsOf(p, statuses) == {r \in Reservations : res[r].part = p /\ res[r].status \in statuses}

\* Units the table says are set aside or on their way back.
Custody(p, statuses) == ReservedSum(res, RowsOf(p, statuses))

(***************************************************************************)
(* quantityReserved never overstates: each unit it withholds from the next *)
(* job is accounted for by a row that is held or on its way back.          *)
(***************************************************************************)
NothingWithheld ==
  \A p \in Parts : quantityReserved[p] <= Custody(p, Active \cup {"RETURN_PENDING"})

(***************************************************************************)
(* DAMAGE_LOCATION holds exactly what CONSUMED reservations say was used,  *)
(* and MAIN_STORE what was received, less that, plus what was returned.    *)
(***************************************************************************)
BooksMatchReservations ==
  \A p \in Parts :
    /\ damage[p] = Custody(p, {"CONSUMED"})
    /\ Units(p) = received[p] + SumFunctionOnSet([r \in Reservations |-> res[r].returned],
                                                 RowsOf(p, {"RETURNED"}))

(***************************************************************************)
(* A job card that passed QC has no open reservation left: nothing stays   *)
(* held for it, nothing awaits review (the orphaned Need Spare fix).       *)
(***************************************************************************)
PassedJobsAreSettled ==
  \A r \in Reservations :
    jobStatus[res[r].job] = "QC_PASSED" => res[r].status \notin Active \cup {"PENDING_REVIEW"}

(***************************************************************************)
(* A reservation row tells one story about its quantities: nothing is set  *)
(* aside for a request that was never approved, HELD means all that was    *)
(* asked for, only a RETURNED row has units returned, at most as many as   *)
(* were set aside.                                                         *)
(***************************************************************************)
RowsTellOneStory ==
  \A r \in Reservations :
    LET row == res[r] IN
    /\ row.status \in {"NONE", "PENDING_REVIEW", "REJECTED"} => row.reserved = 0
    /\ row.status = "HELD" => row.reserved = row.requested
    /\ row.status = "PARTIALLY_RESERVED" => row.reserved < row.requested
    /\ row.status # "RETURNED" => row.returned = 0
    /\ row.returned <= row.reserved

(***************************************************************************)
(* A job card waits for parts (SPARE_PENDING, the state completeWorkshop   *)
(* refuses) only after some request of its own came back short.            *)
(***************************************************************************)
WaitingIsForParts ==
  \A j \in Jobs :
    jobStatus[j] = "SPARE_PENDING" =>
      \E r \in Reservations : res[r].job = j /\ res[r].reserved < res[r].requested

\* RETURNED, CONSUMED and REJECTED are terminal (inventory-reservation.entity.ts:30,33,40).
TerminalIsFinal ==
  [][\A r \in Reservations : res[r].status \in Terminal => res'[r] = res[r]]_vars

(***************************************************************************)
(* What the source says and the code does not do (see README).             *)
(***************************************************************************)

(***************************************************************************)
(* quantityReserved is the "running total of everything currently          *)
(* HELD/PARTIALLY_RESERVED" (inventory-stock.entity.ts:44): at least that  *)
(* much is withheld from other jobs.                                       *)
(***************************************************************************)
HeldIsWithheld == \A p \in Parts : quantityReserved[p] >= Custody(p, Active)
=============================================================================
