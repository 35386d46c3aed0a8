# Jacky's service portal: formal models

TLA+ models of the service portal: its back end (`src/src`, a NestJS
application on PostgreSQL), the mobile app's offline queue (`src/mobile`) and
the scheduling pages of the web frontend (`src/frontend`); their TLC
configurations, and TLAPS proofs about them. Paths below are relative to `src/src` unless they start with `src/`.

## 1. The system

A customer's appliance comes in through an *appointment*; a *job card* carries
it through serial-number and warranty checks, an *estimate* if the repair is out
of warranty (OOW), repair on the bench or on site with *spare parts* from a
store, quality control (QC), *invoice* and *payment*, and *delivery*. Every
operation is an HTTP handler. Handlers run concurrently: Node interleaves them
at each `await`, and PostgreSQL runs their statements at READ COMMITTED. Only
some open a transaction, and only some of those take an advisory lock; the
others read a row, check it, change the entity in memory, and `save()` it.
That is where the hard behaviour of this code is.

| component | state | operations that change it | what makes it correct |
|---|---|---|---|
| Spare-part store (`inventory`) | stock rows per part and location (on hand, reserved), reservation rows | grn, reserve, requestNeedSpare, reviewNeedSpareRequest, review, requestReturn, confirmReturn, markPhysicallyReturned, confirmAllReturnsForJobCard, releaseReservation, cancelReservationsForJobCard, consumeReservationsOnQcApproval | no part promised twice; the stock rows agree with the reservation rows; a finished row stays finished; a passed job holds nothing |
| Job cards (`job-cards`) | status, warranty, customerApproved, section, deliveryId, task pauses | validateSn, assignSection, approveCustomer, warrantyOverride, setToRwr, reviveFromRwr, startWork, set/resumeFromSparePending, completeWorkshop, qcReject, cancel, pauseTask, resumeTask | work starts only on agreed terms; the status reflects what happened to parts, estimate and delivery; one open pause |
| Estimates (`estimates`) | estimates of a card: DRAFT, SENT, APPROVED, REJECTED, EXPIRED | create, send, public view (expires), respondViaLink, recordResponse, revise | one active estimate; an answer counts once; a rejection is not a dead end |
| Workshop, technician, intake (`workshop`, `technician`, `workshop-intake`) | technician visits, intakes, crew helpers, task pauses | assign, reassign, helpers, requestSpare, start/complete, visit and intake captures, on-site Need Spare and completion | job card, appointment, parts and pauses agree although each is saved by itself |
| Invoicing (`invoicing`, `gl-ledger`) | invoices, payments, postings | getOrCreateForJobCard, regenerateDraftInvoice, recordPayment, postInvoicePayment | PAID means paid; the ledger agrees with the payments |
| Delivery (`delivery`) | deliveries, JobCard.deliveryId | create, dispatch, capturePod, cancel | nothing unpaid handed back; a card in one delivery |
| Mobile offline queue (`src/mobile/src/lib/offlineQueue.ts`) | the queue in AsyncStorage, one replay at a time | enqueue, dismiss, retry, processQueue; reconnect, launch, kill | nothing queued is lost; the newest action of a kind wins; a replay ends |
| Debit notes, warranty claims, dismantling | a document each, with its status; claim lines; MAIN_STORE stock | create/aggregate, post/submit/verify/priceAndPost, cancel | each document takes effect once and is posted at most once; no part in two claims |
| AMC contracts (`amc`) | contracts, their visits, billing invoices | create, renew, cancel, remind, completeVisit, bill, pay | a renewed contract has a successor; a visit ends with its record |
| Appointments (`appointments`, `technician-schedule`) | appointments, activities and their pauses | book, assign, edit, confirm, mark, start/pause/finish, complete, cancel, reorder | a visit, its card and its record agree; one running activity per technician; an activity is not finished and paused; capacity; no clash |
| Authentication, permissions, master data | users, roles, price lists, parts | CRUD | outside these models |
| Reports, dashboard, portal, journey, notifications, other screens | none | reads, stub sends | outside these models |

How they interact: the workshop and the technician endpoints call the store and
then the job-card service; the job-card controller's cancel calls the store
after the job card has been saved; the QC approval is a store operation that
also sets the card's status; the estimate service calls `approveCustomer`,
`setToRwr` and `reviveFromRwr` after saving an estimate; delivery asks invoicing
whether a card is payable and writes `deliveryId` and DELIVERED; invoicing
calls the ledger after saving; the warranty override and the customer's approval
can hit a card at any time before, during and after delivery. PROJECT.json lists the hazards with lines.

## 2. Modules

| module | what it is |
|---|---|
| `Inventory` | the store, the statuses of job cards that depend on it, and the requests in flight |
| `StockLedger` | the promise of the store to its callers: what may happen to a part's stock row |
| `InventoryProofs` | theorems about `Inventory`: first under any overlap, among them that it implements `StockLedger`, then when requests do not overlap, with lemmas about sums over finite sets |
| `Estimates` | one job card's gates and its estimates |
| `Handover` | job cards that passed QC: invoices, payments, postings, deliveries, overrides, approvals |
| `HandoverProofs` | theorems about `Handover` |
| `Outbox` | what the phone promises: a queued action stays until it is accepted, replaced, or refused and discarded |
| `OfflineQueue` | the phone's queue, its replay, the link, the app's death; implements `Outbox` |
| `Visits` | an appointment from booking to end, with what hangs on it: visit, intake, activity, job card, contract |
| `Workshop` | one job between its section and QC: technician, helpers, pauses, custody of parts, the SLA report |
| `PostedOnce` | a document takes effect once and is posted at most once, afterwards |
| `Desk` | what the services below share: request slots, the general ledger |
| `DebitNotes`, `WarrantyClaims`, `Dismantling`, `AmcContracts` | one service each |
| `BackOffice` | the four composed over one ledger; implements `PostedOnce` |
| `Booking` | the checks of capacity and availability, the grid, the board, the saves |
| `EstimatesProofs`, `VisitsProofs`, `WorkshopProofs`, `BackOfficeProofs`, `BookingProofs`, `OfflineQueueProofs` | theorems about the module each is named for |
| `MC...` | instances for TLC, one for each module with a run |

### 2.1 A handler as a sequence of steps

All models of the back end except `Booking` have a variable `req`: for each slot of `Requests` (one slot in `Visits` and `Workshop`), the request
it runs (`op` is the handler and how far it is) and the handler's local memory.
A handler is one action per point where its effects become visible: typically a
`...Read`, with the checks of the handler on what it reads, and an action that
commits. `Abandon(q)` (or `Die`) ends a request between any two of its steps: the handler
throws, or the process dies. What it committed stays, its memory is gone.

`save(entity)` of TypeORM SELECTs the row and UPDATEs the columns in which the
entity differs. A column that the handler changed is written; a column it left
alone is *put back* to what the handler read earlier if another request changed
it before that SELECT, and kept if it changed it after.
* `Estimates` and `Handover` model the SELECT as a step of its own for job
  cards (`CardSelect`, `SelectCards`) and the UPDATE as another.
* `Inventory` has no separate step for it: `SaveRows` chooses, for each row and
  column that somebody changed since the handler read it, whether that change
  came after the SELECT and survives (`kept`) or is put back. (A save that finds
  the new value of a column already there skips that column; the model writes
  it, which differs only when a third request changes it in that instant.)

Writers of a MAIN_STORE row hold `pg_advisory_xact_lock(part)` from before they
read it until they commit, so that part of a transaction is one step. What they
read *before* the lock (the reservation row and its status) is a step before it.

### 2.2 Inventory

`onHand`, `quantityReserved` and `stocked` are the MAIN_STORE rows, `damage` the
DAMAGE_LOCATION's quantityOnHand, `res` the reservation table in the order of
`requestedAt`, `jobStatus` the job cards' statuses, `received` a history of the
goods receipts. `confirm` and `confirmEach` are the calls of `confirmReturn`
from its endpoint, from `markPhysicallyReturned` and from the loop of
`confirmAllReturnsForJobCard`. `QcApproveRead` .. `QcApprove` is
`consumeReservationsOnQcApproval` up to its part locks, and after them.

Left out: who may call (roles, custodians), the 48 hours before a reservation
counts as idle, and the rework sign-off of a spare request: the model lets
everybody call at any time, which only adds behaviour. Dismantling also adds
MAIN_STORE stock, under the same lock, like a goods receipt. The on-site card
starts at SECTION_ASSIGNED, the workshop card at IN_PROGRESS. Other handlers
that save a whole job card (section, technician, descriptive fields) may put an
old status back; they are not in this module.

### 2.3 Estimates

One job card with status, warranty and customerApproved; its estimates by
status. SECTION_ASSIGNED stands for it and every later status. `agreed` is a
history of what the customer said: set by an approval (through the link,
recorded by staff, or the manual approval) and cleared when the card becomes
OOW. A link may be found expired at any time (time is not modelled).
Staff may record an answer after the link expired, as `recordResponse` allows.

### 2.4 Handover

`card` holds status, whether it is OOW, and deliveryId; `invoice`, `paid` and
`posted` the invoice rows and the sums of their payments and postings. An
invoice is created lazily with an amount from `Amounts`; 0 is the gap in the
price list that the code's comments mention. Payments, regenerations and
dispatch take no lock: every repository call is a step. `create`, `capturePod`
and `cancel` hold their advisory locks from their read to their commit
(`SequenceFree`, `DeliveryFree`). `warrantyOverride` and `approveCustomer` take
none, ask nothing of a card at this stage, and save the whole card they read
(`OverrideRead`/`Override`, `ApproveRead`/`Approve`; the approval comes from its
endpoint, `POST :id/approve-customer`, or from an approved estimate,
`estimates.service.ts:210`). An approval changes none of the columns modelled, but
its save, like the override's, may put back a `deliveryId` that a delivery has
changed since: `restored` is the history of the cards on which this happened.
`MaxSaves` bounds the two together. Handlers that read a card before it passed QC and
save it afterwards are outside the model. The status
CANCELLED of an invoice is never set by the code and is not in the model.
Delivery identifiers are drawn when the transaction starts; one that fails
uses up an identifier and nothing else.

### 2.5 OfflineQueue and Outbox

`store` is what the list under the AsyncStorage key holds, as a set: the replay
sorts what it sends by `clientTimestamp` (`Oldest`), so the place of an item in
the list decides nothing. Every operation on it is a load and, later, a save (`EnqueueLoad`/`EnqueueSave` and so on), and the replay,
`processQueue`, loads once (`SyncLoad`), sends what was pending one by one
(`Deliver`, `Reply`) and saves the list it made of its copy (`SyncSave`).
`sync.phase # "idle"` is `syncingRef`. `online` is the link, `isOnline` what
the provider was last told (`NetInfoEvent`), `fetching` the first
`NetInfo.fetch()` after a launch. `NetworkError` ends a request with the
connection gone, before or after the server handled it (`Deliver` may have
happened), so the server may get it again. `Kill` ends the app anywhere; what
was not saved is lost, the store stays. An action is its kind, a type and an
appointment, and an identifier in the order of `clientTimestamp` (the phone's
clock is taken to run forward); the server accepts or refuses whatever it likes.

Left out: payloads; a request that reaches the server after the app has given it
up; the reconnect event that falls into a failing replay and is skipped because
`syncingRef` is still set (the model has it: the queue then waits for the next
trigger); actions sent directly while online, which bypass the queue and which an
older queued or failed action of the same kind may later overwrite.

Abstractly (`Outbox`) there is only the queue, with moves `Take`,
`Accept`, `Settle` (one replay's answers), `Retry` and `Discard`.

### 2.6 Visits and Workshop

`Visits` has a row per table and appointment: `apt` (status, type, job type,
technician), `visit` and `intake` (how far the diagnosis is), `activity` with
its pause, `card`, `completion`, and the status of one contract. A `plan` says
what the appointments of a behaviour are booked as, so that the instance has the
combinations that interact (two installations of one technician, a repair,
a contract's visit) and not their product. A handler that saves more than once
is split after each save (`StartVisit`/`StartVisitSave`,
`CreateCard`/`CompleteFromJobCardCreation`,
`CompleteOnSiteRepair`/`...Save`, `OverrideResume`/`OverrideFinish`, ...), and
`Die` may come between. An override of an activity closes its pause before it finishes
it, each by itself. The general edit, `Update`, writes what the request has, the
status included: `UpdateAppointmentDto` accepts one and `Object.assign` writes it over
any other, although the form of the web frontend sends none. `rewrites` counts the edits
that wrote another status, up to `MaxRewrites` for an appointment. An edit that
changes a status and other columns is two edits in the model, with nothing in between.
The invoice number is taken to be on file, and the pairing of type and job type is
checked as `validateActivityJobTypePairing` does.

`Workshop` has a clock `now`, `card`, `helpers`, `pauses` (rows in the order of
insertion), and `custody`, the custodians of the job's open reservations. What a
reservation takes off the shelf is `Inventory`'s subject; here it was filled or
fell short (`RequestSpare`), and the calls that follow (`SetSparePending`,
`AutoOpen...`, `ResumeFromSparePending`, `AutoClose...`) each commit by
themselves. `MaterialShortageExcluded` is the sum `getSlaBreach` computes, its loop written as a
recursive function over the rows.

### 2.7 The desks

A save of these services writes the entity that was read, so a request keeps the
`copy` it is about to save, and a behaviour is about one service (`subject`):
they share nothing but the ledger. `vendor` in `WarrantyClaims` is a history of
the lines each submitted claim had. A contract's visits are counted
(`scheduled` up to `VisitsDue`). EXPIRED contracts and CANCELLED bills are set by
no code and are not modelled.

### 2.8 Booking

Time is counted in the grid's 15-minute chips, so the 30 minutes of
`checkCapacity` are two chips and the 15 of `checkTechnicianAvailability` one.
Each of `Clerks` has at most one request: `Create`, `AssignTechnician`
and `Update` make the checks of the handler as one instant and
remember the entity it read; `Insert` and `Save` write. `assignTechnician` may come
without a time (`AssignOnly`, no form does it); then the slot is not counted
(`CountsSlot`). `Update` is the general edit: the board sends technician and time, the
edit form the other fields, and a request may write any of them, the status included.
`rewrites` counts the edits that wrote a status, up to `MaxRewrites`; `Leave` and `Reopen`
are the ways to and from the statuses in which an appointment takes no place. `picked` says that the
place was picked from a grid that showed the current bookings at the check and
that nobody saved until the save (`Outdated`): the board and an old grid may ask
for any place. `Save` treats columns as `Inventory` does (`kept`) and lets an
assignment bring a cancelled appointment back, as `save()` does. A cancelled or
completed appointment is no row (`None`), and its identifier may be used again;
CONFIRMED is treated like SCHEDULED. `BookedFor` bounds whom a new appointment may be
for, a technician or nobody yet. `Midnight` is where the dates without a time
of generated AMC visits fall.

## 3. What TLC checks

`CHECK_DEADLOCK FALSE` wherever a bound on rows, units, time or identifiers
stops the model where the system would go on; only `OfflineQueue` is checked
for deadlock, since its phone can always be launched or killed.

**Fairness.** The back end promises nowhere that something happens: no
scheduler, no retry, no timer; a request that dies is simply gone, and what
remains to be done is done by a person, or never. Its specifications state no
fairness. The phone does promise progress: once a replay or the second half of
a tap has begun, the JavaScript event loop runs it, and `NetInfo.fetch()`
resolves. `OfflineQueue` assumes weak fairness of those steps (`SyncStep`,
`TapSave`, `Fetched`), and nothing of the technician, the link, the
server's answers or the operating system; `ReplayFinishes` therefore ends with
"or the link is down, or the app is not running".

| run | instance | shows |
|---|---|---|
| `MCInventory_race` | 1 part, 1 on-site job, 2 requests, 2 rows, unit quantities | properties that survive every interleaving: `StockNeverOversold`, `RowsWithinRequest`, `MovesAreExplained`, and `LedgerSpec` (refinement of `StockLedger`) |
| `MCInventory_serial` | 2 parts, a workshop and an on-site job, 1 request, 2 rows, quantities 1 and 2 | properties of the bookkeeping: `NothingWithheld`, `BooksMatchReservations`, `PassedJobsAreSettled`, `RowsTellOneStory`, `WaitingIsForParts`, `TerminalIsFinal` |
| `MCEstimates_serial` | 1 request, 3 estimates | `OneActiveEstimate`, `RwrIsNoDeadEnd`, `WorkStartsAgreed`, `DecidedIsFinal` |
| `MCHandover_race` | 1 card, 2 overrides or approvals, 2 requests, 2 invoices, 2 deliveries | `PaidIsCovered`, `PostedIsPaid`, `HandoverCovered`, `NoDoubleClaim` |
| `MCOfflineQueue_serial` | 2 kinds, 3 actions, 1 tap or replay at a time | `OutboxSpec` (refinement of `Outbox`), `LastQueuedWins`, and `ReplayFinishes` under fairness |
| `MCVisits_serial` | a repair, a contract's visit or two installations; 2 technicians; 1 edit of the status for each visit; 1 request | `OneActivityAtATime`, `QcMeansVisitOver`, `NeverFinishedAndPaused`, `AmcVisitsAreRecorded` |
| `MCWorkshop_serial` | 1 job, 2 technicians, 3 pauses, clock to 4, 1 request | `ExcludedWithinElapsed`, `NobodyTwice`, `CustodyIsAssignee` |
| `MCBackOffice_serial` | 1 note, 2 claims on 2 parts, 1 dismantled unit with 3 staff, 3 contracts of 2 visits with one billing period; 1 request | `PostedOnceSpec` (refinement of `PostedOnce`), `ClaimedOnce`, `RenewedIsCarriedOn` |
| `MCBooking_race` | 2 clerks, 3 visits of 3 chips, a contract's visits, 1 edit of a status, 1 technician, 1 centre of capacity 1 | `RushIsBounded`, `PickedNeverClash` |

**Overlapping and not overlapping.** The `serial` runs have one request slot:
requests do not overlap, but each may die between its steps, so what they check
is that sequences of calls and crashes leave the data in agreement. Those
properties are not true of overlapping requests, because most handlers check a
row they have read without a lock. Where a line of the source promises more than
they do, section 4 says so. The `race` runs check what
the locks, the clamps and the checks do achieve with overlapping requests.

**Bounds.** With two slots every pair of handlers overlaps in every way; each
handler has one or two points where it can be overtaken, and a third request
that runs completely in between can use the slot that finished. Two rows are
one that is acted on and one that competes for the same part. In
`MCInventory_serial` one unit of each part is received, so a request for 2 comes
back short; since returns inflate the stock (section 4) and `MaxOnHand` leaves
room for that, a request for 2 that is fully met occurs as well, and so do QC
approvals that consume two parts, or a short reservation.
Three estimates are the first, its revision, and the revision's. Two invoices
are the first and the one regeneration drafts; amount 2 against payments of 1
and 2 gives part payments, full payments and overlapping ones that overpay; two
deliveries compete for a card or follow one another. Three queued actions of two
kinds are one that is replaced by a newer one while a third of another kind
waits; refusals, retries and kills need no more. Two overrides or approvals are
one that reads before a delivery is cancelled and a second beside it. In `Visits` only appointments
of one technician that both run a timer interact, hence two installations; a
repair and a contract's visit are alone with their rows. One edit of a status is
enough to exempt an appointment, and the other one beside it may stay unedited. Three pauses within
four ticks are a manual one and an automatic one before and after, with time
in and between them. Three contracts are an original, its renewal and the
renewal's repetition after a death (or the renewal's own renewal). Three staff
are needed for harvest, verify and price. Two clerks and three visits let two
overlapping requests meet a third visit that is already there, at times two
chips apart: near enough for every window and, with a length of three, to
overlap. There a new appointment has the one technician from the start
(`BookedFor`): one without is counted like the others and cannot clash, and it
would multiply the number of states. Where the proofs of
section 5 apply, the bounds do not matter.

Every property has a mutant: a plausible bug in one definition (named `Fault:`
next to it) under which TLC reports that property violated.

## 4. Where the source says one thing and does another

Each of these is a run of its own, with a short counterexample.

1. `MCInventory_release`, `HeldIsWithheld`. `quantityReserved` is the "running
   total of everything currently HELD/PARTIALLY_RESERVED"
   (`inventory-stock.entity.ts:44`). `releaseReservation` lowers it at once and
   leaves the row RETURN_PENDING; `confirmReturn` lowers it again. In between
   another job may have reserved the unit; it then holds a unit that is
   available to everybody.
2. `MCOfflineQueue_overlap`, `OfflineSyncIsHarmless`. "A sync attempted while
   genuinely offline is harmless" (`OfflineQueueContext.tsx:119`). A replay that
   fails saves the list it loaded when it began, over an action queued
   meanwhile. `syncingRef` keeps a second replay out, not a tap.
3. `MCBooking_board`, `NoDoubleBooking`. Field visits have "existing
   double-booking prevention" (`job-card-crew-helper.entity.ts:15`). The check
   finds only visits that *start* in the window; one that started earlier and
   still runs is missed. `PickedNeverClash` says when this does not matter:
   when both were picked from a current grid.

Also met while modelling, found by reading and not runs (the lines are those of
the source). The properties are stated so that they allow it, or are checked in a
run whose requests do not overlap:

* `reserve` does not deduct from `quantityOnHand`, `confirmReturn` adds to it
  (`inventory.service.ts:245`): every return inflates the books.
* A Need Spare approval that commits between the reads and the part locks of the
  QC approval leaves a HELD row on a passed job (`inventory.service.ts:418`, `:489`).
* Two overlapping answers to one estimate both pass the SENT guard and the second
  overwrites the first (`estimates.service.ts:181`, `:208`).
* "One open pause at a time" is called a hard invariant (`job-cards.service.ts:1115`):
  `pauseTask` looks for an open pause and inserts one, so two overlapping pauses leave
  two open. `Workshop` has one request at a time and keeps it.
* An override closes an open pause "so the record never ends up claiming to be both
  finished and paused" (`appointments.service.ts:1575`); a `pauseActivity` that made its
  check before the activity was finished inserts its pause afterwards. `Visits` has one
  request at a time.
* The general edit writes any status over any other (`appointments.service.ts:672`):
  COMPLETED and CANCELLED go back, and with them what other handlers rely on.
* "AMC PM visits are completed via POST /amc/visits/:appointmentId/complete, not this
  endpoint" (`appointments.service.ts:1657`), also for callers who use Swagger or curl
  (`:1653`). The general edit with the status COMPLETED completes one as well (`:672`),
  and `completeVisit` then refuses to record the visit.
* An appointment that is cancelled when its job card has just been created "shouldn't be
  reachable given cancel()'s own Job-Card-existence guard"
  (`appointments.service.ts:1693`). The guard keeps a cancellation from following a card;
  a card may follow the cancellation, since its creation asks for the diagnosis and not
  for the appointment's status (`job-cards.service.ts:422`). No property of `Visits` is
  about it.
* "A DRAFT can only be posted once" (`debit-notes.service.ts:186`): two overlapping posts
  of one draft both pass the check, and the ledger gets the note twice. `PostedOnceSpec`
  is about requests that do not overlap.
* A double click no longer bills a period twice (`amc.service.ts:416`): both requests look
  for a bill before either inserts one, and if the second draws its invoice number after
  the first has inserted, both succeed. No property is about it.
* An approval by the customer may put back a `deliveryId`: it reads a card of delivery 1,
  delivery 1 is cancelled, delivery 2 takes the card, and the save returns the card to
  delivery 1 (`job-cards.service.ts:820`). So may a warranty override (`:874`).
* A rejection leaves `customerApproved` as it was, so that after a revision the
  section can be assigned before the revision is sent (`job-cards.service.ts:893`).
* `recordPayment` that dies after the payment leaves an open invoice that is
  fully paid and that nothing can settle (`invoicing.service.ts:527`).
* `dispatch` takes no lock: a delivery can be cancelled after it was dispatched
  (`delivery.service.ts:302`).
* An AMC visit whose type was edited away is completed without a visit record,
  and `completeVisit` then refuses it (`appointments.service.ts:1655`).
* An automatic pause can still be open when the job is at READY_FOR_QC, which
  `operational-reports.service.ts:344` excludes; the report's bound makes up for it.
* An overlapping submit sends the lines a cancel of the same claim is deleting;
  they are then claimable again (`warranty-claims.service.ts:215`).

Some consequences shape the properties: `MovesAreExplained` allows a return to
add units; `NothingWithheld` bounds `quantityReserved` from above only (1);
`NoDoubleClaim` exempts cards whose `deliveryId` the save of an override or an approval
has put back; `OneActivityAtATime` and `QcMeansVisitOver` exempt appointments whose
status an edit wrote, `AmcVisitsAreRecorded` the edits that write COMPLETED; `HandoverCovered` speaks of the cards the
proof of delivery read as OOW, since an override may commit after that read;
`RushIsBounded` exempts visits that were placed without a count (a contract's,
an edit of the centre alone, an assignment without a time, an appointment that a save or
an edit of its status brought back), `PickedNeverClash` those not picked from a
current grid; `PostedOnce` promises a posting at most once, not at least once.

## 5. What is proved

Every invariant, every action property and every refinement of the passing runs
is also a theorem, for all constants that satisfy the ASSUMEs. Only the liveness
property, `ReplayFinishes`, is model-checked alone.

### 5.1 Assumptions

* The named ASSUMEs of the modules: bounds are natural numbers without an upper
  limit, identifiers of rows are the numbers up to a bound, and `None` is nobody
  and no contract. `DocumentsAssumption` (`Desk`) says that notes, claims and
  dismantling records are told apart, as the ledger's reference type does;
  `FiniteAssumption` (`Booking`) that clerks and bookings are finitely many, and
  `TapsAssumption` (`OfflineQueue`) that taps are, without which their
  `Cardinality` means nothing. TLC evaluates every one of them.
* `Serial`: requests do not overlap. It is the hypothesis of exactly the
  theorems about properties that a `serial` run checks. In `Inventory` and
  `Estimates` it says that there is at most one request slot, in `BackOffice` it
  is the constant that keeps a request from beginning while another is under way,
  in `OfflineQueue` the constant that keeps a tap from beginning while another
  tap or a replay is under way, and a replay from loading while a tap is.
  `Visits` and `Workshop` have only one slot, so their theorems need no such
  hypothesis. As section 3 says, the properties are false without it. A request
  may still die between any two of its steps: nearly all of the work in these
  proofs is about what such a death leaves behind.
* Everything else, `Serial` theorems excepted, holds for any number of
  overlapping requests with arbitrarily old reads.

### 5.2 Theorems and the invariants they need

| module | theorem | states | overlap |
|---|---|---|---|
| `InventoryProofs` | `TypeCorrect`, `NeverOversold`, `NeverBeyondRequest` | `TypeOK`, `StockNeverOversold`, `RowsWithinRequest` | any |
| | `BooksAreExplained`, `ImplementsLedger` | `MovesAreExplained`, `LedgerSpec` | any |
| | `PassedJobsSettled`, `OneStory`, `WaitsForParts`, `TerminalStays` | `PassedJobsAreSettled`, `RowsTellOneStory`, `WaitingIsForParts`, `TerminalIsFinal` | none |
| | `NothingIsWithheld`, `BooksMatch` | `NothingWithheld`, `BooksMatchReservations` | none |
| `EstimatesProofs` | `TypeCorrect` | `TypeOK` | any |
| | `OneActive`, `RwrCanBeRevised`, `StartsAgreed`, `OutcomesStay` | `OneActiveEstimate`, `RwrIsNoDeadEnd`, `WorkStartsAgreed`, `DecidedIsFinal` | none |
| `HandoverProofs` | `TypeCorrect`, `PaidMeansCovered`, `NoUnpaidHandover`, `LedgerNeverAhead`, `NeverASilentDoubleClaim` | `TypeOK`, `PaidIsCovered`, `HandoverCovered`, `PostedIsPaid`, `NoDoubleClaim` | any |
| `VisitsProofs` | `TypeCorrect`, `OneAtATime`, `QcAfterVisit`, `FinishedIsResumed`, `AmcRecorded` | `TypeOK`, `OneActivityAtATime`, `QcMeansVisitOver`, `NeverFinishedAndPaused`, `AmcVisitsAreRecorded` | none |
| `WorkshopProofs` | `TypeCorrect`, `OneRoleEach`, `PartsStayWithTechnician`, `ReportStaysWithinElapsed` | `TypeOK`, `NobodyTwice`, `CustodyIsAssignee`, `ExcludedWithinElapsed` | none |
| `BackOfficeProofs` | `TypeCorrect` | `TypeOK` | any |
| | `NoDoubleClaim`, `RenewalCarriesOn`, `ImplementsPostedOnce` | `ClaimedOnce`, `RenewedIsCarriedOn`, `PostedOnceSpec` | none |
| `OfflineQueueProofs` | `TypeCorrect` | `TypeOK` | any |
| | `ImplementsOutbox`, `NewestWins` | `OutboxSpec`, `LastQueuedWins` | none |
| `BookingProofs` | `GridPreventsClashes`, `RushStaysBounded` | `PickedNeverClash`, `RushIsBounded` | any |

**Inventory, any overlap.** The inductive invariant is `TypeOK`, the two bounds,
`MemoryConsistent` and `FreshRows`. `MemoryConsistent` is needed because a
handler writes what it remembers: a row's `reserved <= requested` survives a save
only if it holds of the entity, whose part and quantity are those of the row.
`FreshRows` keeps an insert from meeting a request that remembers the row it
creates. The QC approval subtracts a sum; the stock bound uses only that the sum
was found to be within the shelf and that the subtraction is clamped.
`ImplementsLedger` maps each action to a move of the ledger for each part.

**Inventory, no overlap.** `SerialInv` says that the request in flight remembers
the rows as they are (`Current`), so that a save writes what its handler computed
and nothing else, and that each row takes the steps of its life in order
(`Becomes`). The stock rows are compared with sums over the reservation table.
A transaction changes several rows at once, so the steps need that a sum
changes by what its summands change by (`SumWithout`, `SumChange`, `SumPlus`,
`SumRestrict`); these are proved from the unfolded definition of
`SumFunctionOnSet`.

**Estimates.** The service saves the estimate, then the card, then the card
again. The invariant says of each of these moments what the request is about to
write: an RWR card is saved only over a rejected estimate, an approved OOW card
only after the customer agreed to these terms.

**Handover.** `CardsOK /\ MoneyOK /\ MemoryOK`: the amount a payment request read
plus, once it is saved, its own payment is at most what is recorded for the
invoice, which makes the stale `Settled` safe; and each card an open proof of
delivery read as OOW has a covered invoice. That survives until the commit
because a PAID invoice is never removed and never changes its amount. For
`LedgerNeverAhead` (`PostedOrFlying`): payments minus postings of an invoice are
at least the sum of the amounts that requests in flight have paid and not yet
posted; the sum is not computed, it is enough that some additive function on sets
of requests has those values. For `NeverASilentDoubleClaim` (`ClaimInv`): between
its read and its commit a `create` holds cards of no delivery, a proof of
delivery or a cancellation cards of its own, because the advisory locks leave
nobody who could change that but the save of an override or an approval. Such a save
only ever puts back a `deliveryId` it read, and then the card is in `restored`.

**Visits, Workshop.** The status of an appointment, its activity, its card and
its record, together with what the tail of the handler under way is about to
save. What is said of the status is said of appointments whose status no edit wrote. An
activity is paused only while it is open, and the override that is about to finish one
has closed its pause (`PausedIsOpen`). In `Workshop`: whom a handover is about to install (`Promised`), that a job
only its section has seen has no crew and no parts (`Untouched`), and that pauses
take turns (`PausesInTurn`): only the last may be open, and none begins
before the one before it ended. From that follows the SLA report's bound: what
the first pauses add up to fits before the next one begins.

**The desks.** Either of a document's effect and its posting may be the last thing a request
does. So the invariant cannot say that the ledger equals the effects: it says
that the ledger is never ahead of them (`Books`) and what the one request under
way is still going to do about it (`Recalls`).

**Booking.** A request from a grid that no save has outdated finds its place
still clear (`PickInv`). For the capacity: each clerk counted before he wrote, so
the visits that are there and those the clerks are about to write are together
never more than the capacity and one for each clerk but one (`RushInv`).

**Offline queue.** `TypeInv` needs no `Serial`: whatever two operations overlap,
each saves a queue it computed from a queue (`IsQueue`), because the filter by kind in
`enqueueAction` and the new identifier work on any copy; `Room` counts the enqueues
under way, which all will take an identifier. For the rest (`SerialInv`), a tap under way holds the
queue as it is and names an action that failed (`TapFresh`). A replay holds a
copy, and `Copied` says how it came about: there are two disjoint sets of waiting
actions, those accepted and those refused so far, such that the copy is the store without the first and
with the second marked, and what is still to be sent is in neither. Each answer moves
one action into one of the sets (`AfterAccepted`, `AfterRefused`), a broken
connection moves none, and the final save is one `Settle` of these sets.
`LastQueuedWins` follows from `NothingOverwritten`: what is stored of a kind is
never older than what the server last wrote of it, because a newer action of the
kind removes the older from the store. The order in which the replay sends is not needed.

Each proof has one step per action. Arithmetic, sets and functions go to SMT,
first-order steps also to Zenon, temporal steps to PTL.

### 5.3 Induction

The library's induction theorems take an operator as a parameter, which the
provers cannot instantiate. Three proofs need induction all the same: over finite
sets (sums in the store), over the rows of a table (the SLA report), and for the
oldest action of a set, which exists (`OldestIn`). They
take it as a least counterexample: the set of subsets, or of numbers, for which
the statement fails has a minimal member by `WFMin` and the well-foundedness of
the strict subset ordering or of `<` (`SmallestBad`, `LeastNat`). The same argument shows
that the recursive functions have a value at all (`AddsExists`, `AddsUpExists`).

**Refinements.** `Inventory` implements `StockLedger` (proved, any overlap);
`BackOffice` implements `PostedOnce` and `OfflineQueue` implements `Outbox` (proved,
no overlap).

**Only model-checked:** `ReplayFinishes`, because liveness under fairness is out
of the prover's reach. The `violation` runs are counterexamples and need no
proof.

## 6. Not modelled, and what could follow

Not part of the models, and why:

* Who may call what (authentication, roles, ownership checks of handlers): the
  models let every caller call, which only adds behaviours.
* Formatted numbers and their max-plus-one generation: a unique index makes the
  loser of a race fail. Prices, VAT, wording, audit logs: no status depends on them.
* Master data: independent rows with one save each.
* Reports other than `getSlaBreach`, the dashboard, the portal, the journey: they
  read rows the models keep and write none. Notifications are stub channels whose
  failure their callers swallow.
* The screens other than the appointment screen, the offline banner, the scheduling grid,
  the schedule form and the assignment board: forms and lists over the API
  without state that outlives a request. They are the larger part of the
  source by lines.
* `reorderTechnicianSchedule` (a display order, its rows written in parallel),
  `setWorkshopCapacity` (display only), the record-keeping spare lines of an
  activity's job card.
* The connection pool behind the possible deadlock of `DeliveryService.create`: its size and
  timeout are configuration outside the source.

What could follow: theorems under hypotheses weaker than `Serial`. It may be
enough for several of them that requests about the same job, card or document do
not overlap.
