--------------------------- MODULE InventoryProofs ---------------------------
(***************************************************************************)
(* Proofs about Inventory for every set of parts, jobs and requests and    *)
(* every bound.                                                            *)
(*                                                                         *)
(* The first part holds however requests overlap: the store is never       *)
(* oversold, no row is reserved or returned beyond its request, units      *)
(* never vanish, and the store implements the ledger StockLedger.  The     *)
(* argument rests on three facts.  A transaction holds its part's lock     *)
(* while it computes with the stock row, so stock arithmetic never uses an *)
(* old value.  A stale entity still agrees with its row on what was        *)
(* requested, so mixing their columns keeps the row within its request.    *)
(* QC approval checks what it is about to consume against the shelf after  *)
(* it has the lock.                                                        *)
(*                                                                         *)
(* The second part is about requests that do not overlap (Serial: at most  *)
(* one slot for requests): the bookkeeping that a read which is stale at   *)
(* the commit breaks.  Alone in the system, a request in flight remembers  *)
(* the rows as they are (Current), so every save writes what its handler   *)
(* computed and nothing else (SaveRowsCurrent), and each row takes the     *)
(* steps of its life in order (Becomes).  A handler may still fail between *)
(* two transactions.                                                       *)
(*                                                                         *)
(* The stock figures are compared with sums over the table.  Those sums    *)
(* are SumFunctionOnSet of the community modules, about which the second   *)
(* part first proves what is needed; a sum over a finite set is reasoned   *)
(* about by a smallest subset for which a statement would fail.            *)
(***************************************************************************)
EXTENDS Inventory, FiniteSetTheorems, TLAPS

-----------------------------------------------------------------------------
(* Arithmetic of the helpers. *)

LEMMA MinusFacts ==
  ASSUME NEW m \in Nat, NEW n \in Nat
  PROVE  /\ Minus(m, n) \in Nat
         /\ Minus(m, n) <= m
         /\ n <= m => Minus(m, n) = m - n
BY DEF Minus

LEMMA AtMostFacts ==
  ASSUME NEW m \in Nat, NEW n \in Nat
  PROVE  /\ AtMost(m, n) \in Nat
         /\ AtMost(m, n) <= m
         /\ AtMost(m, n) <= n
BY DEF AtMost

LEMMA AvailableFacts ==
  ASSUME TypeOK, StockNeverOversold, NEW p \in Parts
  PROVE  /\ Available(p) \in Nat
         /\ quantityReserved[p] + Available(p) = onHand[p]
BY DEF Available, Minus, TypeOK, StockNeverOversold

-----------------------------------------------------------------------------
(* The null values. *)

LEMMA NoRowFacts == NoRow \in Row /\ Within(NoRow) /\ NoRow.status = "NONE"
<1>1. AnyPart \in Parts
  BY PartsAssumption DEF AnyPart
<1>2. AnyJob \in Jobs
  BY JobsAssumption DEF AnyJob
<1>. QED
  BY <1>1, <1>2 DEF NoRow, Row, Status, Within

LEMMA NoRequestFacts == NoRequest \in Request /\ Remembers(NoRequest)
<1>1. AnyJob \in Jobs
  BY JobsAssumption DEF AnyJob
<1>2. NoCopy \in [Reservations -> Row]
  BY NoRowFacts DEF NoCopy
<1>3. NoRequest \in Request
  BY <1>1, <1>2 DEF NoRequest, Request, Ops
<1>4. Remembers(NoRequest)
  BY NoRowFacts DEF Remembers, NoRequest, NoCopy
<1>. QED
  BY <1>3, <1>4

-----------------------------------------------------------------------------
(* The parts of the invariant. *)

StockOK == /\ stocked \subseteq Parts
           /\ onHand \in [Parts -> Nat]
           /\ quantityReserved \in [Parts -> Nat]
           /\ damage \in [Parts -> Nat]
           /\ received \in [Parts -> Nat]
           /\ StockNeverOversold

TableOK == /\ res \in [Reservations -> Row]
           /\ nextId \in Nat \ {0}
           /\ RowsWithinRequest
           /\ FreshRows

MemoryOK == req \in [Requests -> Request] /\ MemoryConsistent

JobsOK == jobStatus \in [Jobs -> JobStatus]

\* What requests remember of existing rows is not changed.
SameRows ==
  /\ nextId' >= nextId
  /\ \A r \in Reservations :
       r < nextId => /\ res'[r].part = res[r].part
                     /\ res'[r].requested = res[r].requested

LEMMA IInvParts == IInv <=> StockOK /\ TableOK /\ JobsOK /\ MemoryOK
BY DEF IInv, TypeOK, StockOK, TableOK, JobsOK, MemoryOK

LEMMA IInvPrime == StockOK' /\ TableOK' /\ JobsOK' /\ MemoryOK' => IInv'
BY DEF IInv, TypeOK, StockOK, TableOK, JobsOK, MemoryOK

LEMMA StockSame == StockOK /\ UNCHANGED stockVars => StockOK'
BY DEF StockOK, stockVars, StockNeverOversold

LEMMA TableSame == TableOK /\ UNCHANGED tableVars => TableOK' /\ SameRows
BY DEF TableOK, tableVars, RowsWithinRequest, FreshRows, SameRows

-----------------------------------------------------------------------------
(* Steps that only move a request along. *)

LEMMA StillRemembers ==
  ASSUME IInv, SameRows, nextId' \in Nat, NEW x \in Request, Remembers(x)
  PROVE  Remembers(x)'
<1>1. \A r \in x.seen : r \in Reservations /\ r \in Nat
  BY BoundsAssumption DEF Request, Reservations
<1>2. nextId \in Nat
  BY DEF IInv, TypeOK
<1>. QED
  BY <1>1, <1>2 DEF Remembers, SameRows

LEMMA SetRequest ==
  ASSUME IInv, SameRows, nextId' \in Nat, NEW q \in Requests, NEW x \in Request,
         Remembers(x)', req' = [req EXCEPT ![q] = x]
  PROVE  MemoryOK'
<1>1. \A s \in Requests : req[s] \in Request /\ Remembers(req[s])
  BY DEF IInv, TypeOK, MemoryConsistent
<1>2. \A s \in Requests : Remembers(req[s])'  \/ s = q
  <2>. SUFFICES ASSUME NEW s \in Requests, s # q PROVE Remembers(req[s])'
    OBVIOUS
  <2>1. Remembers(req[s]) /\ req[s] \in Request /\ req'[s] = req[s]
    BY <1>1 DEF IInv, TypeOK
  <2>. QED
    BY <2>1, BoundsAssumption DEF Remembers, SameRows, IInv, TypeOK, Request, Reservations
<1>3. req' \in [Requests -> Request] /\ req'[q] = x
  BY DEF IInv, TypeOK
<1>4. ASSUME NEW s \in Requests PROVE Remembers(req[s])'
  BY <1>2, <1>3 DEF Remembers
<1>. QED
  BY <1>3, <1>4 DEF MemoryOK, MemoryConsistent

LEMMA FinishOK ==
  ASSUME IInv, SameRows, nextId' \in Nat, NEW q \in Requests, Finish(q)
  PROVE  MemoryOK'
BY SetRequest, StillRemembers, NoRequestFacts DEF Finish

LEMMA AdvanceOK ==
  ASSUME IInv, SameRows, nextId' \in Nat, NEW q \in Requests, NEW op \in Ops,
         op # "confirm", req' = [req EXCEPT ![q] = [req[q] EXCEPT !.op = op]]
  PROVE  MemoryOK'
<1>. DEFINE next == [req[q] EXCEPT !.op = op]
<1>1. req[q] \in Request /\ Remembers(req[q])
  BY DEF IInv, TypeOK, MemoryConsistent
<1>2. next \in Request /\ Remembers(next)
  BY <1>1 DEF Request, Remembers
<1>. QED
  BY <1>2, StillRemembers, SetRequest

LEMMA LoadOK ==
  ASSUME IInv, NEW q \in Requests, NEW op \in Ops, NEW j \in Jobs,
         NEW S \in SUBSET Reservations,
         op # "confirm",
         \A r \in S : res[r].status # "NONE",
         UNCHANGED tableVars,
         Load(q, op, j, S)
  PROVE  MemoryOK'
<1>. DEFINE c == [r \in Reservations |-> IF r \in S THEN res[r] ELSE NoRow]
            x == [op |-> op, job |-> j, seen |-> S, at |-> 0, qty |-> 0, copy |-> c]
<1>1. c \in [Reservations -> Row] /\ \A r \in Reservations : Within(c[r])
  BY NoRowFacts DEF IInv, TypeOK, RowsWithinRequest
<1>2. \A r \in S : r < nextId
  BY NoRowFacts, BoundsAssumption DEF IInv, TypeOK, FreshRows, Reservations
<1>3. x \in Request
  BY <1>1 DEF Request
<1>4. Remembers(x)
  BY <1>1, <1>2 DEF Remembers
<1>5. SameRows /\ nextId' \in Nat
  BY TableSame, IInvParts DEF TableOK
<1>. QED
  BY <1>3, <1>4, <1>5, StillRemembers, SetRequest DEF Load

LEMMA ReadRowOK ==
  ASSUME IInv, NEW q \in Requests, NEW op \in Ops, NEW r \in Reservations,
         NEW allowed, op # "confirm", "NONE" \notin allowed,
         ReadRow(q, op, r, allowed)
  PROVE  IInv'
<1>1. res[r].job \in Jobs
  BY DEF IInv, TypeOK, Row
<1>2. MemoryOK'
  <2>1. {r} \in SUBSET Reservations /\ \A t \in {r} : res[t].status # "NONE"
    BY DEF ReadRow
  <2>. QED
    BY <1>1, <2>1, LoadOK DEF ReadRow
<1>. QED
  BY <1>2, StockSame, TableSame, IInvParts, IInvPrime DEF ReadRow, JobsOK

LEMMA ReadJobOK ==
  ASSUME IInv, NEW q \in Requests, NEW op \in Ops, NEW j \in Jobs, NEW allowed,
         op # "confirm", ReadJob(q, op, j, allowed)
  PROVE  IInv'
<1>1. MemoryOK'
  BY LoadOK DEF ReadJob
<1>. QED
  BY <1>1, StockSame, TableSame, IInvParts, IInvPrime DEF ReadJob, JobsOK

LEMMA RereadJobOK ==
  ASSUME IInv, NEW q \in Requests, NEW op, NEW next \in Ops, NEW allowed,
         next # "confirm", RereadJob(q, op, next, allowed)
  PROVE  IInv'
<1>1. SameRows /\ nextId' \in Nat
  BY TableSame, IInvParts DEF RereadJob, TableOK
<1>2. MemoryOK'
  BY <1>1, AdvanceOK DEF RereadJob
<1>. QED
  BY <1>2, StockSame, TableSame, IInvParts, IInvPrime DEF RereadJob, JobsOK

LEMMA SaveJobOK ==
  ASSUME IInv, NEW q \in Requests, NEW op \in Ops, NEW s \in JobStatus,
         SaveJob(q, op, s), MemoryOK'
  PROVE  IInv'
BY StockSame, TableSame, IInvParts, IInvPrime DEF SaveJob, JobsOK

-----------------------------------------------------------------------------
(* Steps that write reservation rows. *)

\* Saving an entity that agrees with its row on what was requested.
LEMMA MergeFacts ==
  ASSUME NEW cur \in Row, NEW old \in Row, NEW new \in Row, NEW kept,
         Within(cur), Within(new), new.requested = cur.requested
  PROVE  /\ Merge(cur, old, new, kept) \in Row
         /\ Within(Merge(cur, old, new, kept))
         /\ Merge(cur, old, new, kept).part = cur.part
         /\ Merge(cur, old, new, kept).requested = cur.requested
BY DEF Merge, Row, Within

\* What a request knows of an entity it has loaded.
LEMMA CopyFacts ==
  ASSUME IInv, NEW q \in Requests, NEW r \in req[q].seen
  PROVE  /\ r \in Reservations /\ r \in Nat
         /\ req[q].copy[r] \in Row
         /\ Within(req[q].copy[r])
         /\ r < nextId
         /\ req[q].copy[r].part = res[r].part
         /\ req[q].copy[r].requested = res[r].requested
<1>1. req[q] \in Request
  BY DEF IInv, TypeOK
<1>2. Remembers(req[q])
  BY DEF IInv, MemoryConsistent
<1>3. r \in Reservations /\ r \in Nat /\ req[q].copy[r] \in Row
  BY <1>1, BoundsAssumption DEF Request, Reservations
<1>. QED
  BY <1>2, <1>3 DEF Remembers

\* A write of the table that touches existing rows only, and not their identity.
LEMMA TableWriteOK ==
  ASSUME IInv, UNCHANGED nextId,
         res' \in [Reservations -> Row],
         \A r \in Reservations :
           \/ res'[r] = res[r]
           \/ /\ r < nextId /\ Within(res'[r])
              /\ res'[r].part = res[r].part /\ res'[r].requested = res[r].requested
  PROVE  TableOK' /\ SameRows
<1>1. nextId \in Nat \ {0} /\ \A r \in Reservations : r \in Nat
  BY BoundsAssumption DEF IInv, TypeOK, Reservations
<1>. QED
  BY <1>1 DEF IInv, TypeOK, TableOK, SameRows, RowsWithinRequest, FreshRows

LEMMA SaveRowsOK ==
  ASSUME IInv, NEW q \in Requests, NEW rows, NEW S \in SUBSET req[q].seen,
         \A r \in S : /\ rows[r] \in Row /\ Within(rows[r])
                      /\ rows[r].requested = req[q].copy[r].requested,
         SaveRows(q, rows, S), UNCHANGED nextId
  PROVE  TableOK' /\ SameRows
<1>1. PICK kept : res' = [r \in Reservations |->
                            IF r \in S THEN Merge(res[r], req[q].copy[r], rows[r], KeptOf(kept, r))
                                       ELSE res[r]]
  BY DEF SaveRows
<1>2. ASSUME NEW r \in Reservations
      PROVE  /\ res'[r] \in Row
             /\ \/ res'[r] = res[r]
                \/ /\ r < nextId /\ Within(res'[r])
                   /\ res'[r].part = res[r].part /\ res'[r].requested = res[r].requested
  <2>1. res[r] \in Row /\ Within(res[r])
    BY DEF IInv, TypeOK, RowsWithinRequest
  <2>2. CASE r \in S
    <3>1. /\ req[q].copy[r] \in Row /\ r < nextId
          /\ rows[r].requested = res[r].requested
      BY <2>2, CopyFacts
    <3>. QED
      BY <1>1, <2>1, <2>2, <3>1, MergeFacts
  <2>3. CASE r \notin S
    BY <1>1, <2>1, <2>3
  <2>. QED
    BY <2>2, <2>3
<1>3. res' \in [Reservations -> Row]
  BY <1>1, <1>2
<1>. QED
  BY <1>2, <1>3, TableWriteOK

\* The same for one row, with its new value.
LEMMA SaveRowOK ==
  ASSUME IInv, NEW q \in Requests, NEW r \in req[q].seen, NEW new \in Row,
         Within(new), new.requested = req[q].copy[r].requested,
         SaveRows(q, [req[q].copy EXCEPT ![r] = new], {r}), UNCHANGED nextId
  PROVE  TableOK' /\ SameRows
<1>1. req[q].copy \in [Reservations -> Row] /\ r \in Reservations
  BY DEF IInv, TypeOK, Request
<1>. DEFINE rows == [req[q].copy EXCEPT ![r] = new]
<1>2. rows[r] = new
  BY <1>1
<1>3. {r} \in SUBSET req[q].seen
  OBVIOUS
<1>4. SaveRows(q, rows, {r})
  OBVIOUS
<1>. HIDE DEF rows
<1>. QED
  BY <1>2, <1>3, <1>4, SaveRowsOK

LEMMA InsertRowOK ==
  ASSUME IInv, NEW row \in Row, Within(row), InsertRow(row)
  PROVE  TableOK' /\ SameRows
<1>1. nextId \in Nat \ {0} /\ \A r \in Reservations : r \in Nat
  BY BoundsAssumption DEF IInv, TypeOK, Reservations
<1>. QED
  BY <1>1 DEF IInv, TypeOK, TableOK, SameRows, InsertRow, RowsWithinRequest, FreshRows

LEMMA WithStatusFacts ==
  ASSUME IInv, NEW q \in Requests, NEW s \in Status
  PROVE  /\ req[q] \in Request
         /\ WithStatus(q, s) \in [Reservations -> Row]
         /\ \A r \in Reservations :
              /\ Within(WithStatus(q, s)[r])
              /\ WithStatus(q, s)[r].part = req[q].copy[r].part
              /\ WithStatus(q, s)[r].requested = req[q].copy[r].requested
<1>1. req[q] \in Request /\ Remembers(req[q])
  BY DEF IInv, TypeOK, MemoryConsistent
<1>2. req[q].copy \in [Reservations -> Row] /\ \A r \in Reservations : Within(req[q].copy[r])
  BY <1>1 DEF Request, Remembers
<1>3. ASSUME NEW r \in Reservations
      PROVE  /\ WithStatus(q, s)[r] \in Row
             /\ Within(WithStatus(q, s)[r])
             /\ WithStatus(q, s)[r].part = req[q].copy[r].part
             /\ WithStatus(q, s)[r].requested = req[q].copy[r].requested
  BY <1>2 DEF WithStatus, Row, Within
<1>. QED
  BY <1>1, <1>3 DEF WithStatus

LEMMA SaveStatusOK ==
  ASSUME IInv, NEW q \in Requests, NEW s \in Status, NEW op \in Ops, SaveStatus(q, op, s)
  PROVE  IInv'
<1>1. TableOK' /\ SameRows
  BY WithStatusFacts, SaveRowsOK DEF SaveStatus, Request
<1>2. MemoryOK'
  BY <1>1, FinishOK DEF SaveStatus, TableOK
<1>. QED
  BY <1>1, <1>2, StockSame, IInvParts, IInvPrime DEF SaveStatus, JobsOK

-----------------------------------------------------------------------------
(* The handlers that move stock, one lemma each. *)

LEMMA GrnOK ==
  ASSUME IInv, NEW p \in Parts, NEW n \in Quantities, Grn(p, n)
  PROVE  IInv'
<1>1. n \in Nat
  BY QuantitiesAssumption
<1>2. StockOK'
  BY <1>1, IInvParts DEF Grn, StockOK, StockNeverOversold
<1>3. TableOK' /\ SameRows
  BY TableSame, IInvParts DEF Grn
<1>4. MemoryOK'
  BY DEF Grn, IInv, TypeOK, MemoryOK, MemoryConsistent, Remembers, tableVars
<1>. QED
  BY <1>2, <1>3, <1>4, IInvParts, IInvPrime DEF Grn, JobsOK

\* Setting min(n, available) aside keeps the store from being oversold.
LEMMA SetAsideOK ==
  ASSUME IInv, NEW p \in Parts, NEW n \in Nat,
         quantityReserved' = [quantityReserved EXCEPT ![p] = @ + AtMost(n, Available(p))],
         UNCHANGED <<stocked, onHand, damage, received>>
  PROVE  StockOK'
<1>1. /\ AtMost(n, Available(p)) \in Nat
      /\ AtMost(n, Available(p)) <= Available(p)
  BY AvailableFacts, AtMostFacts DEF IInv
<1>2. quantityReserved[p] + Available(p) = onHand[p] /\ Available(p) \in Nat
  BY AvailableFacts DEF IInv
<1>3. StockOK
  BY IInvParts
<1>4. quantityReserved' \in [Parts -> Nat]
  BY <1>1, <1>3 DEF StockOK
<1>5. ASSUME NEW k \in Parts PROVE quantityReserved'[k] <= onHand'[k]
  <2>1. CASE k = p
    BY <1>1, <1>2, <1>3, <2>1 DEF StockOK
  <2>2. CASE k # p
    BY <1>3, <2>2 DEF StockOK, StockNeverOversold
  <2>. QED
    BY <2>1, <2>2
<1>. QED
  BY <1>3, <1>4, <1>5 DEF StockOK, StockNeverOversold

LEMMA ReserveOK ==
  ASSUME IInv, NEW q \in Requests, NEW p \in Parts, NEW n \in Quantities, Reserve(q, p, n)
  PROVE  IInv'
<1>. DEFINE got == AtMost(n, Available(p))
            row == [status |-> ReservedStatus(got, n), part |-> p, job |-> req[q].job,
                    requested |-> n, reserved |-> got, returned |-> 0]
<1>1. n \in Nat
  BY QuantitiesAssumption
<1>2. got \in Nat /\ got <= n
  BY <1>1, AvailableFacts, AtMostFacts DEF IInv
<1>3. row \in Row
  BY <1>1, <1>2 DEF IInv, TypeOK, Request, Row, Status, ReservedStatus
<1>4. Within(row)
  BY <1>1, <1>2 DEF Within
<1>5. TableOK' /\ SameRows
  BY <1>3, <1>4, InsertRowOK DEF Reserve
<1>6. StockOK'
  BY <1>1, SetAsideOK DEF Reserve
<1>7. MemoryOK'
  <2>1. CASE req[q].op = "topUp"
    BY <2>1, <1>5, FinishOK DEF Reserve, AfterReserve, Finish, TableOK
  <2>2. CASE req[q].op # "topUp"
    <3>1. PICK op \in {"spareHeld", "spareShort"} :
            req' = [req EXCEPT ![q] = [req[q] EXCEPT !.op = op]]
      BY <2>2 DEF Reserve, AfterReserve
    <3>2. op \in Ops /\ op # "confirm"
      BY DEF Ops
    <3>. QED
      BY <1>5, <3>1, <3>2, AdvanceOK DEF TableOK
  <2>. QED
    BY <2>1, <2>2
<1>. QED
  BY <1>5, <1>6, <1>7, IInvParts, IInvPrime DEF Reserve, JobsOK

LEMMA RequestNeedSpareOK ==
  ASSUME IInv, NEW q \in Requests, NEW p \in Parts, NEW n \in Quantities,
         RequestNeedSpare(q, p, n)
  PROVE  IInv'
<1>. DEFINE row == [status |-> "PENDING_REVIEW", part |-> p, job |-> req[q].job,
                    requested |-> n, reserved |-> 0, returned |-> 0]
<1>1. n \in Nat
  BY QuantitiesAssumption
<1>2. row \in Row /\ Within(row)
  BY <1>1 DEF IInv, TypeOK, Request, Row, Status, Within
<1>3. TableOK' /\ SameRows
  BY <1>2, InsertRowOK DEF RequestNeedSpare
<1>4. MemoryOK'
  BY <1>3, FinishOK DEF RequestNeedSpare, TableOK
<1>. QED
  BY <1>3, <1>4, StockSame, IInvParts, IInvPrime DEF RequestNeedSpare, JobsOK

LEMMA NeedSpareApproveOK ==
  ASSUME IInv, NEW q \in Requests, NEW r \in Reservations, NeedSpareApprove(q, r)
  PROVE  IInv'
<1>. DEFINE row == req[q].copy[r]
            got == AtMost(row.requested, Available(row.part))
            new == [row EXCEPT !.reserved = got, !.status = ReservedStatus(got, row.requested)]
<1>1. r \in req[q].seen /\ row \in Row /\ Within(row)
  BY CopyFacts DEF NeedSpareApprove
<1>2. row.part \in Parts /\ row.requested \in Nat
  BY <1>1 DEF Row
<1>3. got \in Nat /\ got <= row.requested
  BY <1>2, AvailableFacts, AtMostFacts DEF IInv
<1>4. new \in Row /\ Within(new) /\ new.requested = row.requested
  BY <1>1, <1>3 DEF Row, Status, ReservedStatus, Within
<1>5. TableOK' /\ SameRows
  BY <1>1, <1>4, SaveRowOK DEF NeedSpareApprove
<1>6. StockOK'
  BY <1>2, SetAsideOK DEF NeedSpareApprove
<1>7. MemoryOK'
  BY <1>5, FinishOK DEF NeedSpareApprove, TableOK
<1>. QED
  BY <1>5, <1>6, <1>7, IInvParts, IInvPrime DEF NeedSpareApprove, JobsOK

LEMMA ReviewRejectOK ==
  ASSUME IInv, NEW q \in Requests, ReviewReject(q)
  PROVE  IInv'
<1>1. req[q] \in Request
  BY DEF IInv, TypeOK
<1>2. TableOK' /\ SameRows
  BY <1>1, CopyFacts, SaveRowsOK DEF ReviewReject, Request
<1>3. MemoryOK'
  BY <1>2, FinishOK DEF ReviewReject, TableOK
<1>. QED
  BY <1>2, <1>3, StockSame, IInvParts, IInvPrime DEF ReviewReject, JobsOK

\* Freeing units never oversells.
LEMMA FreeOK ==
  ASSUME StockOK, NEW p \in Parts, NEW m \in Nat, NEW n \in Nat,
         onHand' \in {[onHand EXCEPT ![p] = @ + n], onHand},
         quantityReserved' \in {[quantityReserved EXCEPT ![p] = Minus(@, m)],
                                quantityReserved},
         UNCHANGED <<stocked, damage, received>>
  PROVE  StockOK'
<1>1. /\ Minus(quantityReserved[p], m) \in Nat
      /\ Minus(quantityReserved[p], m) <= quantityReserved[p]
  BY MinusFacts DEF StockOK
<1>. QED
  BY <1>1 DEF StockOK, StockNeverOversold

LEMMA ReleaseReservationOK ==
  ASSUME IInv, NEW q \in Requests, NEW r \in Reservations, ReleaseReservation(q, r)
  PROVE  IInv'
<1>. DEFINE row == req[q].copy[r]
            new == [row EXCEPT !.status = "RETURN_PENDING"]
<1>1. r \in req[q].seen /\ row \in Row /\ Within(row)
  BY CopyFacts DEF ReleaseReservation
<1>2. new \in Row /\ Within(new) /\ new.requested = row.requested
  BY <1>1 DEF Row, Status, Within
<1>3. TableOK' /\ SameRows
  BY <1>1, <1>2, SaveRowOK DEF ReleaseReservation
<1>4. StockOK'
  <2>1. row.part \in Parts /\ row.reserved \in Nat
    BY <1>1 DEF Row
  <2>. QED
    BY <2>1, FreeOK, IInvParts DEF ReleaseReservation
<1>5. MemoryOK'
  BY <1>3, FinishOK DEF ReleaseReservation, TableOK
<1>. QED
  BY <1>3, <1>4, <1>5, IInvParts, IInvPrime DEF ReleaseReservation, JobsOK

LEMMA ConfirmReturnReadOK ==
  ASSUME IInv, NEW q \in Requests, NEW r \in Reservations, NEW n \in Quantities,
         ConfirmReturnRead(q, r, n)
  PROVE  IInv'
<1>. DEFINE x == [op |-> "confirm", job |-> res[r].job, seen |-> {r}, at |-> r, qty |-> n,
                  copy |-> [NoCopy EXCEPT ![r] = res[r]]]
<1>1. n \in Nat /\ r \in Nat
  BY QuantitiesAssumption, BoundsAssumption DEF Reservations
<1>2. res[r] \in Row /\ Within(res[r]) /\ res[r].status = "RETURN_PENDING"
  BY DEF IInv, TypeOK, RowsWithinRequest, ConfirmReturnRead
<1>3. /\ x.copy \in [Reservations -> Row]
      /\ \A t \in Reservations : Within(x.copy[t])
      /\ x.copy[r] = res[r]
  BY <1>2, NoRowFacts DEF NoCopy
<1>4. r < nextId /\ nextId \in Nat
  BY <1>1, <1>2, NoRowFacts DEF IInv, TypeOK, FreshRows
<1>5. x \in Request
  BY <1>1, <1>2, <1>3 DEF Request, Ops, Row
<1>6. n <= res[r].requested
  BY <1>1, <1>2 DEF ConfirmReturnRead, Within, Row
<1>7. Remembers(x)
  BY <1>3, <1>4, <1>6 DEF Remembers
<1>8. TableOK' /\ SameRows
  BY TableSame, IInvParts DEF ConfirmReturnRead
<1>9. MemoryOK'
  BY <1>5, <1>7, <1>8, StillRemembers, SetRequest DEF ConfirmReturnRead, TableOK
<1>. QED
  BY <1>8, <1>9, StockSame, IInvParts, IInvPrime DEF ConfirmReturnRead, JobsOK

LEMMA ConfirmReturnOK ==
  ASSUME IInv, NEW q \in Requests, NEW r \in Reservations, ConfirmReturn(q, r)
  PROVE  IInv'
<1>. DEFINE row  == req[q].copy[r]
            n    == req[q].qty
            rest == req[q].seen \ {r}
            new  == ReturnedRow(row, n)
            next == [req[q] EXCEPT !.op = "confirmEach", !.seen = rest, !.at = 0,
                                   !.qty = 0, !.copy[r] = NoRow]
<1>1. req[q] \in Request /\ Remembers(req[q]) /\ req[q].op = "confirm"
  BY DEF IInv, TypeOK, MemoryConsistent, ConfirmReturn
<1>2. r \in req[q].seen /\ n <= row.requested /\ n \in Nat
  BY <1>1 DEF Remembers, ConfirmReturn, Request
<1>3. row \in Row /\ Within(row)
  BY <1>2, CopyFacts
<1>4. new \in Row /\ Within(new) /\ new.requested = row.requested
  BY <1>2, <1>3 DEF Row, Status, Within, ReturnedRow
<1>5. TableOK' /\ SameRows
  BY <1>2, <1>4, SaveRowOK DEF ConfirmReturn
<1>6. StockOK'
  <2>1. row.part \in Parts /\ row.reserved \in Nat
    BY <1>3 DEF Row
  <2>2. StockOK
    BY IInvParts
  <2>3. CASE row.part \in stocked
    <3>1. /\ onHand' = [onHand EXCEPT ![row.part] = @ + n]
          /\ quantityReserved' = [quantityReserved EXCEPT ![row.part] = Minus(@, row.reserved)]
          /\ UNCHANGED <<stocked, damage, received>>
      BY <2>3 DEF ConfirmReturn
    <3>. QED
      BY <1>2, <2>1, <2>2, <3>1, FreeOK
  <2>4. CASE row.part \notin stocked
    <3>1. onHand' = onHand /\ quantityReserved' = quantityReserved
      BY <2>2, <2>4 DEF ConfirmReturn, StockOK
    <3>2. UNCHANGED <<stocked, damage, received>>
      BY DEF ConfirmReturn
    <3>. QED
      BY <2>2, <3>1, <3>2, StockSame DEF stockVars
  <2>. QED
    BY <2>3, <2>4
<1>7. MemoryOK'
  <2>1. CASE rest = {}
    BY <1>5, <2>1, SetRequest, StillRemembers, NoRequestFacts DEF ConfirmReturn, TableOK
  <2>2. CASE rest # {}
    <3>1. next \in Request
      BY <1>1, NoRowFacts DEF Request, Ops
    <3>2. /\ \A t \in Reservations : Within(next.copy[t])
          /\ \A t \in rest : next.copy[t] = req[q].copy[t]
      BY <1>1, NoRowFacts DEF Request, Remembers
    <3>3. next.op = "confirmEach" /\ next.seen = rest
      BY <1>1 DEF Request
    <3>4. Remembers(next)
      BY <1>1, <3>2, <3>3 DEF Remembers
    <3>. QED
      BY <1>5, <2>2, <3>1, <3>4, StillRemembers, SetRequest DEF ConfirmReturn, TableOK
  <2>. QED
    BY <2>1, <2>2
<1>. QED
  BY <1>5, <1>6, <1>7, IInvParts, IInvPrime DEF ConfirmReturn, JobsOK

LEMMA MarkSaveOK ==
  ASSUME IInv, NEW q \in Requests, MarkSave(q)
  PROVE  IInv'
<1>. DEFINE w == WithStatus(q, "RETURN_PENDING")
            next == [req[q] EXCEPT !.op = "confirmEach", !.copy = w]
<1>1. /\ req[q] \in Request
      /\ w \in [Reservations -> Row]
      /\ \A r \in Reservations : /\ Within(w[r])
                                 /\ w[r].part = req[q].copy[r].part
                                 /\ w[r].requested = req[q].copy[r].requested
  BY WithStatusFacts DEF Status
<1>2. next \in Request /\ next.op = "confirmEach" /\ next.seen = req[q].seen /\ next.copy = w
  BY <1>1 DEF Request, Ops
<1>3. Remembers(next)
  BY <1>1, <1>2, CopyFacts DEF Remembers
<1>4. TableOK' /\ SameRows
  BY <1>1, SaveRowsOK DEF MarkSave, Request
<1>5. MemoryOK'
  BY <1>2, <1>3, <1>4, StillRemembers, SetRequest DEF MarkSave, TableOK
<1>. QED
  BY <1>4, <1>5, StockSame, IInvParts, IInvPrime DEF MarkSave, JobsOK

LEMMA ConfirmAllReadOK ==
  ASSUME IInv, NEW q \in Requests, NEW j \in Jobs, ConfirmAllRead(q, j)
  PROVE  IInv'
<1>1. MemoryOK'
  BY LoadOK DEF ConfirmAllRead, Ops
<1>. QED
  BY <1>1, StockSame, TableSame, IInvParts, IInvPrime DEF ConfirmAllRead, JobsOK

LEMMA ConfirmEachReadOK ==
  ASSUME IInv, NEW q \in Requests, NEW r \in Reservations, ConfirmEachRead(q, r)
  PROVE  IInv'
<1>. DEFINE listed == req[q].copy[r].reserved
            next == [req[q] EXCEPT !.op = "confirm", !.at = r, !.qty = listed,
                                   !.copy[r] = res[r]]
<1>1. req[q] \in Request /\ Remembers(req[q])
  BY DEF IInv, TypeOK, MemoryConsistent
<1>2. /\ r \in req[q].seen /\ req[q].copy[r] \in Row /\ Within(req[q].copy[r])
      /\ req[q].copy[r].requested = res[r].requested /\ r \in Nat
  BY CopyFacts DEF ConfirmEachRead
<1>3. res[r] \in Row /\ Within(res[r])
  BY DEF IInv, TypeOK, RowsWithinRequest
<1>4. listed \in Nat /\ listed <= res[r].requested
  BY <1>2, <1>3 DEF Within, Row
<1>5. /\ next \in Request /\ next.op = "confirm" /\ next.at = r /\ next.qty = listed
      /\ next.seen = req[q].seen /\ next.copy = [req[q].copy EXCEPT ![r] = res[r]]
  BY <1>1, <1>2, <1>3, <1>4 DEF Request, Ops
<1>6. req[q].copy \in [Reservations -> Row] /\ req[q].seen \subseteq Reservations
  BY <1>1 DEF Request
<1>7. Remembers(next)
  BY <1>1, <1>2, <1>3, <1>4, <1>5, <1>6 DEF Remembers
<1>8. TableOK' /\ SameRows
  BY TableSame, IInvParts DEF ConfirmEachRead
<1>9. MemoryOK'
  BY <1>5, <1>7, <1>8, StillRemembers, SetRequest DEF ConfirmEachRead, TableOK
<1>. QED
  BY <1>8, <1>9, StockSame, IInvParts, IInvPrime DEF ConfirmEachRead, JobsOK

LEMMA CancelJobOK ==
  ASSUME IInv, NEW q \in Requests, CancelJob(q)
  PROVE  IInv'
<1>1. SameRows /\ TableOK'
  BY TableSame, IInvParts DEF CancelJob, SaveJob
<1>2. "cancelled" \in Ops
  BY DEF Ops
<1>3. MemoryOK'
  BY <1>1, <1>2, AdvanceOK DEF CancelJob, TableOK
<1>. QED
  BY <1>3, SaveJobOK DEF CancelJob, Ops, JobStatus

LEMMA CancelReservationsReadOK ==
  ASSUME IInv, NEW q \in Requests, CancelReservationsRead(q)
  PROVE  IInv'
<1>1. req[q].job \in Jobs
  BY DEF IInv, TypeOK, Request
<1>2. MemoryOK'
  BY <1>1, LoadOK DEF CancelReservationsRead, Ops, Active
<1>. QED
  BY <1>2, StockSame, TableSame, IInvParts, IInvPrime DEF CancelReservationsRead, JobsOK

LEMMA QcApproveReadOK ==
  ASSUME IInv, NEW q \in Requests, NEW j \in Jobs, QcApproveRead(q, j)
  PROVE  IInv'
<1>1. MemoryOK'
  BY LoadOK DEF QcApproveRead, OpenRows, Ops, Active
<1>. QED
  BY <1>1, StockSame, TableSame, IInvParts, IInvPrime DEF QcApproveRead, JobsOK

\* What a QC approval does to the stock rows, as a function of what it uses.
QcUses(used) ==
  /\ \A p \in Parts : used[p] \in 0..onHand[p]
  /\ onHand' = [p \in Parts |-> onHand[p] - used[p]]
  /\ quantityReserved' = [p \in Parts |-> Minus(quantityReserved[p], used[p])]
  /\ damage' = [p \in Parts |-> damage[p] + used[p]]

LEMMA QcUsesSome ==
  ASSUME NEW q \in Requests, QcApprove(q)
  PROVE  \E used : QcUses(used)
<1>1. QcUses(QcUsed(q))
  BY DEF QcApprove, QcUses, DamageReceived
<1>. QED
  BY <1>1

\* QC approval re-checks what it consumes against the shelf it has locked.
LEMMA QcApproveOK ==
  ASSUME IInv, NEW q \in Requests, QcApprove(q)
  PROVE  IInv'
<1>. DEFINE copy == req[q].copy
<1>1. StockOK
  BY IInvParts
<1>2. StockOK'
  <2>1. PICK used : QcUses(used)
    BY QcUsesSome
  <2>2. ASSUME NEW p \in Parts
        PROVE  /\ onHand'[p] \in Nat /\ quantityReserved'[p] \in Nat /\ damage'[p] \in Nat
               /\ quantityReserved'[p] <= onHand'[p]
    BY <1>1, <2>1 DEF QcUses, StockOK, StockNeverOversold, Minus
  <2>3. UNCHANGED <<stocked, received>>
    BY DEF QcApprove
  <2>. QED
    BY <1>1, <2>1, <2>2, <2>3 DEF QcUses, StockOK, StockNeverOversold
<1>3. TableOK' /\ SameRows
  <2>1. PICK kept :
          res' = [r \in Reservations |->
                    IF r \in ActiveOf(q)
                    THEN Merge(res[r], copy[r], QcRow(copy[r]), KeptOf(kept, r))
                    ELSE IF r \in RejectUnreviewed(q)
                         THEN [res[r] EXCEPT !.status = "REJECTED"]
                         ELSE res[r]]
    BY DEF QcApprove
  <2>2. ActiveOf(q) \subseteq req[q].seen /\ RejectUnreviewed(q) \subseteq req[q].seen \ ActiveOf(q)
    BY DEF ActiveOf, RejectUnreviewed
  <2>3. ASSUME NEW r \in Reservations
        PROVE  /\ res'[r] \in Row
               /\ \/ res'[r] = res[r]
                  \/ /\ r < nextId /\ Within(res'[r])
                     /\ res'[r].part = res[r].part /\ res'[r].requested = res[r].requested
    <3>1. res[r] \in Row /\ Within(res[r])
      BY DEF IInv, TypeOK, RowsWithinRequest
    <3>2. CASE r \in ActiveOf(q)
      <4>1. /\ copy[r] \in Row /\ Within(copy[r]) /\ r < nextId
            /\ copy[r].requested = res[r].requested
        BY <2>2, <3>2, CopyFacts
      <4>2. /\ QcRow(copy[r]) \in Row /\ Within(QcRow(copy[r]))
            /\ QcRow(copy[r]).requested = res[r].requested
        BY <4>1 DEF QcRow, Row, Status, Within
      <4>3. res'[r] = Merge(res[r], copy[r], QcRow(copy[r]), KeptOf(kept, r))
        BY <2>1, <3>2
      <4>. QED
        BY <3>1, <4>1, <4>2, <4>3, MergeFacts
    <3>3. CASE r \in RejectUnreviewed(q)
      <4>1. r < nextId
        BY <2>2, <3>3, CopyFacts
      <4>2. res'[r] = [res[r] EXCEPT !.status = "REJECTED"]
        BY <2>1, <2>2, <3>3
      <4>. QED
        BY <3>1, <4>1, <4>2 DEF Row, Status, Within
    <3>4. CASE r \notin ActiveOf(q) /\ r \notin RejectUnreviewed(q)
      BY <2>1, <3>1, <3>4
    <3>. QED
      BY <3>2, <3>3, <3>4
  <2>4. res' \in [Reservations -> Row]
    BY <2>1, <2>3
  <2>5. UNCHANGED nextId
    BY DEF QcApprove
  <2>. QED
    BY <2>3, <2>4, <2>5, TableWriteOK
<1>4. MemoryOK'
  BY <1>3, FinishOK DEF QcApprove, TableOK
<1>5. JobsOK'
  BY IInvParts DEF QcApprove, JobsOK, JobStatus
<1>. QED
  BY <1>2, <1>3, <1>4, <1>5, IInvPrime

LEMMA AbandonOK ==
  ASSUME IInv, NEW q \in Requests, Abandon(q)
  PROVE  IInv'
<1>1. TableOK' /\ SameRows
  BY TableSame, IInvParts DEF Abandon
<1>2. MemoryOK'
  BY <1>1, FinishOK DEF Abandon, TableOK
<1>. QED
  BY <1>1, <1>2, StockSame, IInvParts, IInvPrime DEF Abandon, JobsOK

-----------------------------------------------------------------------------
(* The invariant holds initially and every step preserves it. *)

LEMMA InitOK == Init => IInv
<1>. SUFFICES ASSUME Init PROVE IInv
  OBVIOUS
<1>1. NoCopy \in [Reservations -> Row] /\ \A r \in Reservations : Within(NoCopy[r])
  BY NoRowFacts DEF NoCopy
<1>2. TypeOK
  BY <1>1, NoRequestFacts DEF Init, TypeOK, JobStatus
<1>3. StockNeverOversold /\ RowsWithinRequest
  BY <1>1 DEF Init, StockNeverOversold, RowsWithinRequest
<1>4. MemoryConsistent
  BY NoRequestFacts DEF Init, MemoryConsistent
<1>5. FreshRows
  BY DEF Init, FreshRows, NoCopy
<1>. QED
  BY <1>2, <1>3, <1>4, <1>5 DEF IInv

LEMMA RequestStepOK ==
  ASSUME IInv, NEW q \in Requests, RequestStep(q)
  PROVE  IInv'
<1>1. ASSUME NEW j \in Jobs, RequestSpareRead(q, j) \/ TopUpRead(q, j) PROVE IInv'
  BY <1>1, ReadJobOK DEF RequestSpareRead, TopUpRead, Ops
<1>2. ASSUME NEW j \in Jobs, NeedSpareRead(q, j) PROVE IInv'
  BY <1>2, ReadJobOK DEF NeedSpareRead, Ops
<1>. QED
  BY <1>1, <1>2, ConfirmAllReadOK, ReserveOK, RequestNeedSpareOK DEF RequestStep

LEMMA ReservationStepOK ==
  ASSUME IInv, NEW q \in Requests, ReservationStep(q)
  PROVE  IInv'
<1>1. ASSUME NEW r \in Reservations,
             \/ NeedSpareReviewRead(q, r) \/ ReviewRead(q, r) \/ RequestReturnRead(q, r)
             \/ MarkRead(q, r) \/ MarkReturnPending(q, r) \/ ReleaseRead(q, r)
      PROVE  IInv'
  BY <1>1, ReadRowOK
  DEF NeedSpareReviewRead, ReviewRead, RequestReturnRead, MarkRead, MarkReturnPending,
      ReleaseRead, Ops, Active
<1>2. ASSUME \/ NeedSpareReject(q) \/ ReleaseUnreviewed(q)
             \/ ReviewApprove(q) \/ RequestReturn(q)
      PROVE  IInv'
  BY <1>2, SaveStatusOK
  DEF NeedSpareReject, ReleaseUnreviewed, ReviewApprove, RequestReturn, Ops, Status
<1>. QED
  BY <1>1, <1>2, ReviewRejectOK, MarkSaveOK, NeedSpareApproveOK,
     ConfirmEachReadOK, ConfirmReturnOK, ReleaseReservationOK, ConfirmReturnReadOK
  DEF ReservationStep

LEMMA JobStepOK ==
  ASSUME IInv, NEW q \in Requests, JobStep(q)
  PROVE  IInv'
<1>1. ASSUME NEW j \in Jobs, CancelRead(q, j) \/ CompleteRead(q, j) \/ QcRejectRead(q, j)
      PROVE  IInv'
  BY <1>1, ReadJobOK DEF CancelRead, CompleteRead, QcRejectRead, Ops
<1>2. ASSUME CancelReservations(q) PROVE IInv'
  BY <1>2, SaveStatusOK DEF CancelReservations, Ops, Status
<1>3. ASSUME \/ CompleteSave(q) \/ QcReject(q)
             \/ ResumeFromSparePending(q) \/ SetSparePending(q)
      PROVE  IInv'
  <2>1. PICK op \in Ops, s \in JobStatus : SaveJob(q, op, s) /\ Finish(q)
    BY <1>3
    DEF CompleteSave, QcReject, ResumeFromSparePending, SetSparePending, Ops, JobStatus
  <2>2. TableOK' /\ SameRows
    BY <2>1, TableSame, IInvParts DEF SaveJob
  <2>3. MemoryOK'
    BY <2>1, <2>2, FinishOK DEF TableOK
  <2>. QED
    BY <2>1, <2>3, SaveJobOK
<1>4. ASSUME ResumeRead(q) \/ SetSparePendingRead(q) PROVE IInv'
  BY <1>4, RereadJobOK DEF ResumeRead, SetSparePendingRead, Ops
<1>. QED
  BY <1>1, <1>2, <1>3, <1>4, CancelJobOK, CancelReservationsReadOK, QcApproveOK,
     QcApproveReadOK
  DEF JobStep

LEMMA StepOK == IInv /\ [Next]_vars => IInv'
<1>. SUFFICES ASSUME IInv, [Next]_vars PROVE IInv'
  OBVIOUS
<1>1. CASE Next
  BY <1>1, GrnOK, RequestStepOK, ReservationStepOK, JobStepOK, AbandonOK DEF Next
<1>2. CASE UNCHANGED vars
  BY <1>2 DEF vars, IInv, TypeOK, StockNeverOversold, RowsWithinRequest, MemoryConsistent,
              Remembers, FreshRows
<1>. QED
  BY <1>1, <1>2

\* IInv is inductive, so it holds in every reachable state.
LEMMA AlwaysIInv == Spec => []IInv
BY InitOK, StepOK, PTL DEF Spec

-----------------------------------------------------------------------------
(* The results. *)

(***************************************************************************)
(* Every table column and every entity in a request's memory keeps its     *)
(* type: quantities stay natural numbers, statuses stay known statuses.    *)
(***************************************************************************)
THEOREM TypeCorrect == Spec => []TypeOK
<1>1. IInv => TypeOK
  BY DEF IInv
<1>. QED
  BY <1>1, AlwaysIInv, PTL

(***************************************************************************)
(* However requests interleave, fail half-way, or write old rows back, the *)
(* units set aside never exceed the units on the shelf.                    *)
(***************************************************************************)
THEOREM NeverOversold == Spec => []StockNeverOversold
<1>1. IInv => StockNeverOversold
  BY DEF IInv
<1>. QED
  BY <1>1, AlwaysIInv, PTL

(***************************************************************************)
(* No lost update, double approval or double return makes a reservation    *)
(* row reserve or return more than was asked for.                          *)
(***************************************************************************)
THEOREM NeverBeyondRequest == Spec => []RowsWithinRequest
<1>1. IInv => RowsWithinRequest
  BY DEF IInv
<1>. QED
  BY <1>1, AlwaysIInv, PTL

(***************************************************************************)
(* However old it is, what a request holds in memory still agrees with the *)
(* rows on part and requested quantity, and it books no larger return.     *)
(***************************************************************************)
THEOREM MemoryStaysConsistent == Spec => []MemoryConsistent
<1>1. IInv => MemoryConsistent
  BY DEF IInv
<1>. QED
  BY <1>1, AlwaysIInv, PTL

-----------------------------------------------------------------------------
(* Refinement: which steps touch the stock rows, and what each does to them. *)

LEMMA QuietStep ==
  ASSUME NEW q \in Requests, RequestStep(q) \/ ReservationStep(q) \/ JobStep(q) \/ Abandon(q)
  PROVE  \/ UNCHANGED stockVars
         \/ \E p \in Parts, n \in Quantities : Reserve(q, p, n)
         \/ \E r \in Reservations : \/ NeedSpareApprove(q, r)
                                    \/ ConfirmReturn(q, r)
                                    \/ ReleaseReservation(q, r)
         \/ QcApprove(q)
<1>1. ASSUME RequestStep(q)
      PROVE  \/ UNCHANGED stockVars
             \/ \E p \in Parts, n \in Quantities : Reserve(q, p, n)
  BY <1>1 DEF RequestStep, RequestSpareRead, TopUpRead, NeedSpareRead, ReadJob, ConfirmAllRead,
              RequestNeedSpare
<1>2. ASSUME ReservationStep(q)
      PROVE  \/ UNCHANGED stockVars
             \/ \E r \in Reservations : \/ NeedSpareApprove(q, r)
                                        \/ ConfirmReturn(q, r)
                                        \/ ReleaseReservation(q, r)
  BY <1>2 DEF ReservationStep, NeedSpareReject, ReviewReject, ReviewApprove, RequestReturn,
              MarkSave, ReleaseUnreviewed, SaveStatus, NeedSpareReviewRead, ReviewRead,
              RequestReturnRead, MarkRead, MarkReturnPending, ReleaseRead, ReadRow,
              ConfirmEachRead, ConfirmReturnRead
<1>3. ASSUME JobStep(q)
      PROVE  UNCHANGED stockVars \/ QcApprove(q)
  BY <1>3 DEF JobStep, CancelJob, CancelReservationsRead, CancelReservations, SaveStatus,
              CompleteSave, QcReject, ResumeRead, ResumeFromSparePending, RereadJob,
              SetSparePendingRead, SetSparePending, SaveJob, CancelRead, CompleteRead, QcRejectRead,
              ReadJob, QcApproveRead
<1>4. ASSUME Abandon(q)
      PROVE  UNCHANGED stockVars
  BY <1>4 DEF Abandon
<1>. QED
  BY <1>1, <1>2, <1>3, <1>4

LEMMA StockWriters ==
  ASSUME Next
  PROVE  \/ UNCHANGED stockVars
         \/ \E p \in Parts, n \in Quantities :
              Grn(p, n) \/ \E q \in Requests : Reserve(q, p, n)
         \/ \E q \in Requests : \/ \E r \in Reservations : \/ NeedSpareApprove(q, r)
                                                          \/ ConfirmReturn(q, r)
                                                          \/ ReleaseReservation(q, r)
                                \/ QcApprove(q)
BY QuietStep DEF Next

\* Setting aside out of what is available is a SetAside of that part.
LEMMA SetAsideMoves ==
  ASSUME IInv, NEW p \in Parts, NEW n \in Nat,
         quantityReserved' = [quantityReserved EXCEPT ![p] = @ + AtMost(n, Available(p))],
         UNCHANGED <<onHand, damage>>
  PROVE  Ledger!Next
<1>1. /\ AtMost(n, Available(p)) \in Nat
      /\ AtMost(n, Available(p)) <= Available(p)
  BY AvailableFacts, AtMostFacts DEF IInv
<1>2. quantityReserved[p] + Available(p) = onHand[p] /\ Available(p) \in Nat
  BY AvailableFacts DEF IInv
<1>3. quantityReserved \in [Parts -> Nat] /\ onHand \in [Parts -> Nat]
  BY DEF IInv, TypeOK
<1>4. Ledger!SetAside(p)
  BY <1>1, <1>2, <1>3 DEF Ledger!SetAside
<1>5. \A k \in Parts \ {p} : Ledger!Unchanged(k)
  BY <1>3 DEF Ledger!Unchanged
<1>. QED
  BY <1>4, <1>5 DEF Ledger!Next, Ledger!Move

LEMMA FreeMoves ==
  ASSUME IInv, NEW p \in Parts, NEW m \in Nat, NEW n \in Nat,
         onHand' \in {[onHand EXCEPT ![p] = @ + n], onHand},
         quantityReserved' \in {[quantityReserved EXCEPT ![p] = Minus(@, m)],
                                quantityReserved},
         UNCHANGED damage
  PROVE  Ledger!Next
<1>1. quantityReserved \in [Parts -> Nat] /\ onHand \in [Parts -> Nat]
  BY DEF IInv, TypeOK
<1>2. Minus(quantityReserved[p], m) <= quantityReserved[p]
  BY <1>1, MinusFacts
<1>3. Ledger!ComeIn(p)
  BY <1>1, <1>2 DEF Ledger!ComeIn
<1>4. \A k \in Parts \ {p} : Ledger!Unchanged(k)
  BY <1>1 DEF Ledger!Unchanged
<1>. QED
  BY <1>3, <1>4 DEF Ledger!Next, Ledger!Move

\* Arguments of the two handlers that free what a loaded entity reserved.
LEMMA FreedEntity ==
  ASSUME IInv, NEW q \in Requests, NEW r \in Reservations,
         ConfirmReturn(q, r) \/ ReleaseReservation(q, r)
  PROVE  /\ req[q].copy[r] \in Row
         /\ req[q].qty \in Nat
<1>1. req[q] \in Request
  BY DEF IInv, TypeOK
<1>. QED
  BY <1>1 DEF Request

LEMMA StepMoves ==
  ASSUME IInv, Next
  PROVE  Ledger!Next \/ UNCHANGED Ledger!vars
<1>0. onHand \in [Parts -> Nat] /\ quantityReserved \in [Parts -> Nat] /\ damage \in [Parts -> Nat]
  BY DEF IInv, TypeOK
<1>1. ASSUME NEW p \in Parts, NEW n \in Quantities, Grn(p, n)
      PROVE  Ledger!Next
  BY <1>1, FreeMoves, QuantitiesAssumption DEF Grn
<1>2. ASSUME NEW p \in Parts, NEW n \in Quantities, NEW q \in Requests, Reserve(q, p, n)
      PROVE  Ledger!Next
  BY <1>2, SetAsideMoves, QuantitiesAssumption DEF Reserve
<1>3. ASSUME NEW q \in Requests, NEW r \in Reservations, NeedSpareApprove(q, r)
      PROVE  Ledger!Next
  <2>1. req[q].copy[r].part \in Parts /\ req[q].copy[r].requested \in Nat
    BY <1>3, CopyFacts DEF NeedSpareApprove, Row
  <2>. QED
    BY <1>3, <2>1, SetAsideMoves DEF NeedSpareApprove
<1>4. ASSUME NEW q \in Requests, NEW r \in Reservations, ReleaseReservation(q, r)
      PROVE  Ledger!Next
  <2>1. req[q].copy[r].part \in Parts /\ req[q].copy[r].reserved \in Nat
    BY <1>4, FreedEntity DEF Row
  <2>. QED
    BY <1>4, <2>1, FreeMoves DEF ReleaseReservation
<1>5. ASSUME NEW q \in Requests, NEW r \in Reservations, ConfirmReturn(q, r)
      PROVE  Ledger!Next
  <2>1. /\ req[q].copy[r].part \in Parts /\ req[q].copy[r].reserved \in Nat
        /\ req[q].qty \in Nat
    BY <1>5, FreedEntity DEF Row
  <2>. DEFINE p == req[q].copy[r].part
  <2>2. onHand' \in {[onHand EXCEPT ![p] = @ + req[q].qty], onHand}
    BY <1>0, <1>5, <2>1 DEF ConfirmReturn
  <2>3. quantityReserved' \in {[quantityReserved EXCEPT ![p] = Minus(@, req[q].copy[r].reserved)],
                              quantityReserved}
    BY <1>0, <1>5, <2>1 DEF ConfirmReturn
  <2>4. damage' = damage
    BY <1>5 DEF ConfirmReturn
  <2>. QED
    BY <2>1, <2>2, <2>3, <2>4, FreeMoves
<1>6. ASSUME NEW q \in Requests, QcApprove(q)
      PROVE  Ledger!Next
  <2>1. PICK used : QcUses(used)
    BY <1>6, QcUsesSome
  <2>2. ASSUME NEW p \in Parts PROVE Ledger!UseUp(p)
    BY <1>0, <2>1 DEF QcUses, Ledger!UseUp, Minus, IInv, StockNeverOversold
  <2>. QED
    BY <2>2 DEF Ledger!Next, Ledger!Move
<1>7. ASSUME UNCHANGED stockVars
      PROVE  UNCHANGED Ledger!vars
  BY <1>7 DEF stockVars, Ledger!vars
<1>. QED
  BY <1>1, <1>2, <1>3, <1>4, <1>5, <1>6, <1>7, StockWriters

(***************************************************************************)
(* The store implements its ledger: every transaction, however stale what  *)
(* it read before it had its locks, is for each part a receipt or return,  *)
(* a setting aside of available units, or a use of units on the shelf.     *)
(***************************************************************************)
THEOREM ImplementsLedger == Spec => LedgerSpec
<1>1. Init => Ledger!Init
  BY DEF Init, Ledger!Init
<1>2. IInv /\ [Next]_vars => [Ledger!Next]_(Ledger!vars)
  <2>1. UNCHANGED vars => UNCHANGED Ledger!vars
    BY DEF vars, Ledger!vars
  <2>. QED
    BY <2>1, StepMoves
<1>. QED
  BY <1>1, <1>2, AlwaysIInv, PTL DEF Spec, LedgerSpec, Ledger!Spec

-----------------------------------------------------------------------------
(* Every change of the number of units is explained. *)

Explained(p) ==
  Units(p)' # Units(p) =>
    \/ Units(p)' - Units(p) = received'[p] - received[p]
    \/ \E r \in Reservations :
         /\ res[r].part = p
         /\ Units(p)' - Units(p) \in 1..res[r].requested

LEMMA ConfirmReturnExplained ==
  ASSUME IInv, NEW q \in Requests, NEW r \in Reservations, ConfirmReturn(q, r),
         NEW p \in Parts
  PROVE  Explained(p)
<1>. DEFINE row == req[q].copy[r]
            n   == req[q].qty
<1>1. Remembers(req[q]) /\ n \in Nat
  BY FreedEntity DEF IInv, MemoryConsistent
<1>2. r \in req[q].seen /\ n <= row.requested
  BY <1>1 DEF Remembers, ConfirmReturn
<1>3. row \in Row /\ row.part = res[r].part /\ row.requested = res[r].requested
  BY <1>2, CopyFacts
<1>4. onHand \in [Parts -> Nat] /\ damage \in [Parts -> Nat]
  BY DEF IInv, TypeOK
<1>5. CASE p = row.part /\ p \in stocked
  <2>1. onHand'[p] = onHand[p] + n /\ damage'[p] = damage[p]
    BY <1>1, <1>4, <1>5 DEF ConfirmReturn
  <2>. HIDE DEF n
  <2>2. Units(p)' = Units(p) + n /\ Units(p) \in Nat
    BY <1>1, <1>4, <2>1 DEF Units
  <2>3. n <= res[r].requested /\ res[r].part = p /\ res[r].requested \in Nat
    BY <1>2, <1>3, <1>5 DEF Row
  <2>. QED
    BY <1>1, <2>2, <2>3 DEF Explained
<1>6. CASE ~(p = row.part /\ p \in stocked)
  <2>1. onHand'[p] = onHand[p] /\ damage'[p] = damage[p]
    BY <1>4, <1>6 DEF ConfirmReturn
  <2>. QED
    BY <2>1 DEF Explained, Units
<1>. QED
  BY <1>5, <1>6

LEMMA StepExplained ==
  ASSUME IInv, Next, NEW p \in Parts
  PROVE  Explained(p)
<1>0. onHand \in [Parts -> Nat] /\ damage \in [Parts -> Nat] /\ received \in [Parts -> Nat]
  BY DEF IInv, TypeOK
<1>1. ASSUME NEW k \in Parts, NEW n \in Quantities, Grn(k, n)
      PROVE  Explained(p)
  BY <1>0, <1>1, QuantitiesAssumption DEF Grn, Explained, Units
<1>2. ASSUME UNCHANGED <<onHand, damage>>
      PROVE  Explained(p)
  BY <1>2 DEF Explained, Units
<1>3. ASSUME NEW q \in Requests, QcApprove(q)
      PROVE  Explained(p)
  <2>1. PICK used : QcUses(used)
    BY <1>3, QcUsesSome
  <2>2. Units(p)' = Units(p)
    BY <1>0, <2>1 DEF QcUses, Units
  <2>. QED
    BY <2>2 DEF Explained
<1>4. ASSUME NEW q \in Requests, NEW k \in Parts, NEW n \in Quantities, Reserve(q, k, n)
      PROVE  Explained(p)
  BY <1>2, <1>4 DEF Reserve
<1>5. ASSUME NEW q \in Requests, NEW r \in Reservations,
             NeedSpareApprove(q, r) \/ ReleaseReservation(q, r)
      PROVE  Explained(p)
  BY <1>2, <1>5 DEF NeedSpareApprove, ReleaseReservation
<1>6. ASSUME UNCHANGED stockVars
      PROVE  Explained(p)
  BY <1>2, <1>6 DEF stockVars
<1>. QED
  BY <1>1, <1>3, <1>4, <1>5, <1>6, ConfirmReturnExplained, StockWriters

(***************************************************************************)
(* Units change in number only by a goods receipt or by a return within    *)
(* what its reservation asked for; QC approval creates and destroys none.  *)
(***************************************************************************)
THEOREM BooksAreExplained == Spec => MovesAreExplained
<1>1. IInv /\ [Next]_vars => [\A p \in Parts : Explained(p)]_vars
  BY StepExplained
<1>. QED
  BY <1>1, AlwaysIInv, PTL DEF Spec, MovesAreExplained, Explained

-----------------------------------------------------------------------------
(* Sums over finite sets. *)

\* A set of subsets of a finite set has a smallest member: what induction over
\* finite sets comes down to.
LEMMA SmallestBad ==
  ASSUME NEW S, IsFiniteSet(S), NEW Bad \in SUBSET SUBSET S, Bad # {}
  PROVE  \E s \in Bad : IsFiniteSet(s) /\ \A t \in SUBSET s : t # s => t \notin Bad
<1>1. IsWellFoundedOn(StrictSubsetOrdering(S), FiniteSubsetsOf(S))
  BY FS_StrictSubsetOrderingWellFounded
<1>2. Bad \subseteq FiniteSubsetsOf(S)
  BY FS_Subset DEF FiniteSubsetsOf
<1>3. PICK s \in Bad : \A t \in Bad : <<t, s>> \notin StrictSubsetOrdering(S)
  BY <1>1, <1>2, WFMin
<1>4. IsFiniteSet(s)
  BY FS_Subset
<1>5. \A t \in SUBSET s : t # s => t \notin Bad
  BY <1>3 DEF StrictSubsetOrdering
<1>. QED
  BY <1>4, <1>5

\* The element a fold takes first.
Pick(s) == CHOOSE x \in s : TRUE

LEMMA PickIn == \A s : s # {} => Pick(s) \in s
BY DEF Pick

\* What SumFunctionOnSet unfolds to.
Adds(f, S, g) == g = [s \in SUBSET S |-> IF s = {} THEN 0 ELSE f[Pick(s)] + g[s \ {Pick(s)}]]

LEMMA SumUnfolds == \A f, S : SumFunctionOnSet(f, S) = (CHOOSE g : Adds(f, S, g))[S]
BY DEF SumFunctionOnSet, FoldFunctionOnSet, MapThenFoldSet, Adds, Pick

LEMMA AddsAgree ==
  ASSUME NEW f, NEW S, NEW T, NEW g, NEW h, Adds(f, S, g), Adds(f, T, h), IsFiniteSet(T),
         T \subseteq S
  PROVE  \A s \in SUBSET T : g[s] = h[s]
<1>. DEFINE Bad == {s \in SUBSET T : g[s] # h[s]}
<1>. SUFFICES ASSUME Bad # {} PROVE FALSE
  OBVIOUS
<1>1. PICK s \in Bad : \A t \in SUBSET s : t # s => t \notin Bad
  <2>1. PICK B \in SUBSET SUBSET T : B = Bad
    OBVIOUS
  <2>. HIDE DEF Bad
  <2>. QED
    BY <2>1, SmallestBad
<1>2. s # {}
  BY <1>1 DEF Adds
<1>3. g[s] = f[Pick(s)] + g[s \ {Pick(s)}] /\ h[s] = f[Pick(s)] + h[s \ {Pick(s)}]
  BY <1>1, <1>2 DEF Adds
<1>. QED
  BY <1>1, <1>2, <1>3, PickIn

LEMMA AddsExists ==
  ASSUME NEW f, NEW S, IsFiniteSet(S)
  PROVE  \E g : Adds(f, S, g)
<1>. DEFINE Bad == {s \in SUBSET S : ~\E g : Adds(f, s, g)}
<1>. SUFFICES ASSUME Bad # {} PROVE FALSE
  OBVIOUS
<1>1. PICK s \in Bad : IsFiniteSet(s) /\ \A t \in SUBSET s : t # s => t \notin Bad
  <2>1. PICK B \in SUBSET SUBSET S : B = Bad
    OBVIOUS
  <2>. HIDE DEF Bad
  <2>. QED
    BY <2>1, SmallestBad
<1>2. PICK best : best = [t \in SUBSET s |-> CHOOSE g : Adds(f, t, g)]
  OBVIOUS
<1>3. ASSUME NEW t \in SUBSET s, t # s
      PROVE  IsFiniteSet(t) /\ Adds(f, t, best[t])
  BY <1>1, <1>2, <1>3, FS_Subset
<1>4. ASSUME NEW t \in SUBSET s, t # s, t # {}
      PROVE  best[t][t] = f[Pick(t)] + best[t \ {Pick(t)}][t \ {Pick(t)}]
  <2>. DEFINE u == t \ {Pick(t)}
  <2>1. u \in SUBSET s /\ u # s /\ u \in SUBSET t
    BY <1>4, PickIn
  <2>2. IsFiniteSet(u) /\ Adds(f, u, best[u]) /\ Adds(f, t, best[t])
    BY <1>3, <1>4, <2>1
  <2>3. best[t][t] = f[Pick(t)] + best[t][u]
    BY <1>4, <2>2 DEF Adds
  <2>4. best[t][u] = best[u][u]
    BY <2>1, <2>2, AddsAgree
  <2>. QED
    BY <2>3, <2>4
<1>. DEFINE G == [t \in SUBSET s |-> IF t = {} THEN 0
                                     ELSE f[Pick(t)] + best[t \ {Pick(t)}][t \ {Pick(t)}]]
<1>5. ASSUME NEW t \in SUBSET s, t # s PROVE G[t] = best[t][t]
  <2>1. CASE t = {}
    BY <1>3, <1>5, <2>1 DEF Adds
  <2>2. CASE t # {}
    BY <1>4, <1>5, <2>2
  <2>. QED
    BY <2>1, <2>2
<1>6. Adds(f, s, G)
  <2>1. ASSUME NEW t \in SUBSET s, t # {}
        PROVE  best[t \ {Pick(t)}][t \ {Pick(t)}] = G[t \ {Pick(t)}]
    BY <1>5, <2>1, PickIn
  <2>. QED
    BY <2>1 DEF Adds
<1>. QED
  BY <1>1, <1>6

LEMMA SumAdds ==
  ASSUME NEW f, NEW S, IsFiniteSet(S)
  PROVE  /\ SumFunctionOnSet(f, {}) = 0
         /\ S # {} => SumFunctionOnSet(f, S)
                        = f[Pick(S)] + SumFunctionOnSet(f, S \ {Pick(S)})
<1>. DEFINE sum(T) == CHOOSE g : Adds(f, T, g)
            R == S \ {Pick(S)}
<1>1. Adds(f, {}, sum({})) /\ Adds(f, S, sum(S)) /\ Adds(f, R, sum(R)) /\ IsFiniteSet(R)
  BY AddsExists, FS_EmptySet, FS_Subset
<1>2. sum({})[{}] = 0
  BY <1>1 DEF Adds
<1>3. ASSUME S # {} PROVE sum(S)[S] = f[Pick(S)] + sum(R)[R]
  <2>1. sum(S)[S] = f[Pick(S)] + sum(S)[R]
    BY <1>1, <1>3 DEF Adds
  <2>2. sum(S)[R] = sum(R)[R]
    BY <1>1, AddsAgree
  <2>. QED
    BY <2>1, <2>2
<1>. QED
  BY <1>2, <1>3, SumUnfolds

\* The sum over no elements.
LEMMA SumEmpty == \A f : SumFunctionOnSet(f, {}) = 0
BY SumAdds, FS_EmptySet

\* Sums of natural numbers are natural numbers.
LEMMA SumNat ==
  ASSUME NEW S, IsFiniteSet(S), NEW f, \A x \in S : f[x] \in Nat
  PROVE  SumFunctionOnSet(f, S) \in Nat
<1>. DEFINE Bad == {s \in SUBSET S : SumFunctionOnSet(f, s) \notin Nat}
<1>. SUFFICES ASSUME Bad # {} PROVE FALSE
  OBVIOUS
<1>1. PICK s \in Bad : IsFiniteSet(s) /\ \A t \in SUBSET s : t # s => t \notin Bad
  <2>1. PICK B \in SUBSET SUBSET S : B = Bad
    OBVIOUS
  <2>. HIDE DEF Bad
  <2>. QED
    BY <2>1, SmallestBad
<1>2. s # {}
  <2>1. SumFunctionOnSet(f, {}) = 0
    BY SumEmpty
  <2>2. SumFunctionOnSet(f, s) # 0
    OBVIOUS
  <2>. QED
    BY <2>1, <2>2
<1>3. SumFunctionOnSet(f, s) = f[Pick(s)] + SumFunctionOnSet(f, s \ {Pick(s)})
  BY <1>1, <1>2, SumAdds
<1>4. SumFunctionOnSet(f, s \ {Pick(s)}) \in Nat
  BY <1>1, <1>2, PickIn
<1>. QED
  BY <1>1, <1>2, <1>3, <1>4, PickIn

\* It does not matter which element is added last.
LEMMA SumWithout ==
  ASSUME NEW S, IsFiniteSet(S), NEW f, \A x \in S : f[x] \in Nat, NEW x \in S
  PROVE  SumFunctionOnSet(f, S) = f[x] + SumFunctionOnSet(f, S \ {x})
<1>. DEFINE Bad == {s \in SUBSET S :
                      \E y \in s : SumFunctionOnSet(f, s) # f[y] + SumFunctionOnSet(f, s \ {y})}
<1>. SUFFICES ASSUME Bad # {} PROVE FALSE
  OBVIOUS
<1>1. PICK s \in Bad : IsFiniteSet(s) /\ \A t \in SUBSET s : t # s => t \notin Bad
  <2>1. PICK B \in SUBSET SUBSET S : B = Bad
    OBVIOUS
  <2>. HIDE DEF Bad
  <2>. QED
    BY <2>1, SmallestBad
<1>2. PICK y \in s : SumFunctionOnSet(f, s) # f[y] + SumFunctionOnSet(f, s \ {y})
  OBVIOUS
<1>3. PICK c : c = Pick(s)
  OBVIOUS
<1>4. c \in s /\ SumFunctionOnSet(f, s) = f[c] + SumFunctionOnSet(f, s \ {c})
  BY <1>1, <1>3, SumAdds, PickIn
<1>5. c # y
  BY <1>2, <1>4
<1>6. /\ SumFunctionOnSet(f, s \ {c}) = f[y] + SumFunctionOnSet(f, (s \ {c}) \ {y})
      /\ SumFunctionOnSet(f, s \ {y}) = f[c] + SumFunctionOnSet(f, (s \ {y}) \ {c})
  BY <1>1, <1>4, <1>5
<1>7. (s \ {c}) \ {y} = (s \ {y}) \ {c}
  OBVIOUS
<1>8. PICK T : T = (s \ {y}) \ {c}
  OBVIOUS
<1>9. SumFunctionOnSet(f, T) \in Nat
  <2>1. IsFiniteSet(T)
    BY <1>1, <1>8, FS_Subset
  <2>. QED
    BY <1>8, <2>1, SumNat
<1>. QED
  BY <1>2, <1>4, <1>6, <1>7, <1>8, <1>9

\* A sum depends only on the values that are added.
LEMMA SumSame ==
  ASSUME NEW S, IsFiniteSet(S), NEW f, NEW g, \A x \in S : f[x] = g[x]
  PROVE  SumFunctionOnSet(f, S) = SumFunctionOnSet(g, S)
<1>. DEFINE Bad == {s \in SUBSET S : SumFunctionOnSet(f, s) # SumFunctionOnSet(g, s)}
<1>. SUFFICES ASSUME Bad # {} PROVE FALSE
  OBVIOUS
<1>1. PICK s \in Bad : IsFiniteSet(s) /\ \A t \in SUBSET s : t # s => t \notin Bad
  <2>1. PICK B \in SUBSET SUBSET S : B = Bad
    OBVIOUS
  <2>. HIDE DEF Bad
  <2>. QED
    BY <2>1, SmallestBad
<1>2. s # {}
  BY <1>1, SumEmpty
<1>3. /\ SumFunctionOnSet(f, s) = f[Pick(s)] + SumFunctionOnSet(f, s \ {Pick(s)})
      /\ SumFunctionOnSet(g, s) = g[Pick(s)] + SumFunctionOnSet(g, s \ {Pick(s)})
  BY <1>1, <1>2, SumAdds
<1>. QED
  BY <1>1, <1>2, <1>3, PickIn

\* One summand changes.
LEMMA SumChange ==
  ASSUME NEW S, IsFiniteSet(S), NEW f, NEW g, \A y \in S : f[y] \in Nat /\ g[y] \in Nat,
         NEW x \in S, \A y \in S \ {x} : f[y] = g[y]
  PROVE  SumFunctionOnSet(g, S) + f[x] = SumFunctionOnSet(f, S) + g[x]
<1>1. IsFiniteSet(S \ {x})
  BY FS_Subset
<1>2. SumFunctionOnSet(f, S) = f[x] + SumFunctionOnSet(f, S \ {x})
  BY SumWithout
<1>3. SumFunctionOnSet(g, S) = g[x] + SumFunctionOnSet(g, S \ {x})
  BY SumWithout
<1>4. SumFunctionOnSet(f, S \ {x}) = SumFunctionOnSet(g, S \ {x})
  BY <1>1, SumSame
<1>5. SumFunctionOnSet(f, S \ {x}) \in Nat
  BY <1>1, SumNat
<1>. QED
  BY <1>2, <1>3, <1>4, <1>5

\* The sum of sums.
LEMMA SumPlus ==
  ASSUME NEW S, IsFiniteSet(S), NEW f, NEW g, NEW h,
         \A x \in S : f[x] \in Nat /\ g[x] \in Nat /\ h[x] = f[x] + g[x]
  PROVE  SumFunctionOnSet(h, S) = SumFunctionOnSet(f, S) + SumFunctionOnSet(g, S)
<1>. DEFINE Bad == {s \in SUBSET S : SumFunctionOnSet(h, s)
                                       # SumFunctionOnSet(f, s) + SumFunctionOnSet(g, s)}
<1>. SUFFICES ASSUME Bad # {} PROVE FALSE
  OBVIOUS
<1>1. PICK s \in Bad : IsFiniteSet(s) /\ \A t \in SUBSET s : t # s => t \notin Bad
  <2>1. PICK B \in SUBSET SUBSET S : B = Bad
    OBVIOUS
  <2>. HIDE DEF Bad
  <2>. QED
    BY <2>1, SmallestBad
<1>2. s # {}
  <2>1. SumFunctionOnSet(f, {}) = 0 /\ SumFunctionOnSet(g, {}) = 0 /\ SumFunctionOnSet(h, {}) = 0
    BY SumEmpty
  <2>2. SumFunctionOnSet(h, {}) = SumFunctionOnSet(f, {}) + SumFunctionOnSet(g, {})
    BY <2>1
  <2>. QED
    BY <1>1, <2>2
<1>3. PICK c, u : c = Pick(s) /\ u = s \ {c}
  OBVIOUS
<1>4. c \in s /\ c \in S /\ IsFiniteSet(u) /\ u \in SUBSET S /\ u \notin Bad
  BY <1>1, <1>2, <1>3, PickIn, FS_Subset
<1>5. /\ SumFunctionOnSet(f, s) = f[c] + SumFunctionOnSet(f, u)
      /\ SumFunctionOnSet(g, s) = g[c] + SumFunctionOnSet(g, u)
      /\ SumFunctionOnSet(h, s) = h[c] + SumFunctionOnSet(h, u)
  BY <1>1, <1>2, <1>3, SumAdds
<1>6. SumFunctionOnSet(f, u) \in Nat /\ SumFunctionOnSet(g, u) \in Nat
  <2>1. \A x \in u : f[x] \in Nat /\ g[x] \in Nat
    BY <1>4
  <2>. QED
    BY <1>4, <2>1, SumNat
<1>7. SumFunctionOnSet(h, u) = SumFunctionOnSet(f, u) + SumFunctionOnSet(g, u)
  BY <1>4
<1>8. h[c] = f[c] + g[c] /\ f[c] \in Nat /\ g[c] \in Nat
  BY <1>4
<1>9. SumFunctionOnSet(h, s) = SumFunctionOnSet(f, s) + SumFunctionOnSet(g, s)
  BY <1>5, <1>6, <1>7, <1>8
<1>. QED
  BY <1>1, <1>9

\* Summing over a subset is summing over the set with zeros elsewhere.
LEMMA SumRestrict ==
  ASSUME NEW S, IsFiniteSet(S), NEW T \in SUBSET S, NEW f, NEW g,
         \A x \in T : f[x] \in Nat,
         \A x \in S : g[x] = IF x \in T THEN f[x] ELSE 0
  PROVE  SumFunctionOnSet(f, T) = SumFunctionOnSet(g, S)
<1>. DEFINE Bad == {s \in SUBSET S : SumFunctionOnSet(f, s \cap T) # SumFunctionOnSet(g, s)}
<1>. SUFFICES Bad = {}
  <2>1. S \cap T = T
    OBVIOUS
  <2>. QED
    BY <2>1
<1>0. SUFFICES ASSUME Bad # {} PROVE FALSE
  OBVIOUS
<1>1. PICK s \in Bad : IsFiniteSet(s) /\ \A t \in SUBSET s : t # s => t \notin Bad
  <2>1. PICK B \in SUBSET SUBSET S : B = Bad
    OBVIOUS
  <2>2. B # {}
    BY <1>0, <2>1
  <2>. HIDE DEF Bad
  <2>. QED
    BY <2>1, <2>2, SmallestBad
<1>2. s # {}
  <2>1. SumFunctionOnSet(f, {}) = 0 /\ SumFunctionOnSet(g, {}) = 0
    BY SumEmpty
  <2>2. {} \cap T = {}
    OBVIOUS
  <2>. QED
    BY <1>1, <2>1, <2>2
<1>3. PICK c, u : c = Pick(s) /\ u = s \ {c}
  OBVIOUS
<1>4. c \in s /\ c \in S /\ IsFiniteSet(u) /\ u \in SUBSET S /\ u \notin Bad
  BY <1>1, <1>2, <1>3, PickIn, FS_Subset
<1>5. SumFunctionOnSet(g, s) = g[c] + SumFunctionOnSet(g, u)
  BY <1>1, <1>2, <1>3, SumAdds
<1>6. SumFunctionOnSet(g, u) \in Nat
  <2>1. \A x \in u : g[x] \in Nat
    BY <1>4
  <2>. QED
    BY <1>4, <2>1, SumNat
<1>7. SumFunctionOnSet(f, u \cap T) = SumFunctionOnSet(g, u)
  BY <1>4
<1>8. CASE c \in T
  <2>1. PICK v : v = s \cap T
    OBVIOUS
  <2>2. c \in v /\ v \ {c} = u \cap T
    BY <1>3, <1>4, <1>8, <2>1
  <2>3. IsFiniteSet(v) /\ \A x \in v : f[x] \in Nat
    BY <1>1, <2>1, FS_Subset
  <2>4. SumFunctionOnSet(f, v) = f[c] + SumFunctionOnSet(f, v \ {c})
    BY <2>2, <2>3, SumWithout
  <2>. QED
    BY <1>1, <1>4, <1>5, <1>7, <1>8, <2>1, <2>2, <2>4
<1>9. CASE c \notin T
  <2>1. s \cap T = u \cap T
    BY <1>3, <1>9
  <2>2. g[c] = 0
    BY <1>4, <1>9
  <2>3. SumFunctionOnSet(g, s) = SumFunctionOnSet(g, u)
    BY <1>5, <1>6, <2>2
  <2>. QED
    BY <1>1, <1>7, <2>1, <2>3
<1>. QED
  BY <1>8, <1>9

-----------------------------------------------------------------------------
(* Requests that do not overlap. *)

\* At most one request is in flight.
Serial == \A q, r \in Requests : q = r

\* The statuses QC approval and a release deal with.
Open == Active \cup {"PENDING_REVIEW"}

\* The statuses of the rows a handler works on.
Expected(op) ==
  CASE op = "needSpareReview" -> {"PENDING_REVIEW"}
    [] op \in {"review", "requestReturn", "mark", "cancelReservations"} -> Active
    [] op \in {"release", "qcApprove"} -> Open
    [] op \in {"confirmEach", "confirm"} -> {"RETURN_PENDING"}
    [] OTHER -> {}

\* What RowsTellOneStory says of one row.
Story(row) ==
  /\ row.status \in {"NONE", "PENDING_REVIEW", "REJECTED"} => row.reserved = 0
  /\ row.status = "HELD" => row.reserved = row.requested
  /\ row.status = "PARTIALLY_RESERVED" => row.reserved < row.requested
  /\ row.status # "RETURNED" => row.returned = 0
  /\ row.returned <= row.reserved

\* Parts are set aside only from a stock row, and only on-site requests wait
\* for a review.
RowOK(row, parts) ==
  /\ Story(row)
  /\ row.status \notin {"NONE", "PENDING_REVIEW", "REJECTED"} => row.part \in parts
  /\ row.status = "PENDING_REVIEW" => row.job \in OnSiteJobs

RowsOK == \A r \in Reservations : RowOK(res[r], stocked)

\* Some request of job j was not met in full.
CameShort(j) == \E r \in Reservations : res[r].job = j /\ res[r].reserved < res[r].requested

\* Only a workshop job waits for parts, and it has reason to.
WaitingOK ==
  \A j \in Jobs : jobStatus[j] = "SPARE_PENDING" => j \notin OnSiteJobs /\ CameShort(j)

\* The only request there is remembers the rows as they are.
Current(x) ==
  /\ \A r \in x.seen : x.copy[r] = res[r] /\ res[r].status \in Expected(x.op)
  /\ x.op = "confirm" => x.at \in x.seen /\ x.qty <= res[x.at].reserved
  /\ x.op \in {"requestSpare", "topUp", "spareHeld", "spareShort", "resume", "setSparePending"}
       => x.job \notin OnSiteJobs
  /\ x.op = "needSpare" => x.job \in OnSiteJobs
  /\ x.op \in {"requestSpare", "topUp", "needSpare"} => jobStatus[x.job] # "QC_PASSED"
  /\ x.op \in {"spareShort", "setSparePending"} => CameShort(x.job)
  /\ x.op = "qcApprove" => x.seen = OpenRows(x.job)

(***************************************************************************)
(* The inductive invariant.  PassedJobsAreSettled alone is not inductive:  *)
(* the approval that sets QC_PASSED settles the rows it loaded, so these   *)
(* must be all the open rows of the job and as they are now (Current), and *)
(* a request that is about to insert a row must still be for a job that    *)
(* has not passed.  A job waits for parts because of a row, so the request *)
(* that makes it wait must still have that row to show (CameShort).        *)
(***************************************************************************)
SerialInv ==
  /\ IInv
  /\ RowsOK /\ PassedJobsAreSettled /\ WaitingOK
  /\ \A q \in Requests : Current(req[q])

\* What TerminalIsFinal says of a step.
TerminalKept == \A r \in Reservations : res[r].status \in Terminal => res'[r] = res[r]

\* There is one request, and a step leaves x of it.
LEMMA OnlyRequest ==
  ASSUME Serial, SerialInv, IInv', NEW q \in Requests, NEW x,
         req' = [req EXCEPT ![q] = x], Current(x)',
         RowsOK', PassedJobsAreSettled', WaitingOK'
  PROVE  SerialInv'
<1>1. req'[q] = x
  BY DEF SerialInv, IInv, TypeOK
<1>2. ASSUME NEW s \in Requests PROVE Current(req[s])'
  <2>1. req'[s] = x
    BY <1>1 DEF Serial
  <2>. QED
    BY <2>1 DEF Current
<1>. QED
  BY <1>2 DEF SerialInv

LEMMA IdleIsCurrent == Current(NoRequest) /\ Current(NoRequest)'
BY DEF Current, NoRequest

\* Steps that change the request alone.
LEMMA QuietOK ==
  ASSUME Serial, SerialInv, IInv', NEW q \in Requests, NEW x,
         req' = [req EXCEPT ![q] = x], Current(x),
         UNCHANGED <<stockVars, tableVars, jobStatus>>
  PROVE  SerialInv' /\ TerminalKept
<1>1. Current(x)'
  BY DEF Current, CameShort, OpenRows, tableVars
<1>2. RowsOK' /\ PassedJobsAreSettled' /\ WaitingOK'
  BY DEF SerialInv, RowsOK, PassedJobsAreSettled, WaitingOK, CameShort, tableVars, stockVars
<1>3. TerminalKept
  BY DEF TerminalKept, tableVars
<1>. QED
  BY <1>1, <1>2, <1>3, OnlyRequest

\* A request that has just loaded its rows is current.
LEMMA LoadCurrent ==
  ASSUME Serial, SerialInv, IInv', NEW q \in Requests, NEW op \in Ops, NEW j \in Jobs,
         NEW S \in SUBSET Reservations,
         Load(q, op, j, S), UNCHANGED <<stockVars, tableVars, jobStatus>>,
         \A r \in S : res[r].status \in Expected(op),
         op # "confirm",
         op \in {"requestSpare", "topUp"} => j \notin OnSiteJobs,
         op = "needSpare" => j \in OnSiteJobs,
         op \in {"requestSpare", "topUp", "needSpare"} => jobStatus[j] # "QC_PASSED",
         op \notin {"spareHeld", "spareShort", "resume", "setSparePending"},
         op = "qcApprove" => S = OpenRows(j)
  PROVE  SerialInv' /\ TerminalKept
<1>. DEFINE x == [op |-> op, job |-> j, seen |-> S, at |-> 0, qty |-> 0,
                  copy |-> [r \in Reservations |-> IF r \in S THEN res[r] ELSE NoRow]]
<1>1. Current(x)
  BY DEF Current
<1>2. req' = [req EXCEPT ![q] = x]
  BY DEF Load
<1>. HIDE DEF x
<1>. QED
  BY <1>1, <1>2, QuietOK

LEMMA ReadRowCurrent ==
  ASSUME Serial, SerialInv, IInv', NEW q \in Requests, NEW op \in Ops, NEW r \in Reservations,
         ReadRow(q, op, r, Expected(op)),
         op \in {"needSpareReview", "review", "requestReturn", "mark", "confirmEach", "release"}
  PROVE  SerialInv' /\ TerminalKept
<1>1. res[r].job \in Jobs
  BY DEF SerialInv, IInv, TypeOK, Row
<1>2. {r} \in SUBSET Reservations /\ \A s \in {r} : res[s].status \in Expected(op)
  BY DEF ReadRow
<1>. QED
  BY <1>1, <1>2, LoadCurrent DEF ReadRow

LEMMA ReadJobCurrent ==
  ASSUME Serial, SerialInv, IInv', NEW q \in Requests, NEW op \in Ops, NEW j \in Jobs,
         NEW allowed, ReadJob(q, op, j, allowed),
         op \in {"requestSpare", "topUp", "needSpare", "cancel", "complete", "qcReject"},
         op \in {"requestSpare", "topUp"} => j \notin OnSiteJobs,
         op = "needSpare" => j \in OnSiteJobs,
         "QC_PASSED" \notin allowed
  PROVE  SerialInv' /\ TerminalKept
<1>1. \A r \in {} : res[r].status \in Expected(op)
  OBVIOUS
<1>. QED
  BY <1>1, LoadCurrent DEF ReadJob

LEMMA RereadJobCurrent ==
  ASSUME Serial, SerialInv, IInv', NEW q \in Requests, ResumeRead(q) \/ SetSparePendingRead(q)
  PROVE  SerialInv' /\ TerminalKept
<1>1. req[q] \in Request /\ Current(req[q])
  BY DEF SerialInv, IInv, TypeOK
<1>2. PICK next \in {"resume", "setSparePending"} :
        /\ req[q].op = IF next = "resume" THEN "spareHeld" ELSE "spareShort"
        /\ req' = [req EXCEPT ![q].op = next]
        /\ UNCHANGED <<stockVars, tableVars, jobStatus>>
  BY DEF ResumeRead, SetSparePendingRead, RereadJob
<1>3. PICK x : x = [req[q] EXCEPT !.op = next]
  OBVIOUS
<1>4. x.op = next /\ x.job = req[q].job /\ x.seen = req[q].seen /\ x.copy = req[q].copy
  BY <1>1, <1>3 DEF Request
<1>5. x.seen = {}
  BY <1>1, <1>2, <1>4 DEF Current, Expected
<1>6. Current(x)
  BY <1>1, <1>2, <1>4, <1>5 DEF Current
<1>. QED
  BY <1>2, <1>3, <1>6, QuietOK

\* Saves of the job card alone.
LEMMA SaveJobCurrent ==
  ASSUME Serial, SerialInv, IInv', NEW q \in Requests, NEW op \in Ops, NEW s \in JobStatus,
         SaveJob(q, op, s), NEW x, req' = [req EXCEPT ![q] = x],
         x.seen = {}, x.op \in {"idle", "cancelled"},
         s # "QC_PASSED", s = "SPARE_PENDING" => op = "setSparePending"
  PROVE  SerialInv' /\ TerminalKept
<1>. DEFINE j == req[q].job
<1>1. Current(req[q]) /\ req[q].op = op
  BY DEF SerialInv, SaveJob
<1>2. j \in Jobs /\ jobStatus' = [jobStatus EXCEPT ![j] = s] /\ res' = res /\ stocked' = stocked
  BY DEF SerialInv, IInv, TypeOK, Request, SaveJob, stockVars, tableVars
<1>3. s = "SPARE_PENDING" => j \notin OnSiteJobs /\ CameShort(j)
  BY <1>1 DEF Current
<1>. HIDE DEF j
<1>4. jobStatus'[j] = s /\ \A k \in Jobs \ {j} : jobStatus'[k] = jobStatus[k]
  BY <1>2 DEF SerialInv, IInv, TypeOK
<1>5. \A r \in Reservations : res[r].job \in Jobs
  BY DEF SerialInv, IInv, TypeOK, Row
<1>6. PassedJobsAreSettled'
  BY <1>2, <1>4, <1>5 DEF SerialInv, PassedJobsAreSettled
<1>7. WaitingOK'
  BY <1>2, <1>3, <1>4 DEF SerialInv, WaitingOK, CameShort
<1>8. RowsOK'
  BY <1>2 DEF SerialInv, RowsOK
<1>9. Current(x)'
  BY DEF Current
<1>10. TerminalKept
  BY <1>2 DEF TerminalKept
<1>. QED
  BY <1>6, <1>7, <1>8, <1>9, <1>10, OnlyRequest

LEMMA JobSavesCurrent ==
  ASSUME Serial, SerialInv, IInv', NEW q \in Requests,
         \/ CancelJob(q) \/ CompleteSave(q) \/ QcReject(q)
         \/ ResumeFromSparePending(q) \/ SetSparePending(q)
  PROVE  SerialInv' /\ TerminalKept
<1>1. req[q] \in Request /\ Current(req[q])
  BY DEF SerialInv, IInv, TypeOK
<1>2. ASSUME CancelJob(q) PROVE SerialInv' /\ TerminalKept
  <2>1. PICK x : x = [req[q] EXCEPT !.op = "cancelled"]
    OBVIOUS
  <2>2. x.seen = req[q].seen /\ x.op = "cancelled" /\ req[q].op = "cancel"
    BY <1>1, <1>2, <2>1 DEF Request, CancelJob, SaveJob
  <2>3. x.seen = {}
    BY <1>1, <2>2 DEF Current, Expected
  <2>4. "cancel" \in Ops /\ "CANCELLED" \in JobStatus
    BY DEF Ops, JobStatus
  <2>5. SaveJob(q, "cancel", "CANCELLED") /\ req' = [req EXCEPT ![q] = x]
    BY <1>2, <2>1 DEF CancelJob
  <2>. QED
    BY <2>2, <2>3, <2>4, <2>5, SaveJobCurrent
<1>3. ASSUME \/ CompleteSave(q) \/ QcReject(q)
             \/ ResumeFromSparePending(q) \/ SetSparePending(q)
      PROVE  SerialInv' /\ TerminalKept
  <2>1. PICK op \in Ops, s \in JobStatus :
          /\ SaveJob(q, op, s) /\ Finish(q)
          /\ s # "QC_PASSED" /\ (s = "SPARE_PENDING" => op = "setSparePending")
    BY <1>3
    DEF CompleteSave, QcReject, ResumeFromSparePending, SetSparePending, Ops, JobStatus
  <2>2. PICK x : x = NoRequest
    OBVIOUS
  <2>3. x.seen = {} /\ x.op = "idle" /\ req' = [req EXCEPT ![q] = x]
    BY <2>1, <2>2 DEF Finish, NoRequest
  <2>. QED
    BY <2>1, <2>3, SaveJobCurrent
<1>. QED
  BY <1>2, <1>3

-----------------------------------------------------------------------------
(* Writes of rows. *)

\* An entity as current as its row is written as it is.
LEMMA MergeCurrent ==
  ASSUME NEW cur \in Row, NEW new \in Row, NEW kept,
         new.part = cur.part, new.job = cur.job, new.requested = cur.requested
  PROVE  Merge(cur, cur, new, kept) = new
<1>. DEFINE m == Merge(cur, cur, new, kept)
<1>1. /\ m = [cur EXCEPT !.status = new.status, !.reserved = new.reserved,
                         !.returned = new.returned]
  BY DEF Merge
<1>2. /\ cur = [status |-> cur.status, part |-> cur.part, job |-> cur.job,
                requested |-> cur.requested, reserved |-> cur.reserved, returned |-> cur.returned]
      /\ new = [status |-> new.status, part |-> new.part, job |-> new.job,
                requested |-> new.requested, reserved |-> new.reserved, returned |-> new.returned]
  BY DEF Row
<1>3. m = [status |-> new.status, part |-> cur.part, job |-> cur.job,
           requested |-> cur.requested, reserved |-> new.reserved, returned |-> new.returned]
  BY <1>1, <1>2
<1>. QED
  BY <1>2, <1>3

\* The rows new that handlers make of the rows old.
SameIdentity(old, new) ==
  new.part = old.part /\ new.job = old.job /\ new.requested = old.requested

\* save() writes exactly the entities the handler changed.
LEMMA SaveRowsCurrent ==
  ASSUME SerialInv, NEW q \in Requests, NEW rows, NEW S \in SUBSET req[q].seen,
         \A r \in S : rows[r] \in Row /\ SameIdentity(res[r], rows[r]),
         SaveRows(q, rows, S)
  PROVE  res' = [r \in Reservations |-> IF r \in S THEN rows[r] ELSE res[r]]
<1>1. PICK kept : res' = [r \in Reservations |->
                            IF r \in S THEN Merge(res[r], req[q].copy[r], rows[r], KeptOf(kept, r))
                                       ELSE res[r]]
  BY DEF SaveRows
<1>2. ASSUME NEW r \in Reservations, r \in S
      PROVE  Merge(res[r], req[q].copy[r], rows[r], KeptOf(kept, r)) = rows[r]
  <2>1. req[q].copy[r] = res[r]
    BY <1>2 DEF SerialInv, Current
  <2>2. res[r] \in Row
    BY DEF SerialInv, IInv, TypeOK
  <2>. QED
    BY <1>2, <2>1, <2>2, MergeCurrent DEF SameIdentity
<1>. QED
  BY <1>1, <1>2

\* What may become of a row.
Becomes(old, new, parts) ==
  \/ new = old
  \/ /\ old.status \notin Terminal
     /\ RowOK(new, parts)
     /\ new.status \in Open => \/ old.status \in Open /\ new.job = old.job
                               \/ jobStatus[new.job] # "QC_PASSED"
     /\ \/ old.job \in OnSiteJobs
        \/ old.reserved >= old.requested
        \/ new.job = old.job /\ new.reserved = old.reserved /\ new.requested = old.requested

LEMMA BecomesOK ==
  ASSUME SerialInv, stocked' = stocked, jobStatus' = jobStatus,
         \A r \in Reservations : Becomes(res[r], res'[r], stocked)
  PROVE  /\ RowsOK' /\ PassedJobsAreSettled' /\ WaitingOK' /\ TerminalKept
         /\ \A j \in Jobs \ OnSiteJobs : CameShort(j) => CameShort(j)'
<1>1. RowsOK'
  BY DEF SerialInv, RowsOK, Becomes
<1>2. PassedJobsAreSettled'
  BY DEF SerialInv, PassedJobsAreSettled, Becomes, Open
<1>3. TerminalKept
  BY DEF TerminalKept, Becomes
<1>4. ASSUME NEW j \in Jobs \ OnSiteJobs, CameShort(j) PROVE CameShort(j)'
  <2>1. PICK r \in Reservations : res[r].job = j /\ res[r].reserved < res[r].requested
    BY <1>4 DEF CameShort
  <2>2. res[r].reserved \in Nat /\ res[r].requested \in Nat
    BY DEF SerialInv, IInv, TypeOK, Row
  <2>3. res'[r].job = j /\ res'[r].reserved < res'[r].requested
    BY <2>1, <2>2 DEF Becomes
  <2>. QED
    BY <2>3 DEF CameShort
<1>5. WaitingOK'
  BY <1>4 DEF SerialInv, WaitingOK
<1>. QED
  BY <1>1, <1>2, <1>3, <1>4, <1>5

\* A handler that ends with the rows it writes.
LEMMA FinishCurrent ==
  ASSUME Serial, SerialInv, IInv', NEW q \in Requests, Finish(q),
         stocked' = stocked, jobStatus' = jobStatus,
         \A r \in Reservations : Becomes(res[r], res'[r], stocked)
  PROVE  SerialInv' /\ TerminalKept
BY BecomesOK, IdleIsCurrent, OnlyRequest DEF Finish

\* A loaded row gets another status.
LEMMA StatusBecomes ==
  ASSUME SerialInv, NEW r \in Reservations, NEW s \in Status,
         \/ s = "RETURN_PENDING" /\ res[r].status \in Active
         \/ s = "REJECTED" /\ res[r].status = "PENDING_REVIEW"
         \/ s = "CONSUMED" /\ res[r].status \in Active
  PROVE  LET new == [res[r] EXCEPT !.status = s]
         IN  new \in Row /\ SameIdentity(res[r], new) /\ Becomes(res[r], new, stocked)
<1>1. res[r] \in Row /\ RowOK(res[r], stocked)
  BY DEF SerialInv, IInv, TypeOK, RowsOK
<1>2. PICK new : new = [res[r] EXCEPT !.status = s]
  OBVIOUS
<1>3. /\ new \in Row /\ SameIdentity(res[r], new)
      /\ new.status = s /\ new.reserved = res[r].reserved /\ new.returned = res[r].returned
  BY <1>1, <1>2 DEF Row, SameIdentity
<1>4. Becomes(res[r], new, stocked)
  BY <1>1, <1>3 DEF Becomes, RowOK, Story, SameIdentity, Active, Open, Terminal
<1>. QED
  BY <1>2, <1>3, <1>4
\* Loaded rows are saved with status s.
LEMMA WithStatusSaved ==
  ASSUME SerialInv, NEW q \in Requests, NEW s \in Status,
         SaveRows(q, WithStatus(q, s), req[q].seen),
         \A r \in req[q].seen : \/ s = "RETURN_PENDING" /\ res[r].status \in Active
                                \/ s = "REJECTED" /\ res[r].status = "PENDING_REVIEW"
  PROVE  /\ res' = [r \in Reservations |-> IF r \in req[q].seen
                                            THEN [res[r] EXCEPT !.status = s] ELSE res[r]]
         /\ \A r \in Reservations : Becomes(res[r], res'[r], stocked)
<1>1. req[q].seen \in SUBSET Reservations
  BY DEF SerialInv, IInv, TypeOK, Request
<1>2. ASSUME NEW r \in req[q].seen
      PROVE  WithStatus(q, s)[r] = [res[r] EXCEPT !.status = s]
  BY <1>1 DEF WithStatus, SerialInv, Current
<1>3. ASSUME NEW r \in req[q].seen
      PROVE  LET new == [res[r] EXCEPT !.status = s]
             IN  new \in Row /\ SameIdentity(res[r], new) /\ Becomes(res[r], new, stocked)
  BY <1>1, StatusBecomes
<1>4. PICK rows, S : rows = WithStatus(q, s) /\ S = req[q].seen
  OBVIOUS
<1>5. res' = [r \in Reservations |-> IF r \in S THEN rows[r] ELSE res[r]]
  <2>1. SaveRows(q, rows, S) /\ S \in SUBSET req[q].seen
    BY <1>4
  <2>2. \A r \in S : rows[r] \in Row /\ SameIdentity(res[r], rows[r])
    BY <1>2, <1>3, <1>4
  <2>. QED
    BY ONLY <2>1, <2>2, SaveRowsCurrent, SerialInv, q \in Requests
<1>6. res' = [r \in Reservations |-> IF r \in req[q].seen
                                     THEN [res[r] EXCEPT !.status = s] ELSE res[r]]
  BY <1>2, <1>4, <1>5
<1>7. \A r \in Reservations : Becomes(res[r], res'[r], stocked)
  BY <1>3, <1>6 DEF Becomes
<1>. QED
  BY <1>6, <1>7

\* What the handlers that only save a status do to the rows.
SavesStatus(q) ==
  \/ NeedSpareReject(q) \/ ReviewApprove(q) \/ RequestReturn(q)
  \/ CancelReservations(q) \/ ReleaseUnreviewed(q)

LEMMA SavesStatusExactly ==
  ASSUME SerialInv, NEW q \in Requests, SavesStatus(q)
  PROVE  \E s \in {"RETURN_PENDING", "REJECTED"} :
           /\ Finish(q) /\ UNCHANGED <<stockVars, nextId, jobStatus>>
           /\ SaveRows(q, WithStatus(q, s), req[q].seen)
           /\ \A r \in req[q].seen : \/ s = "RETURN_PENDING" /\ res[r].status \in Active
                                     \/ s = "REJECTED" /\ res[r].status = "PENDING_REVIEW"
<1>1. Current(req[q])
  BY DEF SerialInv
<1>2. ASSUME NeedSpareReject(q) \/ ReleaseUnreviewed(q)
      PROVE  /\ Finish(q) /\ UNCHANGED <<stockVars, nextId, jobStatus>>
             /\ SaveRows(q, WithStatus(q, "REJECTED"), req[q].seen)
             /\ \A r \in req[q].seen : res[r].status = "PENDING_REVIEW"
  BY <1>1, <1>2 DEF NeedSpareReject, ReleaseUnreviewed, SaveStatus, Current, Expected
<1>3. ASSUME ReviewApprove(q) \/ RequestReturn(q) \/ CancelReservations(q)
      PROVE  /\ Finish(q) /\ UNCHANGED <<stockVars, nextId, jobStatus>>
             /\ SaveRows(q, WithStatus(q, "RETURN_PENDING"), req[q].seen)
             /\ \A r \in req[q].seen : res[r].status \in Active
  BY <1>1, <1>3 DEF ReviewApprove, RequestReturn, CancelReservations, SaveStatus, Current, Expected
<1>. QED
  BY <1>2, <1>3 DEF SavesStatus

LEMMA SavesStatusCurrent ==
  ASSUME Serial, SerialInv, IInv', NEW q \in Requests, SavesStatus(q)
  PROVE  SerialInv' /\ TerminalKept
<1>1. PICK s \in {"RETURN_PENDING", "REJECTED"} :
           /\ Finish(q) /\ UNCHANGED <<stockVars, nextId, jobStatus>>
           /\ SaveRows(q, WithStatus(q, s), req[q].seen)
           /\ \A r \in req[q].seen : \/ s = "RETURN_PENDING" /\ res[r].status \in Active
                                     \/ s = "REJECTED" /\ res[r].status = "PENDING_REVIEW"
  BY SavesStatusExactly
<1>2. s \in Status
  BY DEF Status
<1>3. \A r \in Reservations : Becomes(res[r], res'[r], stocked)
  BY <1>1, <1>2, WithStatusSaved
<1>4. stocked' = stocked /\ jobStatus' = jobStatus
  BY <1>1 DEF stockVars
<1>. QED
  BY <1>1, <1>3, <1>4, FinishCurrent

LEMMA ReviewRejectSame ==
  ASSUME SerialInv, NEW q \in Requests, ReviewReject(q)
  PROVE  res' = res
<1>1. req[q] \in Request /\ Current(req[q])
  BY DEF SerialInv, IInv, TypeOK
<1>2. PICK S, rows : S = req[q].seen /\ rows = req[q].copy
  OBVIOUS
<1>3. \A r \in S : rows[r] \in Row /\ SameIdentity(res[r], rows[r])
  BY <1>1, <1>2 DEF Request, Current, SameIdentity
<1>4. res' = [r \in Reservations |-> IF r \in S THEN rows[r] ELSE res[r]]
  <2>1. SaveRows(q, rows, S) /\ S \in SUBSET req[q].seen
    BY <1>2 DEF ReviewReject
  <2>2. \A k \in S : rows[k] \in Row /\ SameIdentity(res[k], rows[k])
    BY <1>3
  <2>. QED
    BY ONLY <2>1, <2>2, SaveRowsCurrent, SerialInv, q \in Requests
<1>5. \A r \in S : rows[r] = res[r]
  BY <1>1, <1>2 DEF Current
<1>. QED
  BY <1>4, <1>5 DEF SerialInv, IInv, TypeOK

LEMMA ReviewRejectCurrent ==
  ASSUME Serial, SerialInv, IInv', NEW q \in Requests, ReviewReject(q)
  PROVE  SerialInv' /\ TerminalKept
BY ReviewRejectSame, FinishCurrent DEF ReviewReject, Becomes, stockVars

LEMMA MarkSaveExactly ==
  ASSUME SerialInv, NEW q \in Requests, MarkSave(q)
  PROVE  /\ SaveRows(q, WithStatus(q, "RETURN_PENDING"), req[q].seen)
         /\ \A r \in req[q].seen : res[r].status \in Active
         /\ UNCHANGED <<stockVars, nextId, jobStatus>>
<1>1. Current(req[q])
  BY DEF SerialInv
<1>. QED
  BY <1>1 DEF MarkSave, Current, Expected

LEMMA MarkSaveCurrent ==
  ASSUME Serial, SerialInv, IInv', NEW q \in Requests, MarkSave(q)
  PROVE  SerialInv' /\ TerminalKept
<1>1. req[q] \in Request /\ Current(req[q])
  BY DEF SerialInv, IInv, TypeOK
<1>2. "RETURN_PENDING" \in Status
  BY DEF Status
<1>3. /\ res' = [r \in Reservations |-> IF r \in req[q].seen
                                        THEN [res[r] EXCEPT !.status = "RETURN_PENDING"] ELSE res[r]]
      /\ \A r \in Reservations : Becomes(res[r], res'[r], stocked)
  BY <1>2, MarkSaveExactly, WithStatusSaved
<1>4. PICK x : x = [req[q] EXCEPT !.op = "confirmEach", !.copy = WithStatus(q, "RETURN_PENDING")]
  OBVIOUS
<1>5. /\ x.seen = req[q].seen /\ x.op = "confirmEach" /\ x.copy = WithStatus(q, "RETURN_PENDING")
      /\ req' = [req EXCEPT ![q] = x]
  BY <1>1, <1>4 DEF Request, MarkSave
<1>6. ASSUME NEW r \in x.seen
      PROVE  x.copy[r] = res'[r] /\ res'[r].status = "RETURN_PENDING"
  <2>1. r \in Reservations /\ r \in req[q].seen
    BY <1>1, <1>5 DEF Request
  <2>2. x.copy[r] = [res[r] EXCEPT !.status = "RETURN_PENDING"]
    BY <1>1, <1>5, <2>1 DEF WithStatus, Current
  <2>3. res[r] \in Row
    BY <2>1 DEF SerialInv, IInv, TypeOK
  <2>4. [res[r] EXCEPT !.status = "RETURN_PENDING"].status = "RETURN_PENDING"
    BY <2>3 DEF Row
  <2>. QED
    BY <1>3, <2>1, <2>2, <2>4
<1>7. Current(x)'
  BY <1>5, <1>6 DEF Current, Expected
<1>8. stocked' = stocked /\ jobStatus' = jobStatus
  BY DEF MarkSave, stockVars
<1>. QED
  BY <1>3, <1>5, <1>7, <1>8, BecomesOK, OnlyRequest
\* One loaded row is saved as new.
LEMMA SaveRowCurrent ==
  ASSUME SerialInv, NEW q \in Requests, NEW r \in req[q].seen, NEW new \in Row,
         SameIdentity(res[r], new),
         SaveRows(q, [req[q].copy EXCEPT ![r] = new], {r})
  PROVE  r \in Reservations /\ res' = [res EXCEPT ![r] = new]
<1>1. req[q] \in Request /\ res \in [Reservations -> Row]
  BY DEF SerialInv, IInv, TypeOK
<1>2. r \in Reservations /\ req[q].copy \in [Reservations -> Row]
  BY <1>1 DEF Request
<1>3. PICK rows, S : rows = [req[q].copy EXCEPT ![r] = new] /\ S = {r}
  OBVIOUS
<1>4. rows[r] = new /\ S \in SUBSET req[q].seen
  BY <1>2, <1>3
<1>5. SaveRows(q, rows, S) /\ \A k \in S : rows[k] \in Row /\ SameIdentity(res[k], rows[k])
  BY <1>3, <1>4
<1>6. res' = [k \in Reservations |-> IF k \in S THEN rows[k] ELSE res[k]]
  BY <1>4, <1>5, SaveRowsCurrent
<1>. QED
  BY <1>1, <1>2, <1>3, <1>4, <1>6

\* One row changes.
LEMMA RowBecomes ==
  ASSUME SerialInv, NEW r \in Reservations, NEW new, res' = [res EXCEPT ![r] = new],
         Becomes(res[r], new, stocked)
  PROVE  \A k \in Reservations : Becomes(res[k], res'[k], stocked)
BY DEF SerialInv, IInv, TypeOK, Becomes

\* What an approved Need Spare request does: row r becomes new, with got units.
Approves(r, got, new) ==
  /\ res[r].status = "PENDING_REVIEW" /\ res[r].part \in stocked
  /\ got = AtMost(res[r].requested, Available(res[r].part))
  /\ quantityReserved' = [quantityReserved EXCEPT ![res[r].part] = @ + got]
  /\ new = [res[r] EXCEPT !.reserved = got, !.status = ReservedStatus(got, res[r].requested)]
  /\ got <= res[r].requested
  /\ SameIdentity(res[r], new)
  /\ res' = [res EXCEPT ![r] = new]

LEMMA ApproveRow ==
  ASSUME SerialInv, NEW q \in Requests, NEW r \in Reservations, NeedSpareApprove(q, r)
  PROVE  \E got \in Nat, new \in Row : Approves(r, got, new)
<1>1. r \in req[q].seen /\ req[q].copy[r] = res[r] /\ res[r].status = "PENDING_REVIEW"
  BY DEF NeedSpareApprove, SerialInv, Current, Expected
<1>2. IInv /\ res[r] \in Row
  BY DEF SerialInv, IInv, TypeOK
<1>3. res[r].part \in Parts /\ res[r].requested \in Nat
  BY <1>2 DEF Row
<1>4. PICK got : got = AtMost(res[r].requested, Available(res[r].part))
  OBVIOUS
<1>5. got \in Nat /\ got <= res[r].requested
  BY <1>2, <1>3, <1>4, AvailableFacts, AtMostFacts DEF IInv
<1>6. PICK new : new = [res[r] EXCEPT !.reserved = got,
                                      !.status = ReservedStatus(got, res[r].requested)]
  OBVIOUS
<1>7. new \in Row /\ SameIdentity(res[r], new)
  BY <1>2, <1>5, <1>6 DEF Row, Status, ReservedStatus, SameIdentity
<1>8. SaveRows(q, [req[q].copy EXCEPT ![r] = new], {r})
  BY <1>1, <1>4, <1>6 DEF NeedSpareApprove
<1>9. res' = [res EXCEPT ![r] = new]
  BY <1>1, <1>7, <1>8, SaveRowCurrent
<1>10. /\ quantityReserved' = [quantityReserved EXCEPT ![res[r].part] = @ + got]
       /\ res[r].part \in stocked
  BY <1>1, <1>4 DEF NeedSpareApprove
<1>. QED
  BY <1>1, <1>4, <1>5, <1>6, <1>7, <1>9, <1>10 DEF Approves

LEMMA ApproveCurrent ==
  ASSUME Serial, SerialInv, IInv', NEW q \in Requests, NEW r \in Reservations,
         NeedSpareApprove(q, r)
  PROVE  SerialInv' /\ TerminalKept
<1>0. PICK got \in Nat, new \in Row : Approves(r, got, new)
  BY ApproveRow
<1>1. /\ res[r].status = "PENDING_REVIEW" /\ res[r].part \in stocked
      /\ new = [res[r] EXCEPT !.reserved = got, !.status = ReservedStatus(got, res[r].requested)]
      /\ got <= res[r].requested
      /\ SameIdentity(res[r], new)
      /\ res' = [res EXCEPT ![r] = new]
  BY <1>0 DEF Approves
<1>2. res[r] \in Row /\ RowOK(res[r], stocked)
  BY DEF SerialInv, IInv, TypeOK, RowsOK
<1>3. /\ new.status = ReservedStatus(got, res[r].requested) /\ new.reserved = got
      /\ new.returned = res[r].returned
      /\ new.part = res[r].part /\ new.job = res[r].job /\ new.requested = res[r].requested
  BY <1>1, <1>2 DEF Row, SameIdentity
<1>4. res[r].requested \in Nat /\ res[r].returned = 0 /\ res[r].job \in OnSiteJobs
  BY <1>1, <1>2 DEF Row, RowOK, Story
<1>5. RowOK(new, stocked)
  BY <1>1, <1>3, <1>4 DEF RowOK, Story, ReservedStatus
<1>6. Becomes(res[r], new, stocked)
  BY <1>1, <1>3, <1>4, <1>5 DEF Becomes, Terminal, Open
<1>7. \A k \in Reservations : Becomes(res[k], res'[k], stocked)
  BY <1>1, <1>6, RowBecomes
<1>8. stocked' = stocked /\ jobStatus' = jobStatus /\ Finish(q)
  BY DEF NeedSpareApprove
<1>. QED
  BY <1>7, <1>8, FinishCurrent

LEMMA ReleaseRow ==
  ASSUME SerialInv, NEW q \in Requests, NEW r \in Reservations, ReleaseReservation(q, r)
  PROVE  \E new \in Row :
           /\ res[r].status \in Active
           /\ quantityReserved' = [quantityReserved EXCEPT
                                     ![res[r].part] = Minus(@, res[r].reserved)]
           /\ new = [res[r] EXCEPT !.status = "RETURN_PENDING"]
           /\ res' = [res EXCEPT ![r] = new]
           /\ Becomes(res[r], new, stocked)
<1>1. r \in req[q].seen /\ req[q].copy[r] = res[r] /\ res[r].status \in Active
  BY DEF ReleaseReservation, SerialInv, Current
<1>2. PICK new : new = [res[r] EXCEPT !.status = "RETURN_PENDING"]
  OBVIOUS
<1>3. new \in Row /\ SameIdentity(res[r], new) /\ Becomes(res[r], new, stocked)
  BY <1>1, <1>2, StatusBecomes DEF Status
<1>4. SaveRows(q, [req[q].copy EXCEPT ![r] = new], {r})
  BY <1>1, <1>2 DEF ReleaseReservation
<1>5. res' = [res EXCEPT ![r] = new]
  BY <1>1, <1>3, <1>4, SaveRowCurrent
<1>. QED
  BY <1>1, <1>2, <1>3, <1>5 DEF ReleaseReservation

LEMMA ReleaseCurrent ==
  ASSUME Serial, SerialInv, IInv', NEW q \in Requests, NEW r \in Reservations,
         ReleaseReservation(q, r)
  PROVE  SerialInv' /\ TerminalKept
<1>1. \A k \in Reservations : Becomes(res[k], res'[k], stocked)
  BY ReleaseRow, RowBecomes
<1>. QED
  BY <1>1, FinishCurrent DEF ReleaseReservation

\* What a confirmed return does: row r becomes new, n units are back on the shelf.
Confirms(q, r, n, new) ==
  /\ n = req[q].qty /\ n <= res[r].reserved
  /\ r \in req[q].seen /\ req[q].copy[r] = res[r]
  /\ res[r].status = "RETURN_PENDING" /\ res[r].part \in stocked
  /\ onHand' = [onHand EXCEPT ![res[r].part] = @ + n]
  /\ quantityReserved' = [quantityReserved EXCEPT ![res[r].part] = Minus(@, res[r].reserved)]
  /\ new = [res[r] EXCEPT !.status = "RETURNED", !.returned = n]
  /\ SameIdentity(res[r], new)
  /\ res' = [res EXCEPT ![r] = new]

LEMMA ConfirmRow ==
  ASSUME SerialInv, NEW q \in Requests, NEW r \in Reservations, ConfirmReturn(q, r)
  PROVE  \E n \in Nat, new \in Row : Confirms(q, r, n, new)
<1>1. req[q] \in Request /\ Current(req[q])
  BY DEF SerialInv, IInv, TypeOK
<1>2. r \in req[q].seen /\ req[q].copy[r] = res[r] /\ res[r].status = "RETURN_PENDING"
  BY <1>1 DEF ConfirmReturn, Current, Expected
<1>3. res[r] \in Row /\ RowOK(res[r], stocked)
  BY DEF SerialInv, IInv, TypeOK, RowsOK
<1>4. res[r].part \in stocked
  BY <1>2, <1>3 DEF RowOK
<1>5. PICK n \in Nat : n = req[q].qty
  BY <1>1 DEF Request
<1>6. n <= res[r].reserved
  BY <1>1, <1>5 DEF ConfirmReturn, Current
<1>7. PICK new : new = [res[r] EXCEPT !.status = "RETURNED", !.returned = n]
  OBVIOUS
<1>8. new \in Row /\ SameIdentity(res[r], new)
  BY <1>3, <1>7 DEF Row, Status, SameIdentity
<1>9. SaveRows(q, [req[q].copy EXCEPT ![r] = new], {r})
  BY <1>2, <1>5, <1>7 DEF ConfirmReturn, ReturnedRow
<1>10. res' = [res EXCEPT ![r] = new]
  BY <1>2, <1>8, <1>9, SaveRowCurrent
<1>11. /\ onHand' = [onHand EXCEPT ![res[r].part] = @ + n]
       /\ quantityReserved' = [quantityReserved EXCEPT ![res[r].part] = Minus(@, res[r].reserved)]
  BY <1>2, <1>4, <1>5 DEF ConfirmReturn
<1>. QED
  BY <1>2, <1>4, <1>5, <1>6, <1>7, <1>8, <1>10, <1>11 DEF Confirms

LEMMA ConfirmCurrent ==
  ASSUME Serial, SerialInv, IInv', NEW q \in Requests, NEW r \in Reservations,
         ConfirmReturn(q, r)
  PROVE  SerialInv' /\ TerminalKept
<1>1. PICK n \in Nat, new \in Row : Confirms(q, r, n, new)
  BY ConfirmRow
<1>2. res[r] \in Row /\ RowOK(res[r], stocked)
  BY DEF SerialInv, IInv, TypeOK, RowsOK
<1>3. new.status = "RETURNED" /\ new.returned = n /\ new.reserved = res[r].reserved
  BY <1>1, <1>2 DEF Row, Confirms
<1>4. Becomes(res[r], new, stocked)
  BY <1>1, <1>2, <1>3 DEF Confirms, Becomes, RowOK, Story, SameIdentity, Open, Active, Terminal
<1>5. \A k \in Reservations : Becomes(res[k], res'[k], stocked)
  BY <1>1, <1>4, RowBecomes DEF Confirms
<1>6. stocked' = stocked /\ jobStatus' = jobStatus
  BY DEF ConfirmReturn
<1>. DEFINE rest == req[q].seen \ {r}
<1>7. CASE rest = {}
  <2>1. Finish(q)
    BY <1>7 DEF ConfirmReturn, Finish
  <2>. QED
    BY <1>5, <1>6, <2>1, FinishCurrent
<1>8. CASE rest # {}
  <2>1. PICK x : x = [req[q] EXCEPT !.op = "confirmEach", !.seen = rest, !.at = 0,
                                    !.qty = 0, !.copy[r] = NoRow]
    OBVIOUS
  <2>2. req' = [req EXCEPT ![q] = x]
    BY <1>8, <2>1 DEF ConfirmReturn
  <2>3. req[q] \in Request /\ Current(req[q]) /\ req[q].op = "confirm"
    BY DEF SerialInv, IInv, TypeOK, ConfirmReturn
  <2>4. /\ x.op = "confirmEach" /\ x.seen = rest
        /\ \A k \in rest : x.copy[k] = req[q].copy[k]
    BY <2>1, <2>3 DEF Request
  <2>5. ASSUME NEW k \in rest
        PROVE  x.copy[k] = res'[k] /\ res'[k].status = "RETURN_PENDING"
    <3>1. k \in Reservations /\ k # r
      BY <2>3 DEF Request
    <3>2. res'[k] = res[k]
      BY <1>1, <3>1 DEF Confirms, SerialInv, IInv, TypeOK
    <3>. QED
      BY <2>3, <2>4, <3>2 DEF Current, Expected
  <2>6. Current(x)'
    BY <2>4, <2>5 DEF Current, Expected
  <2>. QED
    BY <1>5, <1>6, <2>2, <2>6, BecomesOK, OnlyRequest
<1>. QED
  BY <1>7, <1>8

\* What an insertion does to the table.
Inserts(q, n, got, row) ==
  /\ row.status \in {"PENDING_REVIEW", ReservedStatus(got, n)}
  /\ row.job = req[q].job /\ row.requested = n /\ row.reserved = got /\ row.returned = 0
  /\ got <= n
  /\ nextId \in Reservations /\ res[nextId] = NoRow
  /\ res' = [res EXCEPT ![nextId] = row]

LEMMA InsertsBecomes ==
  ASSUME SerialInv, NEW q \in Requests, NEW n \in Nat, NEW got \in Nat, NEW row \in Row,
         Inserts(q, n, got, row),
         jobStatus[row.job] # "QC_PASSED",
         \/ row.status = ReservedStatus(got, n) /\ row.part \in stocked
         \/ row.status = "PENDING_REVIEW" /\ got = 0 /\ row.job \in OnSiteJobs
  PROVE  \A k \in Reservations : Becomes(res[k], res'[k], stocked)
<1>1. res[nextId].status = "NONE" /\ res[nextId].reserved = 0 /\ res[nextId].requested = 0
  BY DEF Inserts, NoRow
<1>2. RowOK(row, stocked)
  BY DEF Inserts, RowOK, Story, ReservedStatus
<1>3. Becomes(res[nextId], row, stocked)
  BY <1>1, <1>2 DEF Becomes, Terminal
<1>. QED
  BY <1>3, RowBecomes DEF Inserts

\* What reserve() does: a row with got of the n units asked for.
Reserves(q, p, n, got, row) ==
  /\ Inserts(q, n, got, row)
  /\ row.status = ReservedStatus(got, n) /\ row.part = p
  /\ p \in stocked /\ got = AtMost(n, Available(p))
  /\ quantityReserved' = [quantityReserved EXCEPT ![p] = @ + got]

LEMMA ReserveRow ==
  ASSUME SerialInv, NEW q \in Requests, NEW p \in Parts, NEW n \in Nat, Reserve(q, p, n)
  PROVE  \E got \in Nat, row \in Row : Reserves(q, p, n, got, row)
<1>1. IInv /\ req[q].job \in Jobs
  BY DEF SerialInv, IInv, TypeOK, Request
<1>2. PICK got : got = AtMost(n, Available(p))
  OBVIOUS
<1>3. got \in Nat /\ got <= n
  BY <1>1, <1>2, AvailableFacts, AtMostFacts DEF IInv
<1>4. PICK row : row = [status |-> ReservedStatus(got, n), part |-> p, job |-> req[q].job,
                        requested |-> n, reserved |-> got, returned |-> 0]
  OBVIOUS
<1>5. row \in Row
  BY <1>1, <1>3, <1>4 DEF Row, Status, ReservedStatus
<1>6. res[nextId] = NoRow /\ nextId \in Reservations
  BY <1>1 DEF Reserve, InsertRow, IInv, FreshRows, TypeOK
<1>7. res' = [res EXCEPT ![nextId] = row]
  BY <1>2, <1>4 DEF Reserve, InsertRow
<1>8. Inserts(q, n, got, row)
  BY <1>3, <1>4, <1>6, <1>7 DEF Inserts
<1>. QED
  BY <1>2, <1>3, <1>4, <1>5, <1>8 DEF Reserves, Reserve

LEMMA ReserveCurrent ==
  ASSUME Serial, SerialInv, IInv', NEW q \in Requests, NEW p \in Parts, NEW n \in Nat,
         Reserve(q, p, n)
  PROVE  SerialInv' /\ TerminalKept
<1>1. PICK got \in Nat, row \in Row : Reserves(q, p, n, got, row)
  BY ReserveRow
<1>2. req[q] \in Request /\ Current(req[q]) /\ req[q].op \in {"requestSpare", "topUp"}
  BY DEF SerialInv, IInv, TypeOK, Reserve
<1>3. req[q].job \notin OnSiteJobs /\ jobStatus[req[q].job] # "QC_PASSED" /\ req[q].seen = {}
  BY <1>2 DEF Current, Expected
<1>4. \A k \in Reservations : Becomes(res[k], res'[k], stocked)
  BY <1>1, <1>3, InsertsBecomes DEF Reserves, Inserts
<1>5. stocked' = stocked /\ jobStatus' = jobStatus
  BY DEF Reserve
<1>6. req' = [req EXCEPT ![q] = AfterReserve(req[q], ReservedStatus(got, n))]
  BY <1>1 DEF Reserve, Reserves
<1>7. CASE req[q].op = "topUp"
  <2>1. Finish(q)
    BY <1>6, <1>7 DEF AfterReserve, Finish
  <2>. QED
    BY <1>4, <1>5, <2>1, FinishCurrent
<1>8. CASE req[q].op # "topUp"
  <2>1. PICK next : next = IF ReservedStatus(got, n) = "HELD" THEN "spareHeld" ELSE "spareShort"
    OBVIOUS
  <2>2. PICK x : x = [req[q] EXCEPT !.op = next]
    OBVIOUS
  <2>3. x.op = next /\ x.job = req[q].job /\ x.seen = {}
    BY <1>2, <1>3, <2>2 DEF Request
  <2>4. req' = [req EXCEPT ![q] = x]
    BY <1>6, <1>8, <2>1, <2>2 DEF AfterReserve
  <2>5. next = "spareShort" => CameShort(x.job)'
    <3>. SUFFICES ASSUME next = "spareShort" PROVE CameShort(x.job)'
      OBVIOUS
    <3>1. got < n
      BY <2>1 DEF ReservedStatus
    <3>2. res'[nextId] = row /\ nextId \in Reservations
      BY <1>1 DEF Reserves, Inserts, SerialInv, IInv, TypeOK
    <3>. QED
      BY <1>1, <2>3, <3>1, <3>2 DEF Reserves, Inserts, CameShort
  <2>6. Current(x)'
    BY <1>3, <2>1, <2>3, <2>5 DEF Current
  <2>. QED
    BY <1>4, <1>5, <2>4, <2>6, BecomesOK, OnlyRequest
<1>. QED
  BY <1>7, <1>8

LEMMA NeedSpareRow ==
  ASSUME SerialInv, NEW q \in Requests, NEW p \in Parts, NEW n \in Nat,
         RequestNeedSpare(q, p, n)
  PROVE  \E row \in Row : Inserts(q, n, 0, row) /\ row.status = "PENDING_REVIEW"
<1>1. IInv /\ req[q].job \in Jobs
  BY DEF SerialInv, IInv, TypeOK, Request
<1>2. PICK row : row = [status |-> "PENDING_REVIEW", part |-> p, job |-> req[q].job,
                        requested |-> n, reserved |-> 0, returned |-> 0]
  OBVIOUS
<1>3. row \in Row
  BY <1>1, <1>2 DEF Row, Status
<1>4. res[nextId] = NoRow /\ nextId \in Reservations
  BY <1>1 DEF RequestNeedSpare, InsertRow, IInv, FreshRows, TypeOK
<1>5. res' = [res EXCEPT ![nextId] = row]
  BY <1>2 DEF RequestNeedSpare, InsertRow
<1>6. Inserts(q, n, 0, row)
  BY <1>2, <1>4, <1>5 DEF Inserts
<1>. QED
  BY <1>2, <1>3, <1>6

LEMMA NeedSpareCurrent ==
  ASSUME Serial, SerialInv, IInv', NEW q \in Requests, NEW p \in Parts, NEW n \in Nat,
         RequestNeedSpare(q, p, n)
  PROVE  SerialInv' /\ TerminalKept
<1>1. PICK row \in Row : Inserts(q, n, 0, row) /\ row.status = "PENDING_REVIEW"
  BY NeedSpareRow
<1>2. req[q].job \in OnSiteJobs /\ jobStatus[req[q].job] # "QC_PASSED"
  BY DEF SerialInv, Current, RequestNeedSpare
<1>3. row.job = req[q].job
  BY <1>1 DEF Inserts
<1>4. \A k \in Reservations : Becomes(res[k], res'[k], stocked)
  BY <1>1, <1>2, <1>3, InsertsBecomes
<1>. QED
  BY <1>4, FinishCurrent DEF RequestNeedSpare, stockVars

-----------------------------------------------------------------------------
(* QC approval. *)

\* What an approval makes of an open row.
Settled(row) == [row EXCEPT !.status = IF row.status \in Active THEN "CONSUMED" ELSE "REJECTED"]

LEMMA QcApproveRows ==
  ASSUME SerialInv, NEW q \in Requests, QcApprove(q)
  PROVE  /\ req[q].seen = OpenRows(req[q].job)
         /\ ActiveOf(q) = {r \in OpenRows(req[q].job) : res[r].status \in Active}
         /\ res' = [r \in Reservations |->
                      IF r \in OpenRows(req[q].job) THEN Settled(res[r]) ELSE res[r]]
<1>1. req[q] \in Request /\ Current(req[q]) /\ req[q].op = "qcApprove"
  BY DEF SerialInv, IInv, TypeOK, QcApprove
<1>2. /\ req[q].seen = OpenRows(req[q].job)
      /\ \A r \in req[q].seen : r \in Reservations /\ req[q].copy[r] = res[r]
  BY <1>1 DEF Current, Request
<1>3. ActiveOf(q) = {r \in OpenRows(req[q].job) : res[r].status \in Active}
  BY <1>2 DEF ActiveOf
<1>4. PICK kept :
        res' = [r \in Reservations |->
                  IF r \in ActiveOf(q)
                  THEN Merge(res[r], req[q].copy[r], QcRow(req[q].copy[r]), KeptOf(kept, r))
                  ELSE IF r \in RejectUnreviewed(q)
                       THEN [res[r] EXCEPT !.status = "REJECTED"]
                       ELSE res[r]]
  BY DEF QcApprove
<1>5. ASSUME NEW r \in Reservations
      PROVE  res'[r] = IF r \in OpenRows(req[q].job) THEN Settled(res[r]) ELSE res[r]
  <2>1. CASE r \in ActiveOf(q)
    <3>1. req[q].copy[r] = res[r] /\ res[r].status \in Active /\ r \in OpenRows(req[q].job)
      BY <1>2, <1>3, <2>1
    <3>2. res[r] \in Row
      BY DEF SerialInv, IInv, TypeOK
    <3>3. PICK new : new = QcRow(res[r])
      OBVIOUS
    <3>4. new \in Row /\ SameIdentity(res[r], new)
      BY <3>2, <3>3 DEF QcRow, Row, Status, SameIdentity
    <3>5. Merge(res[r], res[r], new, KeptOf(kept, r)) = new
      BY <3>2, <3>4, MergeCurrent DEF SameIdentity
    <3>6. res'[r] = new
      BY <1>4, <2>1, <3>1, <3>3, <3>5
    <3>7. new = Settled(res[r])
      BY <3>1, <3>3 DEF QcRow, Settled
    <3>. QED
      BY <3>1, <3>6, <3>7
  <2>2. CASE r \in OpenRows(req[q].job) \ ActiveOf(q)
    <3>1. res[r].status = "PENDING_REVIEW"
      BY <1>3, <2>2 DEF OpenRows
    <3>2. r \in RejectUnreviewed(q)
      BY <1>2, <2>2, <3>1 DEF RejectUnreviewed
    <3>. QED
      BY <1>4, <2>2, <3>1, <3>2 DEF Settled, Active
  <2>3. CASE r \notin OpenRows(req[q].job)
    <3>1. r \notin ActiveOf(q) /\ r \notin RejectUnreviewed(q)
      BY <1>2, <1>3, <2>3 DEF RejectUnreviewed
    <3>. QED
      BY <1>4, <2>3, <3>1
  <2>. QED
    BY <2>1, <2>2, <2>3
<1>. QED
  BY <1>2, <1>3, <1>4, <1>5

LEMMA QcApproveCurrent ==
  ASSUME Serial, SerialInv, IInv', NEW q \in Requests, QcApprove(q)
  PROVE  SerialInv' /\ TerminalKept
<1>. DEFINE j == req[q].job
<1>1. j \in Jobs /\ jobStatus' = [jobStatus EXCEPT ![j] = "QC_PASSED"]
      /\ stocked' = stocked /\ Finish(q)
  BY DEF QcApprove, SerialInv, IInv, TypeOK, Request
<1>2. res' = [r \in Reservations |-> IF r \in OpenRows(j) THEN Settled(res[r]) ELSE res[r]]
  BY QcApproveRows
<1>. HIDE DEF j
<1>3. ASSUME NEW r \in Reservations, r \in OpenRows(j)
      PROVE  /\ Becomes(res[r], res'[r], stocked)
             /\ res'[r].status \notin Open /\ SameIdentity(res[r], res'[r])
             /\ res'[r].reserved = res[r].reserved
             /\ res[r].status \notin Terminal
  <2>1. PICK s : s = IF res[r].status \in Active THEN "CONSUMED" ELSE "REJECTED"
    OBVIOUS
  <2>2. /\ s \in Status
        /\ \/ s = "CONSUMED" /\ res[r].status \in Active
           \/ s = "REJECTED" /\ res[r].status = "PENDING_REVIEW"
    BY <1>3, <2>1 DEF Status, OpenRows
  <2>3. PICK new : new = [res[r] EXCEPT !.status = s]
    OBVIOUS
  <2>4. Becomes(res[r], new, stocked) /\ SameIdentity(res[r], new)
    BY <2>2, <2>3, StatusBecomes
  <2>5. res[r] \in Row
    BY DEF SerialInv, IInv, TypeOK
  <2>6. new.status = s /\ new.reserved = res[r].reserved
    BY <2>3, <2>5 DEF Row
  <2>7. res'[r] = new
    BY <1>2, <1>3, <2>1, <2>3 DEF Settled
  <2>. QED
    BY <2>2, <2>4, <2>6, <2>7 DEF Open, Active, Terminal
<1>4. \A r \in Reservations : r \notin OpenRows(j) => res'[r] = res[r]
  BY <1>2
<1>5. jobStatus'[j] = "QC_PASSED" /\ \A k \in Jobs \ {j} : jobStatus'[k] = jobStatus[k]
  BY <1>1 DEF SerialInv, IInv, TypeOK
<1>6. \A r \in Reservations : res[r].job \in Jobs /\ res'[r].job = res[r].job
  BY <1>3, <1>4 DEF SerialInv, IInv, TypeOK, Row, SameIdentity
<1>7. RowsOK'
  BY <1>1, <1>3, <1>4 DEF SerialInv, RowsOK, Becomes
<1>8. TerminalKept
  BY <1>3, <1>4 DEF TerminalKept
<1>9. PassedJobsAreSettled'
  <2>. SUFFICES ASSUME NEW r \in Reservations, jobStatus'[res'[r].job] = "QC_PASSED"
                PROVE  res'[r].status \notin Open
    BY DEF PassedJobsAreSettled, Open
  <2>1. CASE r \in OpenRows(j)
    BY <1>3, <2>1
  <2>2. CASE r \notin OpenRows(j) /\ res[r].job = j
    BY <1>4, <2>2 DEF OpenRows, Open
  <2>3. CASE r \notin OpenRows(j) /\ res[r].job # j
    BY <1>4, <1>5, <1>6, <2>3 DEF SerialInv, PassedJobsAreSettled, Open
  <2>. QED
    BY <2>1, <2>2, <2>3
<1>10. WaitingOK'
  <2>. SUFFICES ASSUME NEW k \in Jobs, jobStatus'[k] = "SPARE_PENDING"
                PROVE  k \notin OnSiteJobs /\ CameShort(k)'
    BY DEF WaitingOK
  <2>1. jobStatus[k] = "SPARE_PENDING"
    BY <1>5
  <2>2. k \notin OnSiteJobs /\ CameShort(k)
    BY <2>1 DEF SerialInv, WaitingOK
  <2>3. PICK r \in Reservations : res[r].job = k /\ res[r].reserved < res[r].requested
    BY <2>2 DEF CameShort
  <2>4. res'[r].job = k /\ res'[r].reserved < res'[r].requested
    BY <1>3, <1>4, <2>3 DEF SameIdentity
  <2>. QED
    BY <2>2, <2>4 DEF CameShort
<1>. QED
  BY <1>1, <1>7, <1>8, <1>9, <1>10, IdleIsCurrent, OnlyRequest DEF Finish
-----------------------------------------------------------------------------
(* The other reads. *)

LEMMA ConfirmReadsCurrent ==
  ASSUME Serial, SerialInv, IInv', NEW q \in Requests, NEW r \in Reservations, NEW n \in Nat,
         ConfirmReturnRead(q, r, n) \/ ConfirmEachRead(q, r)
  PROVE  SerialInv' /\ TerminalKept
<1>1. req[q] \in Request /\ Current(req[q])
  BY DEF SerialInv, IInv, TypeOK
<1>2. CASE ConfirmReturnRead(q, r, n)
  <2>1. PICK x : x = [op |-> "confirm", job |-> res[r].job, seen |-> {r}, at |-> r, qty |-> n,
                      copy |-> [NoCopy EXCEPT ![r] = res[r]]]
    OBVIOUS
  <2>2. x.copy[r] = res[r]
    BY <2>1 DEF NoCopy
  <2>3. Current(x)
    BY <1>2, <2>1, <2>2 DEF ConfirmReturnRead, Current, Expected
  <2>. QED
    BY <1>2, <2>1, <2>3, QuietOK DEF ConfirmReturnRead
<1>3. CASE ConfirmEachRead(q, r)
  <2>1. PICK x : x = [req[q] EXCEPT !.op = "confirm", !.at = r, !.qty = req[q].copy[r].reserved,
                                    !.copy[r] = res[r]]
    OBVIOUS
  <2>2. r \in req[q].seen /\ req[q].op = "confirmEach" /\ req[q].copy[r] = res[r]
    BY <1>1, <1>3 DEF ConfirmEachRead, Current
  <2>3. /\ x.op = "confirm" /\ x.at = r /\ x.qty = res[r].reserved /\ x.seen = req[q].seen
        /\ \A k \in x.seen : x.copy[k] = req[q].copy[k]
    BY <1>1, <2>1, <2>2 DEF Request
  <2>4. res[r].reserved \in Nat
    BY DEF SerialInv, IInv, TypeOK, Row
  <2>5. Current(x)
    BY <1>1, <2>2, <2>3, <2>4 DEF Current, Expected
  <2>. QED
    BY <1>3, <2>1, <2>5, QuietOK DEF ConfirmEachRead
<1>. QED
  BY <1>2, <1>3

LEMMA ListsCurrent ==
  ASSUME Serial, SerialInv, IInv', NEW q \in Requests, NEW j \in Jobs,
         ConfirmAllRead(q, j) \/ CancelReservationsRead(q) \/ QcApproveRead(q, j)
  PROVE  SerialInv' /\ TerminalKept
<1>1. ConfirmAllRead(q, j) => SerialInv' /\ TerminalKept
  <2>. SUFFICES ASSUME ConfirmAllRead(q, j) PROVE SerialInv' /\ TerminalKept
    OBVIOUS
  <2>1. PICK S \in SUBSET Reservations :
          S = {r \in Reservations : res[r].status = "RETURN_PENDING" /\ res[r].job = j}
    OBVIOUS
  <2>2. Load(q, "confirmEach", j, S) /\ UNCHANGED <<stockVars, tableVars, jobStatus>>
    BY <2>1 DEF ConfirmAllRead
  <2>3. "confirmEach" \in Ops /\ \A r \in S : res[r].status \in Expected("confirmEach")
    BY <2>1 DEF Ops, Expected
  <2>. QED
    BY <2>2, <2>3, LoadCurrent
<1>2. CancelReservationsRead(q) => SerialInv' /\ TerminalKept
  <2>. SUFFICES ASSUME CancelReservationsRead(q) PROVE SerialInv' /\ TerminalKept
    OBVIOUS
  <2>1. PICK S \in SUBSET Reservations :
          S = {r \in Reservations : res[r].job = req[q].job /\ res[r].status \in Active}
    OBVIOUS
  <2>2. req[q].job \in Jobs
    BY DEF SerialInv, IInv, TypeOK, Request
  <2>3. /\ Load(q, "cancelReservations", req[q].job, S)
        /\ UNCHANGED <<stockVars, tableVars, jobStatus>>
    BY <2>1 DEF CancelReservationsRead
  <2>4. /\ "cancelReservations" \in Ops
        /\ \A r \in S : res[r].status \in Expected("cancelReservations")
    BY <2>1 DEF Ops, Expected
  <2>. QED
    BY <2>2, <2>3, <2>4, LoadCurrent
<1>3. QcApproveRead(q, j) => SerialInv' /\ TerminalKept
  <2>. SUFFICES ASSUME QcApproveRead(q, j) PROVE SerialInv' /\ TerminalKept
    OBVIOUS
  <2>1. PICK S \in SUBSET Reservations : S = OpenRows(j)
    BY DEF OpenRows
  <2>2. Load(q, "qcApprove", j, S) /\ UNCHANGED <<stockVars, tableVars, jobStatus>>
    BY <2>1 DEF QcApproveRead
  <2>3. "qcApprove" \in Ops /\ \A r \in S : res[r].status \in Expected("qcApprove")
    BY <2>1 DEF Ops, Expected, OpenRows, Open
  <2>. QED
    BY <2>1, <2>2, <2>3, LoadCurrent
<1>. QED
  BY <1>1, <1>2, <1>3

LEMMA AbandonCurrent ==
  ASSUME Serial, SerialInv, IInv', NEW q \in Requests, Abandon(q)
  PROVE  SerialInv' /\ TerminalKept
BY QuietOK, IdleIsCurrent DEF Abandon, Finish

LEMMA GrnCurrent ==
  ASSUME SerialInv, IInv', NEW p \in Parts, NEW n \in Nat, Grn(p, n)
  PROVE  SerialInv' /\ TerminalKept
<1>1. UNCHANGED <<tableVars, jobStatus, req>> /\ stocked \subseteq stocked'
  BY DEF Grn
<1>2. RowsOK' /\ PassedJobsAreSettled' /\ WaitingOK' /\ TerminalKept
  BY <1>1 DEF SerialInv, RowsOK, RowOK, Story, PassedJobsAreSettled, WaitingOK, CameShort,
              TerminalKept, tableVars
<1>3. \A q \in Requests : Current(req[q])'
  BY <1>1 DEF SerialInv, Current, CameShort, OpenRows, tableVars
<1>. QED
  BY <1>2, <1>3 DEF SerialInv

LEMMA SerialInit == Init => SerialInv
<1>. SUFFICES ASSUME Init PROVE SerialInv
  OBVIOUS
<1>1. IInv
  BY InitOK
<1>2. \A r \in Reservations : res[r] = NoRow
  BY DEF Init, NoCopy
<1>3. RowsOK
  BY <1>2 DEF RowsOK, RowOK, Story, NoRow
<1>4. PassedJobsAreSettled
  BY <1>2 DEF PassedJobsAreSettled, NoRow, Active
<1>5. WaitingOK
  BY DEF WaitingOK, Init
<1>6. \A q \in Requests : Current(req[q])
  BY IdleIsCurrent DEF Init
<1>. QED
  BY <1>1, <1>3, <1>4, <1>5, <1>6 DEF SerialInv

LEMMA SerialRequestStep ==
  ASSUME Serial, SerialInv, IInv', NEW q \in Requests, RequestStep(q)
  PROVE  SerialInv' /\ TerminalKept
<1>1. ASSUME NEW j \in Jobs, RequestSpareRead(q, j) \/ TopUpRead(q, j) \/ NeedSpareRead(q, j)
      PROVE  SerialInv' /\ TerminalKept
  <2>1. {"requestSpare", "topUp", "needSpare"} \subseteq Ops
    BY DEF Ops
  <2>. QED
    BY <1>1, <2>1, ReadJobCurrent DEF RequestSpareRead, TopUpRead, NeedSpareRead
<1>2. Quantities \subseteq Nat
  BY QuantitiesAssumption
<1>. QED
  BY <1>1, <1>2, ListsCurrent, ReserveCurrent, NeedSpareCurrent DEF RequestStep

LEMMA SerialReservationStep ==
  ASSUME Serial, SerialInv, IInv', NEW q \in Requests, ReservationStep(q)
  PROVE  SerialInv' /\ TerminalKept
<1>1. ASSUME NEW r \in Reservations,
             \/ NeedSpareReviewRead(q, r) \/ ReviewRead(q, r) \/ RequestReturnRead(q, r)
             \/ MarkRead(q, r) \/ MarkReturnPending(q, r) \/ ReleaseRead(q, r)
      PROVE  SerialInv' /\ TerminalKept
  <2>1. PICK op \in Ops :
          /\ ReadRow(q, op, r, Expected(op))
          /\ op \in {"needSpareReview", "review", "requestReturn", "mark", "confirmEach",
                     "release"}
    BY <1>1
    DEF NeedSpareReviewRead, ReviewRead, RequestReturnRead, MarkRead, MarkReturnPending,
        ReleaseRead, Ops, Expected, Open
  <2>. QED
    BY <2>1, ReadRowCurrent
<1>2. Quantities \subseteq Nat /\ 0 \in Nat
  BY QuantitiesAssumption
<1>3. ASSUME NEW r \in Reservations, ConfirmEachRead(q, r)
      PROVE  SerialInv' /\ TerminalKept
  BY <1>2, <1>3, ConfirmReadsCurrent
<1>4. ASSUME NEW r \in Reservations, NEW n \in Quantities, ConfirmReturnRead(q, r, n)
      PROVE  SerialInv' /\ TerminalKept
  BY <1>2, <1>4, ConfirmReadsCurrent
<1>5. ASSUME \/ NeedSpareReject(q) \/ ReviewApprove(q) \/ RequestReturn(q)
             \/ ReleaseUnreviewed(q)
      PROVE  SerialInv' /\ TerminalKept
  BY <1>5, SavesStatusCurrent DEF SavesStatus
<1>. QED
  BY <1>1, <1>3, <1>4, <1>5, ReviewRejectCurrent, MarkSaveCurrent, ApproveCurrent,
     ConfirmCurrent, ReleaseCurrent
  DEF ReservationStep

LEMMA SerialJobStep ==
  ASSUME Serial, SerialInv, IInv', NEW q \in Requests, JobStep(q)
  PROVE  SerialInv' /\ TerminalKept
<1>1. ASSUME NEW j \in Jobs, CancelRead(q, j) \/ CompleteRead(q, j) \/ QcRejectRead(q, j)
      PROVE  SerialInv' /\ TerminalKept
  <2>1. {"cancel", "complete", "qcReject"} \subseteq Ops
    BY DEF Ops
  <2>. QED
    BY <1>1, <2>1, ReadJobCurrent DEF CancelRead, CompleteRead, QcRejectRead
<1>2. ASSUME CancelReservations(q) PROVE SerialInv' /\ TerminalKept
  BY <1>2, SavesStatusCurrent DEF SavesStatus
<1>3. ASSUME CancelReservationsRead(q) PROVE SerialInv' /\ TerminalKept
  BY <1>3, ListsCurrent, JobsAssumption
<1>. QED
  BY <1>1, <1>2, <1>3, ListsCurrent, JobSavesCurrent, RereadJobCurrent, QcApproveCurrent
  DEF JobStep

LEMMA SerialStep ==
  ASSUME Serial, SerialInv, [Next]_vars
  PROVE  SerialInv' /\ TerminalKept
<1>1. IInv'
  BY StepOK DEF SerialInv
<1>2. CASE UNCHANGED vars
  BY <1>1, <1>2
  DEF vars, SerialInv, RowsOK, PassedJobsAreSettled, WaitingOK, CameShort, Current, OpenRows,
      TerminalKept
<1>3. ASSUME NEW p \in Parts, NEW n \in Quantities, Grn(p, n) PROVE SerialInv' /\ TerminalKept
  BY <1>1, <1>3, GrnCurrent, QuantitiesAssumption
<1>. QED
  BY <1>1, <1>2, <1>3, SerialRequestStep, SerialReservationStep, SerialJobStep, AbandonCurrent
  DEF Next

\* SerialInv is inductive.
LEMMA AlwaysSerialInv == ASSUME Serial PROVE Spec => []SerialInv
BY SerialInit, SerialStep, PTL DEF Spec

(***************************************************************************)
(* Without overlapping requests, a job card that passed QC has nothing     *)
(* held for it and nothing awaiting review: the approval settles every     *)
(* open row of the job, and nothing opens one afterwards.                  *)
(***************************************************************************)
THEOREM PassedJobsSettled ==
  ASSUME Serial
  PROVE  Spec => []PassedJobsAreSettled
<1>1. SerialInv => PassedJobsAreSettled
  BY DEF SerialInv
<1>. QED
  BY <1>1, AlwaysSerialInv, PTL

(***************************************************************************)
(* Without overlapping requests, a reservation row's quantities agree with *)
(* its status: HELD is all that was asked for, what was never approved has *)
(* nothing set aside, only a RETURNED row has units returned.              *)
(***************************************************************************)
THEOREM OneStory ==
  ASSUME Serial
  PROVE  Spec => []RowsTellOneStory
<1>1. SerialInv => RowsTellOneStory
  BY DEF SerialInv, RowsOK, RowOK, Story, RowsTellOneStory
<1>. QED
  BY <1>1, AlwaysSerialInv, PTL

(***************************************************************************)
(* Without overlapping requests, a job card is SPARE_PENDING only if some  *)
(* request of its own came back short, even when a handler fails between   *)
(* its reservation and the job card it saves.                              *)
(***************************************************************************)
THEOREM WaitsForParts ==
  ASSUME Serial
  PROVE  Spec => []WaitingIsForParts
<1>1. SerialInv => WaitingIsForParts
  BY DEF SerialInv, WaitingOK, CameShort, WaitingIsForParts
<1>. QED
  BY <1>1, AlwaysSerialInv, PTL

(***************************************************************************)
(* Without overlapping requests, a RETURNED, CONSUMED or REJECTED row is   *)
(* never written again with other values.                                  *)
(***************************************************************************)
THEOREM TerminalStays ==
  ASSUME Serial
  PROVE  Spec => TerminalIsFinal
<1>1. SerialInv /\ [Next]_vars => [TerminalKept]_vars
  BY SerialStep
<1>. QED
  BY <1>1, AlwaysSerialInv, PTL DEF Spec, TerminalIsFinal, TerminalKept

-----------------------------------------------------------------------------
(* The sums the books are compared with. *)

\* The statuses of rows whose units quantityReserved counts.
Held == Active \cup {"RETURN_PENDING"}

\* What row r adds to the units of p that rows with these statuses set aside,
\* and to those that came back.
SetAside(rows, p, statuses) ==
  [r \in Reservations |->
     IF rows[r].part = p /\ rows[r].status \in statuses THEN rows[r].reserved ELSE 0]

CameBack(rows, p) ==
  [r \in Reservations |->
     IF rows[r].part = p /\ rows[r].status = "RETURNED" THEN rows[r].returned ELSE 0]

\* The sum over the whole table.
Total(f) == SumFunctionOnSet(f, Reservations)

\* What NothingWithheld and BooksMatchReservations say, in these sums.
BooksOK ==
  \A p \in Parts :
    /\ quantityReserved[p] <= Total(SetAside(res, p, Held))
    /\ damage[p] = Total(SetAside(res, p, {"CONSUMED"}))
    /\ Units(p) = received[p] + Total(CameBack(res, p))

LEMMA ReservationsFinite == IsFiniteSet(Reservations)
BY FS_Interval, BoundsAssumption DEF Reservations

\* All of these are natural numbers.
LEMMA WeightFacts ==
  ASSUME NEW rows \in [Reservations -> Row], NEW p, NEW statuses
  PROVE  /\ \A r \in Reservations : SetAside(rows, p, statuses)[r] \in Nat /\ CameBack(rows, p)[r] \in Nat
         /\ Total(SetAside(rows, p, statuses)) \in Nat
         /\ Total(CameBack(rows, p)) \in Nat
<1>1. \A r \in Reservations : SetAside(rows, p, statuses)[r] \in Nat
  BY DEF SetAside, Row
<1>2. \A r \in Reservations : CameBack(rows, p)[r] \in Nat
  BY DEF CameBack, Row
<1>3. PICK f, g : f = SetAside(rows, p, statuses) /\ g = CameBack(rows, p)
  OBVIOUS
<1>4. SumFunctionOnSet(f, Reservations) \in Nat /\ SumFunctionOnSet(g, Reservations) \in Nat
  BY <1>1, <1>2, <1>3, ReservationsFinite, SumNat
<1>. QED
  BY <1>1, <1>2, <1>3, <1>4 DEF Total

\* The model's sums over the rows of a part are these totals.
LEMMA CustodyIsTotal ==
  ASSUME TypeOK, NEW p, NEW statuses
  PROVE  Custody(p, statuses) = Total(SetAside(res, p, statuses))
<1>0. PICK T \in SUBSET Reservations : T = RowsOf(p, statuses)
  BY DEF RowsOf
<1>1. PICK f, g : /\ f = [r \in DOMAIN res |-> res[r].reserved]
                  /\ g = SetAside(res, p, statuses)
  OBVIOUS
<1>2. DOMAIN res = Reservations
  BY DEF TypeOK
<1>3. \A x \in T : f[x] \in Nat
  BY <1>1, <1>2 DEF TypeOK, Row
<1>4. \A x \in Reservations : g[x] = IF x \in T THEN f[x] ELSE 0
  BY <1>0, <1>1, <1>2 DEF SetAside, RowsOf
<1>5. SumFunctionOnSet(f, T) = SumFunctionOnSet(g, Reservations)
  BY <1>3, <1>4, ReservationsFinite, SumRestrict
<1>. QED
  BY <1>0, <1>1, <1>5 DEF Custody, ReservedSum, Total

LEMMA ReturnedIsTotal ==
  ASSUME TypeOK, NEW p
  PROVE  SumFunctionOnSet([r \in Reservations |-> res[r].returned], RowsOf(p, {"RETURNED"}))
           = Total(CameBack(res, p))
<1>0. PICK T \in SUBSET Reservations : T = RowsOf(p, {"RETURNED"})
  BY DEF RowsOf
<1>1. PICK f, g : /\ f = [r \in Reservations |-> res[r].returned]
                  /\ g = CameBack(res, p)
  OBVIOUS
<1>3. \A x \in T : f[x] \in Nat
  BY <1>1 DEF TypeOK, Row
<1>4. \A x \in Reservations : g[x] = IF x \in T THEN f[x] ELSE 0
  BY <1>0, <1>1 DEF CameBack, RowsOf
<1>5. SumFunctionOnSet(f, T) = SumFunctionOnSet(g, Reservations)
  BY <1>3, <1>4, ReservationsFinite, SumRestrict
<1>. QED
  BY <1>0, <1>1, <1>5 DEF Total

\* From f to g only the summand of r changes.
Shifts(f, g, r) == Total(g) + f[r] = Total(f) + g[r]

\* One row changes.
LEMMA TotalsMove ==
  ASSUME NEW rows \in [Reservations -> Row], NEW r \in Reservations,
         NEW after \in [Reservations -> Row],
         \A k \in Reservations \ {r} : after[k] = rows[k], NEW p, NEW statuses
  PROVE  /\ Shifts(SetAside(rows, p, statuses), SetAside(after, p, statuses), r)
         /\ Shifts(CameBack(rows, p), CameBack(after, p), r)
<1>1. after \in [Reservations -> Row] /\ \A k \in Reservations \ {r} : after[k] = rows[k]
  OBVIOUS
<1>2. PICK f, g : f = SetAside(rows, p, statuses) /\ g = SetAside(after, p, statuses)
  OBVIOUS
<1>3. \A k \in Reservations : f[k] \in Nat /\ g[k] \in Nat
  BY <1>1, <1>2, WeightFacts
<1>4. \A k \in Reservations \ {r} : f[k] = g[k]
  BY <1>1, <1>2 DEF SetAside
<1>5. SumFunctionOnSet(g, Reservations) + f[r] = SumFunctionOnSet(f, Reservations) + g[r]
  BY <1>3, <1>4, ReservationsFinite, SumChange
<1>6. PICK b, c : b = CameBack(rows, p) /\ c = CameBack(after, p)
  OBVIOUS
<1>7. \A k \in Reservations : b[k] \in Nat /\ c[k] \in Nat
  BY <1>1, <1>6, WeightFacts
<1>8. \A k \in Reservations \ {r} : b[k] = c[k]
  BY <1>1, <1>6 DEF CameBack
<1>9. SumFunctionOnSet(c, Reservations) + b[r] = SumFunctionOnSet(b, Reservations) + c[r]
  BY <1>7, <1>8, ReservationsFinite, SumChange
<1>. QED
  BY <1>2, <1>5, <1>6, <1>9 DEF Total, Shifts

-----------------------------------------------------------------------------
(* Every step keeps the books. *)

\* A row that adds to every sum what it did.
SameWeight(old, new) ==
  /\ new.part = old.part /\ new.reserved = old.reserved /\ new.returned = old.returned
  /\ \A S \in {Held, {"CONSUMED"}, {"RETURNED"}} : new.status \in S <=> old.status \in S

\* Steps that at most give units back to the shelf.
LEMMA QuietBooks ==
  ASSUME SerialInv, IInv', BooksOK, UNCHANGED <<onHand, damage, received>>,
         \A p \in Parts : quantityReserved'[p] <= quantityReserved[p],
         \A r \in Reservations : SameWeight(res[r], res'[r])
  PROVE  BooksOK'
<1>. SUFFICES ASSUME NEW p \in Parts
              PROVE  /\ quantityReserved'[p] <= Total(SetAside(res', p, Held))
                     /\ damage'[p] = Total(SetAside(res', p, {"CONSUMED"}))
                     /\ Units(p)' = received'[p] + Total(CameBack(res', p))
  BY DEF BooksOK
<1>1. /\ SetAside(res', p, Held) = SetAside(res, p, Held)
      /\ SetAside(res', p, {"CONSUMED"}) = SetAside(res, p, {"CONSUMED"})
  BY DEF SetAside, SameWeight
<1>2. CameBack(res', p) = CameBack(res, p)
  BY DEF CameBack, SameWeight
<1>3. quantityReserved[p] \in Nat /\ quantityReserved'[p] \in Nat
  BY DEF SerialInv, IInv, TypeOK
<1>4. Total(SetAside(res, p, Held)) \in Nat
  BY WeightFacts DEF SerialInv, IInv, TypeOK
<1>5. Units(p)' = Units(p)
  BY DEF Units
<1>. QED
  BY <1>1, <1>2, <1>3, <1>4, <1>5 DEF BooksOK

\* Units are set aside for one row that had none.
LEMMA SetAsideBooks ==
  ASSUME SerialInv, BooksOK, UNCHANGED <<onHand, damage, received>>,
         NEW r \in Reservations, NEW new \in Row, res' = [res EXCEPT ![r] = new],
         res[r].status \in {"NONE", "PENDING_REVIEW"}, new.status \in Active,
         quantityReserved' = [quantityReserved EXCEPT ![new.part] = @ + new.reserved]
  PROVE  BooksOK'
<1>. SUFFICES ASSUME NEW p \in Parts
              PROVE  /\ quantityReserved'[p] <= Total(SetAside(res', p, Held))
                     /\ damage'[p] = Total(SetAside(res', p, {"CONSUMED"}))
                     /\ Units(p)' = received'[p] + Total(CameBack(res', p))
  BY DEF BooksOK
<1>0. res \in [Reservations -> Row] /\ new.reserved \in Nat /\ new.part \in Parts
  BY DEF SerialInv, IInv, TypeOK, Row
<1>1. PICK after : after = res'
  OBVIOUS
<1>2. /\ after \in [Reservations -> Row] /\ after[r] = new
      /\ \A k \in Reservations \ {r} : after[k] = res[k]
  BY <1>0, <1>1
<1>3. /\ Total(SetAside(after, p, Held)) + SetAside(res, p, Held)[r]
           = Total(SetAside(res, p, Held)) + SetAside(after, p, Held)[r]
      /\ Total(SetAside(after, p, {"CONSUMED"})) + SetAside(res, p, {"CONSUMED"})[r]
           = Total(SetAside(res, p, {"CONSUMED"})) + SetAside(after, p, {"CONSUMED"})[r]
      /\ Total(CameBack(after, p)) + CameBack(res, p)[r]
           = Total(CameBack(res, p)) + CameBack(after, p)[r]
  <2>1. /\ Shifts(SetAside(res, p, Held), SetAside(after, p, Held), r)
        /\ Shifts(CameBack(res, p), CameBack(after, p), r)
    BY <1>0, <1>2, TotalsMove
  <2>2. Shifts(SetAside(res, p, {"CONSUMED"}), SetAside(after, p, {"CONSUMED"}), r)
    BY <1>0, <1>2, TotalsMove
  <2>. QED
    BY <2>1, <2>2 DEF Shifts
<1>4. /\ SetAside(res, p, Held)[r] = 0 /\ SetAside(res, p, {"CONSUMED"})[r] = 0
      /\ CameBack(res, p)[r] = 0
  BY DEF SetAside, CameBack, Held, Active
<1>5. /\ SetAside(after, p, Held)[r] = IF p = new.part THEN new.reserved ELSE 0
      /\ SetAside(after, p, {"CONSUMED"})[r] = 0 /\ CameBack(after, p)[r] = 0
  BY <1>2 DEF SetAside, CameBack, Held, Active
<1>6. /\ Total(SetAside(res, p, Held)) \in Nat /\ Total(SetAside(after, p, Held)) \in Nat
      /\ Total(SetAside(res, p, {"CONSUMED"})) \in Nat
      /\ Total(SetAside(after, p, {"CONSUMED"})) \in Nat
      /\ Total(CameBack(res, p)) \in Nat /\ Total(CameBack(after, p)) \in Nat
  BY <1>0, <1>2, WeightFacts
<1>7. /\ Total(SetAside(after, p, Held))
           = Total(SetAside(res, p, Held)) + (IF p = new.part THEN new.reserved ELSE 0)
      /\ Total(SetAside(after, p, {"CONSUMED"})) = Total(SetAside(res, p, {"CONSUMED"}))
      /\ Total(CameBack(after, p)) = Total(CameBack(res, p))
  BY <1>0, <1>3, <1>4, <1>5, <1>6
<1>8. /\ quantityReserved[p] \in Nat
      /\ quantityReserved'[p] = quantityReserved[p] + (IF p = new.part THEN new.reserved ELSE 0)
  BY <1>0 DEF SerialInv, IInv, TypeOK
<1>9. Units(p)' = Units(p)
  BY DEF Units
<1>. QED
  BY <1>0, <1>1, <1>6, <1>7, <1>8, <1>9 DEF BooksOK

\* Units of one row come back: n of them to the shelf.
LEMMA ConfirmBooks ==
  ASSUME SerialInv, BooksOK, UNCHANGED <<damage, received>>,
         NEW q, NEW r \in Reservations, NEW n \in Nat, NEW new \in Row, Confirms(q, r, n, new)
  PROVE  BooksOK'
<1>. SUFFICES ASSUME NEW p \in Parts
              PROVE  /\ quantityReserved'[p] <= Total(SetAside(res', p, Held))
                     /\ damage'[p] = Total(SetAside(res', p, {"CONSUMED"}))
                     /\ Units(p)' = received'[p] + Total(CameBack(res', p))
  BY DEF BooksOK
<1>0. /\ res \in [Reservations -> Row] /\ res[r].reserved \in Nat /\ res[r].part \in Parts
      /\ res[r].status = "RETURN_PENDING"
      /\ new.status = "RETURNED" /\ new.returned = n /\ new.part = res[r].part
  BY DEF SerialInv, IInv, TypeOK, Row, Confirms
<1>1. PICK after : after = res'
  OBVIOUS
<1>2. /\ after \in [Reservations -> Row] /\ after[r] = new
      /\ \A k \in Reservations \ {r} : after[k] = res[k]
  BY <1>0, <1>1 DEF Confirms
<1>3. /\ Total(SetAside(after, p, Held)) + SetAside(res, p, Held)[r]
           = Total(SetAside(res, p, Held)) + SetAside(after, p, Held)[r]
      /\ Total(SetAside(after, p, {"CONSUMED"})) + SetAside(res, p, {"CONSUMED"})[r]
           = Total(SetAside(res, p, {"CONSUMED"})) + SetAside(after, p, {"CONSUMED"})[r]
      /\ Total(CameBack(after, p)) + CameBack(res, p)[r]
           = Total(CameBack(res, p)) + CameBack(after, p)[r]
  <2>1. /\ Shifts(SetAside(res, p, Held), SetAside(after, p, Held), r)
        /\ Shifts(CameBack(res, p), CameBack(after, p), r)
    BY <1>0, <1>2, TotalsMove
  <2>2. Shifts(SetAside(res, p, {"CONSUMED"}), SetAside(after, p, {"CONSUMED"}), r)
    BY <1>0, <1>2, TotalsMove
  <2>. QED
    BY <2>1, <2>2 DEF Shifts
<1>4. /\ SetAside(res, p, Held)[r] = IF p = res[r].part THEN res[r].reserved ELSE 0
      /\ SetAside(res, p, {"CONSUMED"})[r] = 0
      /\ CameBack(res, p)[r] = 0
  BY <1>0 DEF SetAside, CameBack, Held, Active
<1>5. /\ SetAside(after, p, Held)[r] = 0
      /\ SetAside(after, p, {"CONSUMED"})[r] = 0
      /\ CameBack(after, p)[r] = IF p = res[r].part THEN n ELSE 0
  BY <1>0, <1>2 DEF SetAside, CameBack, Held, Active
<1>6. /\ Total(SetAside(res, p, Held)) \in Nat /\ Total(SetAside(after, p, Held)) \in Nat
      /\ Total(SetAside(res, p, {"CONSUMED"})) \in Nat
      /\ Total(SetAside(after, p, {"CONSUMED"})) \in Nat
      /\ Total(CameBack(res, p)) \in Nat /\ Total(CameBack(after, p)) \in Nat
  BY <1>0, <1>2, WeightFacts
<1>7. /\ Total(SetAside(after, p, Held)) + (IF p = res[r].part THEN res[r].reserved ELSE 0)
           = Total(SetAside(res, p, Held))
      /\ Total(SetAside(after, p, {"CONSUMED"})) = Total(SetAside(res, p, {"CONSUMED"}))
      /\ Total(CameBack(after, p)) = Total(CameBack(res, p)) + (IF p = res[r].part THEN n ELSE 0)
  BY <1>0, <1>3, <1>4, <1>5, <1>6
<1>8. /\ quantityReserved[p] \in Nat /\ onHand[p] \in Nat /\ damage[p] \in Nat
      /\ received[p] \in Nat
      /\ quantityReserved'[p] = IF p = res[r].part THEN Minus(quantityReserved[p], res[r].reserved)
                                ELSE quantityReserved[p]
      /\ onHand'[p] = IF p = res[r].part THEN onHand[p] + n ELSE onHand[p]
  BY <1>0 DEF SerialInv, IInv, TypeOK, Confirms
<1>9. quantityReserved'[p] <= Total(SetAside(after, p, Held))
  BY <1>0, <1>6, <1>7, <1>8 DEF BooksOK, Minus
<1>10. Units(p)' = received'[p] + Total(CameBack(after, p))
  BY <1>0, <1>6, <1>7, <1>8 DEF BooksOK, Units
<1>. QED
  BY <1>1, <1>7, <1>9, <1>10 DEF BooksOK

\* QC approval uses, of each part, what its rows set aside.
LEMMA QcApproveTotals ==
  ASSUME SerialInv, NEW q \in Requests, QcApprove(q), NEW p \in Parts, res' \in [Reservations -> Row]
  PROVE  /\ QcUsed(q)[p] \in Nat
         /\ Total(SetAside(res, p, Held)) = Total(SetAside(res', p, Held)) + QcUsed(q)[p]
         /\ Total(SetAside(res', p, {"CONSUMED"}))
              = Total(SetAside(res, p, {"CONSUMED"})) + QcUsed(q)[p]
         /\ CameBack(res', p) = CameBack(res, p)
<1>1. req[q] \in Request /\ Current(req[q]) /\ res \in [Reservations -> Row]
  BY DEF SerialInv, IInv, TypeOK
<1>2. PICK Taken \in SUBSET Reservations :
        Taken = {r \in OpenRows(req[q].job) : res[r].status \in Active}
  BY DEF OpenRows
<1>3. /\ req[q].seen = OpenRows(req[q].job) /\ ActiveOf(q) = Taken
      /\ res' = [r \in Reservations |->
                   IF r \in OpenRows(req[q].job) THEN Settled(res[r]) ELSE res[r]]
  BY <1>2, QcApproveRows
<1>4. PICK u : u = [r \in Reservations |->
                     IF r \in Taken /\ res[r].part = p THEN res[r].reserved ELSE 0]
  OBVIOUS
<1>5. \A r \in Reservations : u[r] \in Nat
  BY <1>1, <1>4 DEF Row
<1>6. QcUsed(q)[p] = Total(u)
  <2>1. PICK T \in SUBSET Reservations : T = {r \in Taken : req[q].copy[r].part = p}
    OBVIOUS
  <2>2. PICK f : f = [r \in DOMAIN req[q].copy |-> req[q].copy[r].reserved]
    OBVIOUS
  <2>3. DOMAIN req[q].copy = Reservations
    BY <1>1 DEF Request
  <2>4. \A r \in Taken : req[q].copy[r] = res[r]
    BY <1>1, <1>2, <1>3 DEF Current
  <2>5. \A r \in T : f[r] \in Nat
    BY <1>1, <2>1, <2>2, <2>3 DEF Request, Row
  <2>6. \A r \in Reservations : u[r] = IF r \in T THEN f[r] ELSE 0
    BY <1>4, <2>1, <2>2, <2>3, <2>4
  <2>7. SumFunctionOnSet(f, T) = SumFunctionOnSet(u, Reservations)
    BY <2>5, <2>6, ReservationsFinite, SumRestrict
  <2>8. QcUsed(q)[p] = SumFunctionOnSet(f, T)
    BY <1>3, <2>1, <2>2 DEF QcUsed, ReservedSum
  <2>. QED
    BY <2>7, <2>8 DEF Total
<1>7. ASSUME NEW r \in Reservations
      PROVE  /\ SetAside(res, p, Held)[r] = SetAside(res', p, Held)[r] + u[r]
             /\ SetAside(res', p, {"CONSUMED"})[r] = SetAside(res, p, {"CONSUMED"})[r] + u[r]
             /\ CameBack(res', p)[r] = CameBack(res, p)[r]
  <2>1. res[r] \in Row
    BY <1>1
  <2>2. CASE r \in Taken
    <3>1. res[r].status \in Active /\ res'[r] = [res[r] EXCEPT !.status = "CONSUMED"]
      BY <1>2, <1>3, <2>2 DEF Settled
    <3>2. res'[r].status = "CONSUMED" /\ res'[r].part = res[r].part /\ res'[r].reserved = res[r].reserved
      BY <2>1, <3>1 DEF Row
    <3>. QED
      BY <1>4, <2>1, <2>2, <3>1, <3>2 DEF SetAside, CameBack, Held, Active, Row
  <2>3. CASE r \in OpenRows(req[q].job) \ Taken
    <3>1. res[r].status = "PENDING_REVIEW" /\ res'[r] = [res[r] EXCEPT !.status = "REJECTED"]
      BY <1>2, <1>3, <2>3 DEF Settled, OpenRows
    <3>2. res'[r].status = "REJECTED"
      BY <2>1, <3>1 DEF Row
    <3>3. u[r] = 0
      BY <1>4, <2>3
    <3>4. /\ SetAside(res, p, Held)[r] = 0 /\ SetAside(res, p, {"CONSUMED"})[r] = 0
          /\ CameBack(res, p)[r] = 0
      BY <3>1 DEF SetAside, CameBack, Held, Active
    <3>5. /\ SetAside(res', p, Held)[r] = 0 /\ SetAside(res', p, {"CONSUMED"})[r] = 0
          /\ CameBack(res', p)[r] = 0
      BY <3>2 DEF SetAside, CameBack, Held, Active
    <3>. QED
      BY <3>3, <3>4, <3>5
  <2>4. CASE r \notin OpenRows(req[q].job)
    <3>1. res'[r] = res[r] /\ r \notin Taken
      BY <1>2, <1>3, <2>4
    <3>2. u[r] = 0
      BY <1>4, <3>1
    <3>3. /\ SetAside(res', p, Held)[r] = SetAside(res, p, Held)[r]
          /\ SetAside(res', p, {"CONSUMED"})[r] = SetAside(res, p, {"CONSUMED"})[r]
          /\ CameBack(res', p)[r] = CameBack(res, p)[r]
      BY <3>1 DEF SetAside, CameBack
    <3>4. SetAside(res, p, Held)[r] \in Nat /\ SetAside(res, p, {"CONSUMED"})[r] \in Nat
      BY <1>1, WeightFacts
    <3>. QED
      BY <3>2, <3>3, <3>4
  <2>. QED
    BY <1>2, <2>2, <2>3, <2>4
<1>8. PICK f, f1, c, c1 : /\ f = SetAside(res, p, Held) /\ f1 = SetAside(res', p, Held)
                          /\ c = SetAside(res, p, {"CONSUMED"})
                          /\ c1 = SetAside(res', p, {"CONSUMED"})
  OBVIOUS
<1>9. \A r \in Reservations : f1[r] \in Nat /\ c[r] \in Nat
  BY <1>1, <1>8, WeightFacts
<1>10. SumFunctionOnSet(f, Reservations)
         = SumFunctionOnSet(f1, Reservations) + SumFunctionOnSet(u, Reservations)
  <2>1. \A r \in Reservations : f1[r] \in Nat /\ u[r] \in Nat /\ f[r] = f1[r] + u[r]
    BY <1>5, <1>7, <1>8, <1>9
  <2>. QED
    BY <2>1, ReservationsFinite, SumPlus
<1>11. SumFunctionOnSet(c1, Reservations)
         = SumFunctionOnSet(c, Reservations) + SumFunctionOnSet(u, Reservations)
  <2>1. \A r \in Reservations : c[r] \in Nat /\ u[r] \in Nat /\ c1[r] = c[r] + u[r]
    BY <1>5, <1>7, <1>8, <1>9
  <2>. QED
    BY <2>1, ReservationsFinite, SumPlus
<1>12. CameBack(res', p) = CameBack(res, p)
  BY <1>7 DEF CameBack
<1>13. SumFunctionOnSet(u, Reservations) \in Nat
  BY <1>5, ReservationsFinite, SumNat
<1>. QED
  BY <1>6, <1>8, <1>10, <1>11, <1>12, <1>13 DEF Total

LEMMA QcApproveBooks ==
  ASSUME SerialInv, IInv', BooksOK, NEW q \in Requests, QcApprove(q)
  PROVE  BooksOK'
<1>. SUFFICES ASSUME NEW p \in Parts
              PROVE  /\ quantityReserved'[p] <= Total(SetAside(res', p, Held))
                     /\ damage'[p] = Total(SetAside(res', p, {"CONSUMED"}))
                     /\ Units(p)' = received'[p] + Total(CameBack(res', p))
  BY DEF BooksOK
<1>1. PICK u : u = QcUsed(q)[p]
  OBVIOUS
<1>2. res \in [Reservations -> Row] /\ res' \in [Reservations -> Row]
  BY DEF SerialInv, IInv, TypeOK
<1>3. /\ u \in Nat
      /\ Total(SetAside(res, p, Held)) = Total(SetAside(res', p, Held)) + u
      /\ Total(SetAside(res', p, {"CONSUMED"})) = Total(SetAside(res, p, {"CONSUMED"})) + u
      /\ CameBack(res', p) = CameBack(res, p)
  BY <1>1, <1>2, QcApproveTotals
<1>4. Total(SetAside(res', p, Held)) \in Nat /\ Total(CameBack(res, p)) \in Nat
  BY <1>2, WeightFacts
<1>5. /\ u <= onHand[p] /\ onHand'[p] = onHand[p] - u
      /\ quantityReserved'[p] = Minus(quantityReserved[p], u)
      /\ damage'[p] = damage[p] + u /\ received' = received
  BY <1>1 DEF QcApprove, DamageReceived
<1>6. onHand[p] \in Nat /\ quantityReserved[p] \in Nat /\ damage[p] \in Nat /\ received[p] \in Nat
  BY DEF SerialInv, IInv, TypeOK
<1>7. quantityReserved'[p] <= Total(SetAside(res', p, Held))
  BY <1>3, <1>4, <1>5, <1>6 DEF BooksOK, Minus
<1>8. Units(p)' = Units(p)
  BY <1>3, <1>5, <1>6 DEF Units
<1>. QED
  BY <1>3, <1>5, <1>7, <1>8 DEF BooksOK

LEMMA GrnBooks ==
  ASSUME SerialInv, BooksOK, NEW p \in Parts, NEW n \in Nat, Grn(p, n)
  PROVE  BooksOK'
<1>1. UNCHANGED <<quantityReserved, damage, res>>
  BY DEF Grn, tableVars
<1>2. ASSUME NEW k \in Parts
      PROVE  Units(k)' = received'[k] + Total(CameBack(res, k))
  <2>1. Total(CameBack(res, k)) \in Nat
    BY WeightFacts DEF SerialInv, IInv, TypeOK
  <2>2. Units(k) = received[k] + Total(CameBack(res, k))
    BY DEF BooksOK
  <2>3. /\ onHand[k] \in Nat /\ damage[k] \in Nat /\ received[k] \in Nat
        /\ onHand'[k] = IF k = p THEN onHand[k] + n ELSE onHand[k]
        /\ received'[k] = IF k = p THEN received[k] + n ELSE received[k]
    BY DEF Grn, SerialInv, IInv, TypeOK
  <2>. QED
    BY <1>1, <2>1, <2>2, <2>3 DEF Units
<1>. QED
  BY <1>1, <1>2 DEF BooksOK

LEMMA InitBooks == Init => BooksOK
<1>. SUFFICES ASSUME Init PROVE BooksOK
  OBVIOUS
<1>1. \A r \in Reservations : res[r] = NoRow
  BY DEF Init, NoCopy
<1>2. PICK zero : zero = [r \in Reservations |-> 0]
  OBVIOUS
<1>3. \A p : /\ SetAside(res, p, Held) = zero /\ SetAside(res, p, {"CONSUMED"}) = zero
             /\ CameBack(res, p) = zero
  BY <1>1, <1>2 DEF SetAside, CameBack, NoRow, Held, Active
<1>4. Total(zero) = 0
  <2>1. PICK f : f = [r \in {} |-> 0]
    OBVIOUS
  <2>2. \A r \in Reservations : zero[r] = IF r \in {} THEN f[r] ELSE 0
    BY <1>2
  <2>3. SumFunctionOnSet(f, {}) = SumFunctionOnSet(zero, Reservations)
    BY <2>2, ReservationsFinite, SumRestrict
  <2>. QED
    BY <2>3, SumEmpty DEF Total
<1>. QED
  BY <1>3, <1>4 DEF BooksOK, Init, Units

-----------------------------------------------------------------------------
(* The steps. *)

\* Requests that read, or save rows without moving stock.
LEMMA SaveBooks ==
  ASSUME SerialInv, IInv', BooksOK, NEW q \in Requests,
         SavesStatus(q) \/ MarkSave(q) \/ ReviewReject(q)
  PROVE  BooksOK'
<1>1. UNCHANGED stockVars
  BY SavesStatusExactly, MarkSaveExactly DEF ReviewReject
<1>2. \A r \in Reservations : SameWeight(res[r], res'[r])
  <2>. SUFFICES ASSUME NEW r \in Reservations PROVE SameWeight(res[r], res'[r])
    OBVIOUS
  <2>0. res[r] \in Row
    BY DEF SerialInv, IInv, TypeOK
  <2>1. ASSUME NEW s \in {"RETURN_PENDING", "REJECTED"},
               \/ s = "RETURN_PENDING" /\ res[r].status \in Active
               \/ s = "REJECTED" /\ res[r].status = "PENDING_REVIEW",
               res'[r] = [res[r] EXCEPT !.status = s]
        PROVE  SameWeight(res[r], res'[r])
    <3>1. /\ res'[r].status = s /\ res'[r].part = res[r].part
          /\ res'[r].reserved = res[r].reserved /\ res'[r].returned = res[r].returned
      BY <2>0, <2>1 DEF Row
    <3>. QED
      BY <2>1, <3>1 DEF SameWeight, Held, Active
  <2>2. CASE ReviewReject(q)
    BY <2>2, ReviewRejectSame DEF SameWeight
  <2>3. ASSUME NEW s \in {"RETURN_PENDING", "REJECTED"},
               SaveRows(q, WithStatus(q, s), req[q].seen),
               \A k \in req[q].seen : \/ s = "RETURN_PENDING" /\ res[k].status \in Active
                                      \/ s = "REJECTED" /\ res[k].status = "PENDING_REVIEW"
        PROVE  SameWeight(res[r], res'[r])
    <3>1. s \in Status
      BY DEF Status
    <3>2. res'[r] = IF r \in req[q].seen THEN [res[r] EXCEPT !.status = s] ELSE res[r]
      BY <2>3, <3>1, WithStatusSaved
    <3>. QED
      BY <2>1, <2>3, <3>2 DEF SameWeight
  <2>. QED
    BY <2>2, <2>3, SavesStatusExactly, MarkSaveExactly
<1>3. \A p \in Parts : quantityReserved'[p] <= quantityReserved[p]
  BY <1>1 DEF stockVars, SerialInv, IInv, TypeOK
<1>. QED
  BY <1>1, <1>2, <1>3, QuietBooks DEF stockVars

LEMMA UnchangedBooks ==
  ASSUME SerialInv, IInv', BooksOK, UNCHANGED <<stockVars, tableVars>>
  PROVE  BooksOK'
<1>1. \A p \in Parts : quantityReserved'[p] <= quantityReserved[p]
  BY DEF stockVars, SerialInv, IInv, TypeOK
<1>2. \A r \in Reservations : SameWeight(res[r], res'[r])
  BY DEF SameWeight, tableVars
<1>. QED
  BY <1>1, <1>2, QuietBooks DEF stockVars

LEMMA RowBooks ==
  ASSUME SerialInv, IInv', BooksOK, NEW q \in Requests, NEW r \in Reservations,
         NeedSpareApprove(q, r) \/ ReleaseReservation(q, r) \/ ConfirmReturn(q, r)
  PROVE  BooksOK'
<1>0. res[r] \in Row
  BY DEF SerialInv, IInv, TypeOK
<1>1. CASE NeedSpareApprove(q, r)
  <2>1. PICK got \in Nat, new \in Row : Approves(r, got, new)
    BY <1>1, ApproveRow
  <2>2. /\ new.reserved = got /\ new.part = res[r].part
        /\ new.status = ReservedStatus(got, res[r].requested)
    BY <1>0, <2>1 DEF Approves, Row, SameIdentity
  <2>3. new.status \in Active
    BY <2>2 DEF ReservedStatus, Active
  <2>4. /\ quantityReserved' = [quantityReserved EXCEPT ![new.part] = @ + new.reserved]
        /\ res' = [res EXCEPT ![r] = new] /\ res[r].status = "PENDING_REVIEW"
    BY <2>1, <2>2 DEF Approves
  <2>5. UNCHANGED <<onHand, damage, received>>
    BY <1>1 DEF NeedSpareApprove
  <2>. QED
    BY <2>3, <2>4, <2>5, SetAsideBooks
<1>2. CASE ReleaseReservation(q, r)
  <2>1. PICK new \in Row :
           /\ res[r].status \in Active
           /\ quantityReserved' = [quantityReserved EXCEPT
                                     ![res[r].part] = Minus(@, res[r].reserved)]
           /\ new = [res[r] EXCEPT !.status = "RETURN_PENDING"]
           /\ res' = [res EXCEPT ![r] = new]
    BY <1>2, ReleaseRow
  <2>2. /\ new.status = "RETURN_PENDING" /\ new.part = res[r].part
        /\ new.reserved = res[r].reserved /\ new.returned = res[r].returned
    BY <1>0, <2>1 DEF Row
  <2>3. SameWeight(res[r], new)
    BY <2>1, <2>2 DEF SameWeight, Held, Active
  <2>4. \A k \in Reservations : SameWeight(res[k], res'[k])
    BY <2>1, <2>3 DEF SameWeight, SerialInv, IInv, TypeOK
  <2>5. \A p \in Parts : quantityReserved'[p] <= quantityReserved[p]
    BY <1>0, <2>1, MinusFacts DEF SerialInv, IInv, TypeOK, Row
  <2>. QED
    BY <1>2, <2>4, <2>5, QuietBooks DEF ReleaseReservation
<1>3. CASE ConfirmReturn(q, r)
  <2>1. PICK n \in Nat, new \in Row : Confirms(q, r, n, new)
    BY <1>3, ConfirmRow
  <2>. QED
    BY <1>3, <2>1, ConfirmBooks DEF ConfirmReturn
<1>. QED
  BY <1>1, <1>2, <1>3

LEMMA InsertBooks ==
  ASSUME SerialInv, IInv', BooksOK, NEW q \in Requests, NEW p \in Parts, NEW n \in Nat,
         Reserve(q, p, n) \/ RequestNeedSpare(q, p, n)
  PROVE  BooksOK'
<1>1. CASE Reserve(q, p, n)
  <2>1. PICK got \in Nat, row \in Row : Reserves(q, p, n, got, row)
    BY <1>1, ReserveRow
  <2>2. /\ nextId \in Reservations /\ res[nextId].status = "NONE"
        /\ res' = [res EXCEPT ![nextId] = row] /\ row.status \in Active
        /\ quantityReserved' = [quantityReserved EXCEPT ![row.part] = @ + row.reserved]
    BY <2>1 DEF Reserves, Inserts, NoRow, ReservedStatus, Active
  <2>. QED
    BY <1>1, <2>2, SetAsideBooks DEF Reserve
<1>2. CASE RequestNeedSpare(q, p, n)
  <2>1. PICK row \in Row : Inserts(q, n, 0, row) /\ row.status = "PENDING_REVIEW"
    BY <1>2, NeedSpareRow
  <2>2. nextId \in Reservations /\ res[nextId] = NoRow /\ res' = [res EXCEPT ![nextId] = row]
        /\ row.returned = 0 /\ row.reserved = 0
    BY <2>1 DEF Inserts
  <2>3. \A k \in Parts : /\ SetAside(res', k, Held) = SetAside(res, k, Held)
                         /\ SetAside(res', k, {"CONSUMED"}) = SetAside(res, k, {"CONSUMED"})
                         /\ CameBack(res', k) = CameBack(res, k)
    BY <2>1, <2>2 DEF SetAside, CameBack, NoRow, Held, Active, SerialInv, IInv, TypeOK
  <2>4. \A k \in Parts : Units(k)' = Units(k)
    BY <1>2 DEF RequestNeedSpare, stockVars, Units
  <2>. QED
    BY <1>2, <2>3, <2>4 DEF RequestNeedSpare, stockVars, BooksOK
<1>. QED
  BY <1>1, <1>2

LEMMA BooksStep ==
  ASSUME Serial, SerialInv, BooksOK, [Next]_vars
  PROVE  BooksOK'
<1>1. IInv'
  BY StepOK DEF SerialInv
<1>2. Quantities \subseteq Nat
  BY QuantitiesAssumption
<1>3. CASE UNCHANGED vars
  BY <1>1, <1>3, UnchangedBooks DEF vars, stockVars, tableVars
<1>4. ASSUME NEW p \in Parts, NEW n \in Quantities, Grn(p, n) PROVE BooksOK'
  BY <1>2, <1>4, GrnBooks
<1>5. ASSUME NEW q \in Requests, RequestStep(q) PROVE BooksOK'
  <2>1. ASSUME NEW j \in Jobs, \/ RequestSpareRead(q, j) \/ TopUpRead(q, j)
                               \/ NeedSpareRead(q, j) \/ ConfirmAllRead(q, j)
        PROVE  BooksOK'
    BY <1>1, <2>1, UnchangedBooks
    DEF RequestSpareRead, TopUpRead, NeedSpareRead, ReadJob, ConfirmAllRead
  <2>. QED
    BY <1>1, <1>2, <1>5, <2>1, InsertBooks DEF RequestStep
<1>6. ASSUME NEW q \in Requests, ReservationStep(q) PROVE BooksOK'
  <2>1. ASSUME NEW r \in Reservations,
               \/ NeedSpareReviewRead(q, r) \/ ReviewRead(q, r) \/ RequestReturnRead(q, r)
               \/ MarkRead(q, r) \/ MarkReturnPending(q, r) \/ ReleaseRead(q, r)
               \/ ConfirmEachRead(q, r)
        PROVE  BooksOK'
    BY <1>1, <2>1, UnchangedBooks
    DEF NeedSpareReviewRead, ReviewRead, RequestReturnRead, MarkRead, MarkReturnPending,
        ReleaseRead, ReadRow, ConfirmEachRead
  <2>2. ASSUME NEW r \in Reservations, NEW n \in Quantities, ConfirmReturnRead(q, r, n)
        PROVE  BooksOK'
    BY <1>1, <2>2, UnchangedBooks DEF ConfirmReturnRead
  <2>3. ASSUME \/ NeedSpareReject(q) \/ ReviewApprove(q) \/ RequestReturn(q)
               \/ ReleaseUnreviewed(q) \/ MarkSave(q) \/ ReviewReject(q)
        PROVE  BooksOK'
    BY <1>1, <2>3, SaveBooks DEF SavesStatus
  <2>. QED
    BY <1>1, <1>6, <2>1, <2>2, <2>3, RowBooks DEF ReservationStep
<1>7. ASSUME NEW q \in Requests, JobStep(q) PROVE BooksOK'
  <2>1. ASSUME NEW j \in Jobs, \/ CancelRead(q, j) \/ CompleteRead(q, j) \/ QcRejectRead(q, j)
                               \/ QcApproveRead(q, j)
        PROVE  BooksOK'
    BY <1>1, <2>1, UnchangedBooks DEF CancelRead, CompleteRead, QcRejectRead, ReadJob, QcApproveRead
  <2>2. ASSUME \/ CancelJob(q) \/ CancelReservationsRead(q) \/ ResumeRead(q)
               \/ ResumeFromSparePending(q) \/ SetSparePendingRead(q) \/ SetSparePending(q)
               \/ CompleteSave(q) \/ QcReject(q)
        PROVE  BooksOK'
    BY <1>1, <2>2, UnchangedBooks
    DEF CancelJob, CancelReservationsRead, ResumeRead, ResumeFromSparePending,
        SetSparePendingRead, SetSparePending, CompleteSave, QcReject, RereadJob, SaveJob
  <2>3. ASSUME CancelReservations(q) PROVE BooksOK'
    BY <1>1, <2>3, SaveBooks DEF SavesStatus
  <2>. QED
    BY <1>1, <1>7, <2>1, <2>2, <2>3, QcApproveBooks DEF JobStep
<1>8. ASSUME NEW q \in Requests, Abandon(q) PROVE BooksOK'
  BY <1>1, <1>8, UnchangedBooks DEF Abandon
<1>. QED
  BY <1>3, <1>4, <1>5, <1>6, <1>7, <1>8 DEF Next

\* SerialInv and BooksOK together are inductive.
LEMMA AlwaysBooks == ASSUME Serial PROVE Spec => [](SerialInv /\ BooksOK)
<1>1. Init => SerialInv /\ BooksOK
  BY SerialInit, InitBooks
<1>2. SerialInv /\ BooksOK /\ [Next]_vars => (SerialInv /\ BooksOK)'
  BY SerialStep, BooksStep
<1>. QED
  BY <1>1, <1>2, PTL DEF Spec

(***************************************************************************)
(* Without overlapping requests, quantityReserved of a part is at most     *)
(* what its held and returning rows set aside: no unit is withheld from    *)
(* the next job without a row that says for whom.                          *)
(***************************************************************************)
THEOREM NothingIsWithheld ==
  ASSUME Serial
  PROVE  Spec => []NothingWithheld
<1>1. SerialInv /\ BooksOK => NothingWithheld
  BY CustodyIsTotal DEF SerialInv, IInv, BooksOK, NothingWithheld, Held
<1>. QED
  BY <1>1, AlwaysBooks, PTL

(***************************************************************************)
(* Without overlapping requests, DAMAGE_LOCATION is the sum over the       *)
(* CONSUMED rows, and both locations together are what was received plus   *)
(* what the RETURNED rows brought back.                                    *)
(***************************************************************************)
THEOREM BooksMatch ==
  ASSUME Serial
  PROVE  Spec => []BooksMatchReservations
<1>1. SerialInv /\ BooksOK => BooksMatchReservations
  BY CustodyIsTotal, ReturnedIsTotal DEF SerialInv, IInv, BooksOK, BooksMatchReservations
<1>. QED
  BY <1>1, AlwaysBooks, PTL

=============================================================================
