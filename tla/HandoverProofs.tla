---------------------------- MODULE HandoverProofs ----------------------------
(***************************************************************************)
(* Proofs about Handover, for every set of cards and requests: an invoice  *)
(* that says PAID is covered by its payments, no unit that the proof of    *)
(* delivery finds out of warranty is handed back unpaid, the ledger is     *)
(* never ahead of the payments, and no card whose delivery nobody has put  *)
(* back goes from one delivery to another without being released.          *)
(***************************************************************************)
EXTENDS Handover, TLAPS

(***************************************************************************)
(* The inductive invariant.  The first two of these need three more        *)
(* facts.  A row that was never inserted is not paid for.  A payment in    *)
(* flight knows a lower bound of what is paid by now.  A proof of delivery *)
(* in flight has found every out-of-warranty member covered, and a covered *)
(* invoice stays: payments are only added, and a row with payments cannot  *)
(* be removed.                                                             *)
(***************************************************************************)
FreshInvoices ==
  \A i \in Invoices : i >= nextInvoice => invoice[i].status = "NONE" /\ paid[i] = 0

CardCovered(c) == \E i \in Invoices : /\ invoice[i].status # "NONE"
                                      /\ invoice[i].card = c
                                      /\ Covered(i)

Remembers(x) ==
  /\ x.op \in {"create", "dispatch", "pod", "cancel"} => x.id \in Deliveries
  /\ x.op \in {"regenerate", "redraft", "pay", "paid", "post"} => x.id \in Invoices
  /\ x.op \in {"pay", "paid"} => x.amount > 0
  /\ x.op = "pay" => x.seen <= paid[x.id]
  /\ x.op = "paid" => x.seen + x.amount <= paid[x.id]
  /\ x.op = "pod" => \A c \in x.members : x.entity[c].oow => CardCovered(c)

MemoryOK == \A q \in Requests : req[q] \in Request /\ Remembers(req[q])

CardsOK == /\ card \in [Cards -> Card]
           /\ saves \in [Cards -> Nat]
           /\ restored \subseteq Cards
           /\ delivery \in [Deliveries -> DeliveryStatus]
           /\ nextDelivery \in Nat \ {0}

MoneyOK == /\ invoice \in [Invoices -> Invoice]
           /\ nextInvoice \in Nat \ {0}
           /\ paid \in [Invoices -> Nat]
           /\ posted \in [Invoices -> Nat]
           /\ PaidIsCovered
           /\ FreshInvoices

IInv == CardsOK /\ MoneyOK /\ MemoryOK /\ req \in [Requests -> Request]

-----------------------------------------------------------------------------
\* What a step does to the money: a covered invoice of a card stays one.
CoveredStays ==
  /\ \A i \in Invoices : paid[i] <= paid'[i]
  /\ \A c \in Cards : CardCovered(c) => CardCovered(c)'

LEMMA CoveredStaysIfSame ==
  ASSUME MoneyOK, UNCHANGED moneyVars
  PROVE  MoneyOK' /\ CoveredStays
BY DEF MoneyOK, moneyVars, CoveredStays, CardCovered, Covered, PaidIsCovered, FreshInvoices

\* A request nobody writes remembers as well after the step as before.
LEMMA StillRemembers ==
  ASSUME NEW x \in Request, Remembers(x), CoveredStays, MoneyOK, MoneyOK'
  PROVE  Remembers(x)'
<1>1. ASSUME x.op \in {"pay", "paid"}
      PROVE  paid[x.id] \in Nat /\ paid'[x.id] \in Nat /\ paid[x.id] <= paid'[x.id]
  BY <1>1 DEF Remembers, CoveredStays, MoneyOK
<1>2. x.seen \in Nat /\ x.amount \in Nat /\ x.members \subseteq Cards
  BY DEF Request
<1>3. x.op = "pay" => x.seen <= paid'[x.id]
  BY <1>1, <1>2 DEF Remembers
<1>4. x.op = "paid" => x.seen + x.amount <= paid'[x.id]
  BY <1>1, <1>2 DEF Remembers
<1>5. x.op = "pod" => \A c \in x.members : x.entity[c].oow => CardCovered(c)'
  BY <1>2 DEF Remembers, CoveredStays
<1>. QED
  BY <1>3, <1>4, <1>5 DEF Remembers

\* A request the step does not write remembers as well after it as before.
LEMMA OtherRequest ==
  ASSUME IInv, CoveredStays, MoneyOK', NEW s \in Requests, req'[s] = req[s]
  PROVE  Remembers(req[s])' /\ req'[s] \in Request
<1>1. req'[s] = req[s] /\ req[s] \in Request /\ Remembers(req[s])
  BY DEF IInv, MemoryOK
<1>2. req[s].seen \in Nat /\ req[s].amount \in Nat /\ req[s].members \subseteq Cards
  BY <1>1 DEF Request
<1>3. req[s].op \in {"pay", "paid"} =>
        /\ paid[req[s].id] \in Nat
        /\ paid'[req[s].id] \in Nat
        /\ paid[req[s].id] <= paid'[req[s].id]
  BY <1>1 DEF Remembers, CoveredStays, MoneyOK, IInv
<1>4. req[s].op = "pay" => req[s].seen <= paid'[req[s].id]
  BY <1>1, <1>2, <1>3 DEF Remembers
<1>5. req[s].op = "paid" => req[s].seen + req[s].amount <= paid'[req[s].id]
  BY <1>1, <1>2, <1>3 DEF Remembers
<1>6. req[s].op = "pod" => \A c \in req[s].members : req[s].entity[c].oow => CardCovered(c)'
  BY <1>1, <1>2 DEF Remembers, CoveredStays
<1>. QED
  BY <1>1, <1>4, <1>5, <1>6 DEF Remembers

\* A step that gives request q the memory x.
LEMMA SetRequest ==
  ASSUME IInv, CoveredStays, MoneyOK', NEW q \in Requests, NEW x \in Request,
         Remembers(x)', req' = [req EXCEPT ![q] = x]
  PROVE  MemoryOK' /\ req' \in [Requests -> Request]
<1>1. req' \in [Requests -> Request] /\ req'[q] = x
  BY DEF IInv
<1>2. ASSUME NEW s \in Requests, s # q
      PROVE  Remembers(req[s])'
  BY <1>2, OtherRequest DEF IInv
<1>3. ASSUME NEW s \in Requests PROVE Remembers(req[s])'
  BY <1>1, <1>2 DEF Remembers
<1>. QED
  BY <1>1, <1>3 DEF MemoryOK

LEMMA NoRequestFacts == NoRequest \in Request /\ NoRequest.op = "idle"
<1>1. NoCards \in [Cards -> Card]
  BY BoundsAssumption DEF NoCards, Card
<1>. QED
  BY <1>1 DEF NoRequest, Request, Ops

\* The handler of a request moves on to operation op.
LEMMA NextOp ==
  ASSUME NEW x \in Request, NEW op \in Ops
  PROVE  \E y \in Request : /\ y = [x EXCEPT !.op = op]
                            /\ y.op = op
                            /\ y.id = x.id /\ y.amount = x.amount /\ y.seen = x.seen
<1>. DEFINE y == [x EXCEPT !.op = op]
<1>1. /\ y \in Request
      /\ y.op = op
      /\ y.id = x.id /\ y.amount = x.amount /\ y.seen = x.seen
  BY DEF Request
<1>. HIDE DEF y
<1>2. y = [x EXCEPT !.op = op]
  BY DEF y
<1>. QED
  BY <1>1, <1>2

LEMMA FinishOK ==
  ASSUME IInv, CoveredStays, MoneyOK', NEW q \in Requests, Finish(q)
  PROVE  MemoryOK' /\ req' \in [Requests -> Request]
<1>1. Remembers(NoRequest)'
  BY NoRequestFacts DEF Remembers
<1>. QED
  BY <1>1, NoRequestFacts, SetRequest DEF Finish

\* A step that only moves request q from one operation to the next.
LEMMA OnlyRequest ==
  ASSUME IInv, NEW q \in Requests, NEW x \in Request, Remembers(x),
         req' = [req EXCEPT ![q] = x], UNCHANGED moneyVars, CardsOK'
  PROVE  IInv'
<1>1. MoneyOK' /\ CoveredStays
  BY CoveredStaysIfSame DEF IInv
<1>2. Remembers(x)'
  BY <1>1, StillRemembers DEF IInv
<1>. QED
  BY <1>1, <1>2, SetRequest DEF IInv

LEMMA CardsSame ==
  ASSUME CardsOK, UNCHANGED cardVars
  PROVE  CardsOK'
BY DEF CardsOK, cardVars

-----------------------------------------------------------------------------
(***************************************************************************)
(* Invoices and payments.                                                  *)
(***************************************************************************)

LEMMA DraftOK ==
  ASSUME MoneyOK, NEW c \in Cards, NEW a \in Amounts, Draft(c, a)
  PROVE  MoneyOK' /\ CoveredStays
<1>. DEFINE row == [status |-> "DRAFT", card |-> c, amount |-> a]
<1>1. row \in Invoice
  BY AmountsAssumption DEF Invoice, InvoiceStatus
<1>2. /\ nextInvoice \in Invoices
      /\ invoice' = [invoice EXCEPT ![nextInvoice] = row]
      /\ nextInvoice' = nextInvoice + 1
      /\ UNCHANGED <<paid, posted>>
  BY DEF Draft
<1>3. invoice[nextInvoice].status = "NONE"
  BY <1>2 DEF MoneyOK, FreshInvoices
<1>4. /\ invoice' \in [Invoices -> Invoice]
      /\ \A i \in Invoices : i # nextInvoice => invoice'[i] = invoice[i]
      /\ invoice'[nextInvoice].status = "DRAFT"
  BY <1>1, <1>2 DEF MoneyOK
<1>5. FreshInvoices'
  BY <1>2, <1>4, BoundsAssumption DEF FreshInvoices, MoneyOK, Invoices
<1>6. PaidIsCovered'
  BY <1>2, <1>4 DEF PaidIsCovered, Covered, MoneyOK
<1>7. CoveredStays
  BY <1>2, <1>3, <1>4 DEF CoveredStays, CardCovered, Covered, MoneyOK
<1>. QED
  BY <1>2, <1>4, <1>5, <1>6, <1>7 DEF MoneyOK

LEMMA GetOrCreateOK ==
  ASSUME IInv, NEW c \in Cards, NEW a \in Amounts, GetOrCreateForJobCard(c, a)
  PROVE  IInv'
<1>1. MoneyOK' /\ CoveredStays
  BY DraftOK DEF GetOrCreateForJobCard, IInv
<1>2. CardsOK'
  BY CardsSame DEF GetOrCreateForJobCard, Draft, IInv
<1>3. req' = req
  BY DEF GetOrCreateForJobCard
<1>4. MemoryOK' /\ req' \in [Requests -> Request]
  BY <1>1, <1>3, OtherRequest DEF IInv, MemoryOK
<1>. QED
  BY <1>1, <1>2, <1>4 DEF IInv

\* A step that ends request q without a trace but on the money.
LEMMA EndsOK ==
  ASSUME IInv, NEW q \in Requests, Finish(q), CardsOK', MoneyOK', CoveredStays
  PROVE  IInv'
BY FinishOK DEF IInv

\* A handler has read invoice i.
LEMMA ReadInvoiceOK ==
  ASSUME IInv, NEW q \in Requests, NEW op \in {"regenerate", "pay"}, NEW i \in Invoices,
         NEW n \in Nat, op = "pay" => n > 0, ReadInvoice(q, op, i, n)
  PROVE  IInv'
<1>. DEFINE x == [NoRequest EXCEPT !.op = op, !.id = i, !.amount = n, !.seen = paid[i]]
<1>0. op \in Ops /\ i \in Nat /\ paid[i] \in Nat
  BY BoundsAssumption DEF Ops, Invoices, IInv, MoneyOK
<1>1. x \in Request /\ x.op = op /\ x.id = i /\ x.amount = n /\ x.seen = paid[i]
  BY <1>0, NoRequestFacts DEF Request
<1>2. Remembers(x)
  BY <1>1 DEF Remembers, IInv, MoneyOK
<1>3. CardsOK'
  BY CardsSame DEF ReadInvoice, IInv
<1>. QED
  BY <1>1, <1>2, <1>3, OnlyRequest DEF ReadInvoice

LEMMA RegenerateRemoveOK ==
  ASSUME IInv, NEW q \in Requests, RegenerateRemove(q)
  PROVE  IInv'
<1>. DEFINE i == req[q].id
<1>1. req[q] \in Request /\ req[q].op = "regenerate" /\ i \in Invoices
  BY DEF RegenerateRemove, IInv, MemoryOK, Remembers
<1>2. /\ paid[i] = 0
      /\ invoice' = [invoice EXCEPT ![i].status = "NONE"]
      /\ UNCHANGED <<nextInvoice, paid, posted>>
  BY DEF RegenerateRemove, Removable
<1>3. /\ invoice' \in [Invoices -> Invoice]
      /\ invoice'[i].status = "NONE"
      /\ \A j \in Invoices : j # i => invoice'[j] = invoice[j]
  BY <1>1, <1>2 DEF IInv, MoneyOK, Invoice, InvoiceStatus
<1>4. MoneyOK'
  BY <1>2, <1>3 DEF IInv, MoneyOK, PaidIsCovered, Covered, FreshInvoices
<1>5. CoveredStays
  BY <1>2, <1>3 DEF CoveredStays, CardCovered, Covered, IInv, MoneyOK
<1>op. "redraft" \in Ops
  BY DEF Ops
<1>x. PICK x \in Request : /\ x = [req[q] EXCEPT !.op = "redraft"]
                          /\ x.op = "redraft" /\ x.id = i
  BY <1>1, <1>op, NextOp
<1>6. Remembers(x)'
  BY <1>1, <1>x DEF Remembers
<1>7. CardsOK'
  BY CardsSame DEF RegenerateRemove, IInv
<1>8. req' = [req EXCEPT ![q] = x]
  BY <1>x DEF RegenerateRemove, IInv
<1>. QED
  BY <1>4, <1>5, <1>6, <1>7, <1>8, SetRequest DEF IInv

LEMMA RegenerateDraftOK ==
  ASSUME IInv, NEW q \in Requests, NEW a \in Amounts, RegenerateDraft(q, a)
  PROVE  IInv'
<1>1. req[q].id \in Invoices
  BY DEF RegenerateDraft, IInv, MemoryOK, Remembers
<1>2. invoice[req[q].id].card \in Cards
  BY <1>1 DEF IInv, MoneyOK, Invoice
<1>3. MoneyOK' /\ CoveredStays
  BY <1>2, DraftOK DEF RegenerateDraft, IInv
<1>4. CardsOK'
  BY CardsSame DEF RegenerateDraft, Draft, IInv
<1>. QED
  BY <1>3, <1>4, EndsOK DEF RegenerateDraft

LEMMA PaySavePaymentOK ==
  ASSUME IInv, NEW q \in Requests, PaySavePayment(q)
  PROVE  IInv'
<1>. DEFINE i == req[q].id
            n == req[q].amount
<1>1. /\ req[q] \in Request /\ req[q].op = "pay" /\ i \in Invoices
      /\ n \in Nat /\ n > 0 /\ req[q].seen \in Nat /\ req[q].seen <= paid[i]
  BY DEF PaySavePayment, IInv, MemoryOK, Remembers, Request
<1>2. paid' = [paid EXCEPT ![i] = @ + n] /\ UNCHANGED <<invoice, nextInvoice, posted>>
  BY DEF PaySavePayment, Paid
<1>3. /\ paid' \in [Invoices -> Nat]
      /\ paid'[i] = paid[i] + n
      /\ \A j \in Invoices : paid[j] <= paid'[j] /\ (j # i => paid'[j] = paid[j])
  BY <1>1, <1>2 DEF IInv, MoneyOK
<1>4. \A j \in Invoices : Covered(j) => Covered(j)'
  BY <1>2, <1>3 DEF Covered, IInv, MoneyOK, Invoice
<1>a. ~(i >= nextInvoice)
  BY <1>1 DEF IInv, MoneyOK, FreshInvoices, PaySavePayment
<1>b. FreshInvoices'
  BY <1>1, <1>2, <1>3, <1>a DEF IInv, MoneyOK, FreshInvoices
<1>c. PaidIsCovered'
  BY <1>2, <1>4 DEF IInv, MoneyOK, PaidIsCovered
<1>d. CoveredStays
  BY <1>2, <1>3, <1>4 DEF CoveredStays, CardCovered
<1>5. MoneyOK' /\ CoveredStays
  BY <1>2, <1>3, <1>b, <1>c, <1>d DEF IInv, MoneyOK
<1>op. "paid" \in Ops
  BY DEF Ops
<1>x. PICK x \in Request : /\ x = [req[q] EXCEPT !.op = "paid"]
                          /\ x.op = "paid" /\ x.id = i
                          /\ x.amount = n /\ x.seen = req[q].seen
  BY <1>1, <1>op, NextOp
<1>y. paid[i] \in Nat /\ x.seen + x.amount <= paid'[i] /\ x.amount > 0
  BY <1>1, <1>3, <1>x DEF IInv, MoneyOK
<1>6. Remembers(x)'
  BY <1>1, <1>x, <1>y DEF Remembers
<1>7. CardsOK'
  BY CardsSame DEF PaySavePayment, IInv
<1>8. req' = [req EXCEPT ![q] = x]
  BY <1>x DEF PaySavePayment, IInv
<1>. QED
  BY <1>5, <1>6, <1>7, <1>8, SetRequest DEF IInv

LEMMA PaySaveInvoiceOK ==
  ASSUME IInv, NEW q \in Requests, PaySaveInvoice(q)
  PROVE  IInv'
<1>. DEFINE i == req[q].id
            s == IF Settled(req[q]) THEN "PAID" ELSE "PARTIALLY_PAID"
<1>1. /\ req[q] \in Request /\ req[q].op = "paid" /\ i \in Invoices
      /\ req[q].amount \in Nat /\ req[q].amount > 0 /\ req[q].seen \in Nat
      /\ req[q].seen + req[q].amount <= paid[i]
  BY DEF PaySaveInvoice, IInv, MemoryOK, Remembers, Request
<1>2. /\ invoice' = [invoice EXCEPT ![i].status = s]
      /\ UNCHANGED <<nextInvoice, paid, posted>>
  BY DEF PaySaveInvoice
<1>3. /\ invoice' \in [Invoices -> Invoice]
      /\ invoice'[i].status = s /\ invoice'[i].status # "NONE"
      /\ \A j \in Invoices : /\ invoice'[j].card = invoice[j].card
                             /\ invoice'[j].amount = invoice[j].amount
                             /\ j # i => invoice'[j] = invoice[j]
  BY <1>1, <1>2 DEF IInv, MoneyOK, Invoice, InvoiceStatus
<1>4. Settled(req[q]) => Covered(i)
  BY <1>1 DEF Settled, Covered, IInv, MoneyOK, Invoice
<1>a. \A j \in Invoices : Covered(j)' <=> Covered(j)
  BY <1>2, <1>3 DEF Covered
<1>b. s = "PAID" => Settled(req[q])
  OBVIOUS
<1>. HIDE DEF s
<1>c. PaidIsCovered'
  <2>1. ASSUME NEW j \in Invoices, invoice'[j].status = "PAID"
        PROVE  Covered(j)
    BY <2>1, <1>b, <1>3, <1>4 DEF PaidIsCovered, IInv, MoneyOK
  <2>. QED
    BY <2>1, <1>a DEF PaidIsCovered
<1>d. ~(i >= nextInvoice)
  <2>1. paid[i] # 0
    BY <1>1 DEF IInv, MoneyOK
  <2>. QED
    BY <1>1, <2>1 DEF IInv, MoneyOK, FreshInvoices
<1>5. MoneyOK'
  BY <1>2, <1>3, <1>c, <1>d DEF IInv, MoneyOK, FreshInvoices
<1>6. CoveredStays
  BY <1>2, <1>3, <1>a DEF CoveredStays, CardCovered, IInv, MoneyOK
<1>op. "post" \in Ops
  BY DEF Ops
<1>7. PICK x \in Request : x = [req[q] EXCEPT !.op = "post"] /\ x.op = "post" /\ x.id = i
  BY <1>1, <1>op, NextOp
<1>8. Remembers(x)'
  BY <1>1, <1>7 DEF Remembers
<1>9. CardsOK'
  BY CardsSame DEF PaySaveInvoice, IInv
<1>10. req' = [req EXCEPT ![q] = x]
  BY <1>7 DEF PaySaveInvoice, IInv
<1>. QED
  BY <1>5, <1>6, <1>8, <1>9, <1>10, SetRequest DEF IInv

LEMMA PayPostOK ==
  ASSUME IInv, NEW q \in Requests, PayPost(q)
  PROVE  IInv'
<1>1. req[q].id \in Invoices /\ req[q].amount \in Nat
  BY DEF PayPost, IInv, MemoryOK, Remembers, Request
<1>2. /\ posted' \in [Invoices -> Nat]
      /\ UNCHANGED <<invoice, nextInvoice, paid>>
  BY <1>1 DEF PayPost, PostedAmount, IInv, MoneyOK
<1>3. MoneyOK'
  BY <1>2 DEF IInv, MoneyOK, PaidIsCovered, Covered, FreshInvoices
<1>4. CoveredStays
  BY <1>2 DEF CoveredStays, CardCovered, Covered, IInv, MoneyOK
<1>5. CardsOK'
  BY CardsSame DEF PayPost, IInv
<1>. QED
  BY <1>3, <1>4, <1>5, EndsOK DEF PayPost

-----------------------------------------------------------------------------
(***************************************************************************)
(* Job cards and deliveries.                                               *)
(***************************************************************************)

\* A handler has read job cards.
LEMMA HoldCardsOK ==
  ASSUME IInv, NEW q \in Requests,
         NEW op \in {"create", "dispatch", "pod", "cancel", "override", "approve"}, NEW d \in Nat,
         NEW cards \in SUBSET Cards, NEW entity \in [Cards -> Card],
         op \notin {"override", "approve"} => d \in Deliveries,
         op = "pod" => \A c \in cards : entity[c].oow => CardCovered(c),
         HoldCards(q, op, d, cards, entity),
         saves' \in [Cards -> Nat], nextDelivery' \in Nat \ {0}
  PROVE  IInv'
<1>. DEFINE x == [NoRequest EXCEPT !.op = op, !.id = d, !.members = cards, !.entity = entity]
<1>op. op \in Ops
  BY DEF Ops
<1>1. /\ x \in Request
      /\ x.op = op /\ x.id = d /\ x.members = cards /\ x.entity = entity
  BY <1>op, NoRequestFacts DEF Request
<1>2. UNCHANGED moneyVars /\ req' = [req EXCEPT ![q] = x] /\ card' = card /\ delivery' = delivery
      /\ restored' = restored
  BY DEF HoldCards
<1>3. CardsOK'
  BY <1>2 DEF CardsOK, IInv
<1>. HIDE DEF x
<1>4. Remembers(x)
  BY <1>1 DEF Remembers
<1>. QED
  BY <1>1, <1>2, <1>3, <1>4, OnlyRequest

LEMMA SelectCardsOK ==
  ASSUME IInv, NEW q \in Requests, SelectCards(q)
  PROVE  IInv'
<1>. DEFINE x == [req[q] EXCEPT !.selected = TRUE, !.base = card]
<1>1. req[q] \in Request /\ Remembers(req[q]) /\ card \in [Cards -> Card]
  BY DEF IInv, MemoryOK, CardsOK
<1>2. /\ x \in Request /\ x.op = req[q].op /\ x.id = req[q].id /\ x.amount = req[q].amount
      /\ x.seen = req[q].seen /\ x.members = req[q].members /\ x.entity = req[q].entity
  BY <1>1 DEF Request
<1>3. req' = [req EXCEPT ![q] = x] /\ UNCHANGED <<cardVars, moneyVars>>
  BY DEF SelectCards
<1>4. CardsOK'
  BY <1>3, CardsSame DEF IInv
<1>. HIDE DEF x
<1>5. Remembers(x)
  BY <1>1, <1>2 DEF Remembers
<1>. QED
  BY <1>2, <1>3, <1>4, <1>5, OnlyRequest

\* The cards after an UPDATE have their type.
LEMMA UpdatedType ==
  ASSUME card \in [Cards -> Card], NEW x \in Request
  PROVE  Updated(x) \in [Cards -> Card]
<1>. DEFINE row(c) == [status   |-> Put(x.entity[c].status, x.base[c].status, card[c].status),
                       oow      |-> Put(x.entity[c].oow, x.base[c].oow, card[c].oow),
                       delivery |-> Put(x.entity[c].delivery, x.base[c].delivery,
                                        card[c].delivery)]
<1>1. ASSUME NEW c \in Cards
      PROVE  row(c) \in Card /\ card[c] \in Card
  <2>1. x.entity[c] \in Card /\ x.base[c] \in Card /\ card[c] \in Card
    BY DEF Request
  <2>2. /\ Put(x.entity[c].status, x.base[c].status, card[c].status)
             \in {"QC_PASSED", "DELIVERED"}
        /\ Put(x.entity[c].oow, x.base[c].oow, card[c].oow) \in BOOLEAN
        /\ Put(x.entity[c].delivery, x.base[c].delivery, card[c].delivery)
             \in 0..MaxDeliveries
    BY <2>1 DEF Card, Put
  <2>. QED
    BY <2>1, <2>2 DEF Card
<1>2. Updated(x) = [c \in Cards |-> IF c \in x.members THEN row(c) ELSE card[c]]
  BY DEF Updated
<1>. HIDE DEF row
<1>. QED
  BY <1>1, <1>2

\* A handler updates its cards and a delivery.
LEMMA UpdateCardsOK ==
  ASSUME IInv, NEW q \in Requests, NEW op \in Ops, UpdateCards(q, op),
         restored' \subseteq Cards,
         delivery' \in [Deliveries -> DeliveryStatus], nextDelivery' = nextDelivery
  PROVE  IInv'
<1>1. req[q] \in Request /\ card \in [Cards -> Card]
  BY DEF IInv, CardsOK
<1>2. card' \in [Cards -> Card] /\ saves' = saves /\ UNCHANGED moneyVars
  BY <1>1, UpdatedType DEF UpdateCards
<1>3. CardsOK'
  BY <1>2 DEF CardsOK, IInv
<1>4. MoneyOK' /\ CoveredStays
  BY <1>2, CoveredStaysIfSame DEF IInv
<1>. QED
  BY <1>3, <1>4, EndsOK DEF UpdateCards

LEMMA SaveReadOK ==
  ASSUME IInv, NEW q \in Requests, NEW c \in Cards, OverrideRead(q, c) \/ ApproveRead(q, c)
  PROVE  IInv'
<1>1. PICK op \in {"override", "approve"}, entity \in [Cards -> Card] : SaveRead(q, op, c, entity)
  <2>1. card \in [Cards -> Card] /\ [card EXCEPT ![c].oow = ~@] \in [Cards -> Card]
    BY DEF IInv, CardsOK, Card
  <2>. QED
    BY <2>1 DEF OverrideRead, ApproveRead
<1>2. /\ saves' \in [Cards -> Nat] /\ nextDelivery' \in Nat \ {0}
      /\ HoldCards(q, op, 0, {c}, entity)
  BY <1>1 DEF SaveRead, IInv, CardsOK
<1>. QED
  BY <1>2, HoldCardsOK

LEMMA CreateReadOK ==
  ASSUME IInv, NEW q \in Requests, NEW cards \in SUBSET Cards, CreateRead(q, cards)
  PROVE  IInv'
<1>. DEFINE entity == [c \in Cards |-> IF c \in cards
                                       THEN [card[c] EXCEPT !.delivery = nextDelivery]
                                       ELSE card[c]]
<1>1. nextDelivery \in Deliveries /\ nextDelivery \in Nat
      /\ nextDelivery \in 0..MaxDeliveries
  BY BoundsAssumption DEF CreateRead, Deliveries, IInv, CardsOK
<1>2. entity \in [Cards -> Card]
  BY <1>1 DEF IInv, CardsOK, Card
<1>3. saves' \in [Cards -> Nat] /\ nextDelivery' \in Nat \ {0}
  BY <1>1 DEF CreateRead, IInv, CardsOK
<1>4. HoldCards(q, "create", nextDelivery, cards, entity)
  BY DEF CreateRead
<1>. HIDE DEF entity
<1>. QED
  BY <1>1, <1>2, <1>3, <1>4, HoldCardsOK

LEMMA DispatchReadOK ==
  ASSUME IInv, NEW q \in Requests, NEW d \in Deliveries, DispatchRead(q, d)
  PROVE  IInv'
<1>1. d \in Nat /\ NoCards \in [Cards -> Card]
  BY BoundsAssumption DEF Deliveries, NoCards, Card
<1>2. /\ saves' \in [Cards -> Nat] /\ nextDelivery' \in Nat \ {0}
      /\ HoldCards(q, "dispatch", d, {}, NoCards)
  BY DEF DispatchRead, IInv, CardsOK
<1>. QED
  BY <1>1, <1>2, HoldCardsOK

LEMMA CancelReadOK ==
  ASSUME IInv, NEW q \in Requests, NEW d \in Deliveries, CancelRead(q, d)
  PROVE  IInv'
<1>. DEFINE entity == [c \in Cards |-> IF c \in Members(d)
                                       THEN [card[c] EXCEPT !.delivery = 0]
                                       ELSE card[c]]
<1>1. d \in Nat /\ 0 \in 0..MaxDeliveries /\ Members(d) \in SUBSET Cards
  BY BoundsAssumption DEF Deliveries, Members
<1>2. entity \in [Cards -> Card]
  BY <1>1 DEF IInv, CardsOK, Card
<1>3. /\ saves' \in [Cards -> Nat] /\ nextDelivery' \in Nat \ {0}
      /\ HoldCards(q, "cancel", d, Members(d), entity)
  BY DEF CancelRead, IInv, CardsOK
<1>. HIDE DEF entity
<1>. QED
  BY <1>1, <1>2, <1>3, HoldCardsOK

\* The one place where PAID is relied on: what capturePod has checked is covered.
LEMMA PodReadOK ==
  ASSUME IInv, NEW q \in Requests, NEW d \in Deliveries, PodRead(q, d)
  PROVE  IInv'
<1>. DEFINE entity == [c \in Cards |-> IF c \in Members(d)
                                       THEN [card[c] EXCEPT !.status = "DELIVERED"]
                                       ELSE card[c]]
<1>1. d \in Nat /\ Members(d) \in SUBSET Cards
  BY BoundsAssumption DEF Deliveries, Members
<1>2. entity \in [Cards -> Card]
  BY DEF IInv, CardsOK, Card
<1>3. ASSUME NEW c \in Members(d), entity[c].oow
      PROVE  CardCovered(c)
  <2>1. c \in Cards /\ card[c] \in Card
    BY DEF Members, IInv, CardsOK
  <2>2. card[c].oow
    BY <1>3, <2>1 DEF Card
  <2>3. PICK i \in InvoicesOf(c) : invoice[i].status = "PAID"
    BY <1>3, <2>2 DEF PodRead, NoBlockers, Payable
  <2>. QED
    BY <2>3 DEF InvoicesOf, CardCovered, PaidIsCovered, IInv, MoneyOK
<1>4. /\ saves' \in [Cards -> Nat] /\ nextDelivery' \in Nat \ {0}
      /\ HoldCards(q, "pod", d, Members(d), entity)
  BY DEF PodRead, IInv, CardsOK
<1>. HIDE DEF entity
<1>. QED
  BY <1>1, <1>2, <1>3, <1>4, HoldCardsOK

LEMMA DispatchOK ==
  ASSUME IInv, NEW q \in Requests, Dispatch(q)
  PROVE  IInv'
<1>1. delivery' \in [Deliveries -> DeliveryStatus]
  BY DEF Dispatch, DeliveryStatus, IInv, CardsOK
<1>2. CardsOK'
  BY <1>1 DEF Dispatch, IInv, CardsOK
<1>3. MoneyOK' /\ CoveredStays
  BY CoveredStaysIfSame DEF Dispatch, IInv
<1>. QED
  BY <1>2, <1>3, EndsOK DEF Dispatch

LEMMA UpdatesOK ==
  ASSUME IInv, NEW q \in Requests,
         Override(q) \/ Approve(q) \/ Create(q) \/ Pod(q) \/ Cancel(q)
  PROVE  IInv'
<1>1. delivery \in [Deliveries -> DeliveryStatus] /\ restored \subseteq Cards
  BY DEF IInv, CardsOK
<1>2. CASE Override(q) \/ Approve(q)
  <2>1. PICK op \in {"override", "approve"} : SaveWholeCard(q, op)
    BY <1>2 DEF Override, Approve
  <2>2. op \in Ops /\ UpdateCards(q, op) /\ delivery' = delivery /\ nextDelivery' = nextDelivery
    BY <2>1 DEF SaveWholeCard, Ops
  <2>3. restored' \subseteq Cards
    BY <1>1, <2>1 DEF SaveWholeCard, PutBack, IInv, Request
  <2>. QED
    BY <1>1, <2>2, <2>3, UpdateCardsOK
<1>3. CASE Create(q)
  <2>1. UpdateCards(q, "create") /\ "create" \in Ops /\ nextDelivery' = nextDelivery
        /\ restored' \subseteq Cards /\ delivery' \in [Deliveries -> DeliveryStatus]
    BY <1>1, <1>3 DEF Create, Ops, DeliveryStatus
  <2>. QED
    BY <2>1, UpdateCardsOK
<1>4. CASE Pod(q)
  <2>1. UpdateCards(q, "pod") /\ "pod" \in Ops /\ nextDelivery' = nextDelivery
        /\ restored' \subseteq Cards /\ delivery' \in [Deliveries -> DeliveryStatus]
    BY <1>1, <1>4 DEF Pod, Ops, DeliveryStatus
  <2>. QED
    BY <2>1, UpdateCardsOK
<1>5. CASE Cancel(q)
  <2>1. UpdateCards(q, "cancel") /\ "cancel" \in Ops /\ nextDelivery' = nextDelivery
        /\ restored' \subseteq Cards /\ delivery' \in [Deliveries -> DeliveryStatus]
    BY <1>1, <1>5 DEF Cancel, Ops, DeliveryStatus
  <2>. QED
    BY <2>1, UpdateCardsOK
<1>. QED
  BY <1>2, <1>3, <1>4, <1>5

LEMMA AbandonOK ==
  ASSUME IInv, NEW q \in Requests, Abandon(q)
  PROVE  IInv'
<1>1. CardsOK' /\ MoneyOK' /\ CoveredStays
  BY CardsSame, CoveredStaysIfSame DEF Abandon, IInv
<1>. QED
  BY <1>1, EndsOK DEF Abandon

-----------------------------------------------------------------------------
LEMMA InitIInv == Init => IInv
<1>. SUFFICES ASSUME Init PROVE IInv
  OBVIOUS
<1>1. CardsOK
  BY BoundsAssumption DEF Init, CardsOK, Card, DeliveryStatus
<1>2. AnyCard \in Cards
  BY CardsAssumption DEF AnyCard
<1>3. [status |-> "NONE", card |-> AnyCard, amount |-> 0] \in Invoice
  BY <1>2 DEF Invoice, InvoiceStatus
<1>4. MoneyOK
  BY <1>3 DEF Init, MoneyOK, PaidIsCovered, FreshInvoices
<1>5. MemoryOK /\ req \in [Requests -> Request]
  BY NoRequestFacts DEF Init, MemoryOK, Remembers
<1>. QED
  BY <1>1, <1>4, <1>5 DEF IInv

LEMMA MoneyStepIInv ==
  ASSUME IInv, NEW q \in Requests, MoneyStep(q)
  PROVE  IInv'
<1>1. ASSUME NEW i \in Invoices, RegenerateRead(q, i) PROVE IInv'
  BY <1>1, ReadInvoiceOK DEF RegenerateRead
<1>2. ASSUME NEW i \in Invoices, NEW n \in PaymentAmounts, PayRead(q, i, n) PROVE IInv'
  <2>1. n \in Nat /\ n > 0
    BY AmountsAssumption
  <2>. QED
    BY <1>2, <2>1, ReadInvoiceOK DEF PayRead
<1>. QED
  BY <1>1, <1>2, RegenerateRemoveOK, PaySavePaymentOK, PaySaveInvoiceOK, PayPostOK,
     RegenerateDraftOK DEF MoneyStep

LEMMA DeliveryStepIInv ==
  ASSUME IInv, NEW q \in Requests, DeliveryStep(q)
  PROVE  IInv'
BY SelectCardsOK, UpdatesOK, DispatchOK, SaveReadOK, CreateReadOK, DispatchReadOK,
   PodReadOK, CancelReadOK DEF DeliveryStep

LEMMA StutterIInv == IInv /\ UNCHANGED vars => IInv'
<1>. SUFFICES ASSUME IInv, UNCHANGED vars PROVE IInv'
  OBVIOUS
<1>1. CardsOK' /\ MoneyOK' /\ CoveredStays /\ req' = req
  BY CardsSame, CoveredStaysIfSame DEF vars, cardVars, moneyVars, IInv
<1>2. MemoryOK' /\ req' \in [Requests -> Request]
  BY <1>1, OtherRequest DEF IInv, MemoryOK
<1>. QED
  BY <1>1, <1>2 DEF IInv

LEMMA NextIInv == IInv /\ [Next]_vars => IInv'
<1>. SUFFICES ASSUME IInv, [Next]_vars PROVE IInv'
  OBVIOUS
<1>1. CASE UNCHANGED vars
  BY <1>1, StutterIInv
<1>2. CASE Next
  BY <1>2, GetOrCreateOK, MoneyStepIInv, DeliveryStepIInv, AbandonOK DEF Next
<1>. QED
  BY <1>1, <1>2

LEMMA InvariantIInv == Spec => []IInv
BY InitIInv, NextIInv, PTL DEF Spec

\* Every variable keeps its type.
THEOREM TypeCorrect == Spec => []TypeOK
<1>1. IInv => TypeOK
  BY DEF IInv, CardsOK, MoneyOK, TypeOK
<1>. QED
  BY <1>1, InvariantIInv, PTL

\* An invoice says PAID only when the payments recorded for it cover it.
THEOREM PaidMeansCovered == Spec => []PaidIsCovered
<1>1. IInv => PaidIsCovered
  BY DEF IInv, MoneyOK
<1>. QED
  BY <1>1, InvariantIInv, PTL

\* What capturePod found out of warranty is paid for when it is handed back.
THEOREM NoUnpaidHandover == Spec => HandoverCovered
<1>1. IInv /\ [Next]_vars =>
        [\A q \in Requests : Pod(q) =>
           \A c \in req[q].members :
             req[q].entity[c].oow => \E i \in InvoicesOf(c) : Covered(i)]_vars
  <2>. SUFFICES ASSUME IInv, NEW q \in Requests, Pod(q), NEW c \in req[q].members,
                       req[q].entity[c].oow
                PROVE  \E i \in InvoicesOf(c) : Covered(i)
    OBVIOUS
  <2>1. Remembers(req[q]) /\ req[q].op = "pod"
    BY DEF IInv, MemoryOK, Pod, UpdateCards
  <2>2. CardCovered(c)
    BY <2>1 DEF Remembers
  <2>. QED
    BY <2>2 DEF CardCovered, InvoicesOf
<1>. QED
  BY <1>1, InvariantIInv, PTL DEF Spec, HandoverCovered
-----------------------------------------------------------------------------
(***************************************************************************)
(* The ledger.  What has been paid and not yet posted is in the hands of   *)
(* the requests in flight: payments minus postings of an invoice are at    *)
(* least the sum of their amounts.  That sum is not computed here: it is   *)
(* enough that some additive function on the sets of requests has those    *)
(* values on single requests, and each step says how to change it.         *)
(***************************************************************************)
Flying(x, i) == IF x.op \in {"paid", "post"} /\ x.id = i THEN x.amount ELSE 0

IsSum(s, w) ==
  /\ s \in [SUBSET Requests -> Nat]
  /\ \A T \in SUBSET Requests : \A q \in Requests \ T : s[T \union {q}] = s[T] + w[q]

Flights(i) == [q \in Requests |-> Flying(req[q], i)]

PostedOrFlying ==
  \A i \in Invoices : \E s : IsSum(s, Flights(i)) /\ posted[i] + s[Requests] <= paid[i]

\* One value changes, and every sum that counts it.
LEMMA SumChanges ==
  ASSUME NEW w \in [Requests -> Nat], NEW s, IsSum(s, w), NEW q \in Requests, NEW v \in Nat
  PROVE  \E t : IsSum(t, [w EXCEPT ![q] = v]) /\ t[Requests] = (s[Requests] - w[q]) + v
<1>1. PICK u : u = [w EXCEPT ![q] = v]
  OBVIOUS
<1>2. PICK t : t = [T \in SUBSET Requests |-> IF q \in T THEN (s[T] - w[q]) + v ELSE s[T]]
  OBVIOUS
<1>3. ASSUME NEW T \in SUBSET Requests, q \in T PROVE s[T] - w[q] \in Nat
  <2>1. PICK U : U = T \ {q}
    OBVIOUS
  <2>2. U \in SUBSET Requests /\ q \in Requests \ U /\ U \union {q} = T
    BY <1>3, <2>1
  <2>3. s[T] = s[U] + w[q]
    BY <2>2 DEF IsSum
  <2>4. s[U] \in Nat /\ w[q] \in Nat
    BY <2>2 DEF IsSum
  <2>. QED
    BY <2>3, <2>4
<1>4. t \in [SUBSET Requests -> Nat]
  <2>1. ASSUME NEW T \in SUBSET Requests
        PROVE  (IF q \in T THEN (s[T] - w[q]) + v ELSE s[T]) \in Nat
    BY <1>3 DEF IsSum
  <2>. QED
    BY <1>2, <2>1
<1>5. ASSUME NEW T \in SUBSET Requests, NEW r \in Requests \ T PROVE t[T \union {r}] = t[T] + u[r]
  <2>1. /\ T \union {r} \in SUBSET Requests
        /\ s[T \union {r}] = s[T] + w[r] /\ s[T] \in Nat /\ w[r] \in Nat /\ w[q] \in Nat
    BY DEF IsSum
  <2>2. CASE r = q
    BY <1>1, <1>2, <2>1, <2>2
  <2>3. CASE r # q
    BY <1>1, <1>2, <2>1, <2>3
  <2>. QED
    BY <2>2, <2>3
<1>6. IsSum(t, u)
  BY <1>4, <1>5 DEF IsSum
<1>7. t[Requests] = (s[Requests] - w[q]) + v
  BY <1>2
<1>. QED
  BY <1>1, <1>6, <1>7

LEMMA FlyingType == ASSUME NEW x \in Request, NEW i PROVE Flying(x, i) \in Nat
BY DEF Flying, Request

\* A step that writes request q: what it takes out of the air it posts, or drops, and
\* what it puts there has been paid.
LEMMA FlightStep ==
  ASSUME IInv, IInv', PostedOrFlying, NEW q \in Requests, NEW x \in Request,
         req' = [req EXCEPT ![q] = x],
         \A i \in Invoices : (posted'[i] + Flying(x, i)) + paid[i]
                               <= (posted[i] + Flying(req[q], i)) + paid'[i]
  PROVE  PostedOrFlying'
<1>. SUFFICES ASSUME NEW i \in Invoices
              PROVE  \E s : IsSum(s, Flights(i)') /\ posted'[i] + s[Requests] <= paid'[i]
  BY DEF PostedOrFlying, IsSum
<1>1. \A r \in Requests : req[r] \in Request /\ Flying(req[r], i) \in Nat
  BY FlyingType DEF IInv
<1>2. PICK w : w = Flights(i)
  OBVIOUS
<1>3. w \in [Requests -> Nat] /\ w[q] = Flying(req[q], i)
  BY <1>1, <1>2 DEF Flights
<1>4. PICK s : IsSum(s, w) /\ posted[i] + s[Requests] <= paid[i]
  BY <1>2 DEF PostedOrFlying
<1>5. Flying(x, i) \in Nat
  BY FlyingType
<1>6. PICK t : /\ IsSum(t, [w EXCEPT ![q] = Flying(x, i)])
               /\ t[Requests] = (s[Requests] - w[q]) + Flying(x, i)
  <2>1. PICK v \in Nat : v = Flying(x, i)
    BY <1>5
  <2>2. IsSum(s, w)
    BY <1>4
  <2>3. \E t : IsSum(t, [w EXCEPT ![q] = v]) /\ t[Requests] = (s[Requests] - w[q]) + v
    <3>1. w \in [Requests -> Nat] /\ q \in Requests /\ v \in Nat
      BY <1>3, <2>1
    <3>. QED
      BY ONLY <3>1, <2>2, SumChanges
  <2>. QED
    BY <2>1, <2>3
<1>7. Flights(i)' = [w EXCEPT ![q] = Flying(x, i)]
  <2>1. \A r \in Requests : req'[r] = IF r = q THEN x ELSE req[r]
    BY DEF IInv
  <2>2. \A r \in Requests : Flying(req'[r], i) = IF r = q THEN Flying(x, i) ELSE Flying(req[r], i)
    BY <2>1
  <2>3. Flights(i)' = [r \in Requests |-> Flying(req'[r], i)]
    BY DEF Flights, Flying
  <2>. QED
    BY <1>2, <2>2, <2>3 DEF Flights
<1>8. /\ posted[i] \in Nat /\ paid[i] \in Nat /\ posted'[i] \in Nat /\ paid'[i] \in Nat
      /\ s[Requests] \in Nat
  BY <1>4 DEF IInv, MoneyOK, IsSum
<1>9. (posted'[i] + Flying(x, i)) + paid[i] <= (posted[i] + w[q]) + paid'[i]
  BY <1>3
<1>10. w[q] \in Nat
  BY <1>3
<1>11. posted'[i] + t[Requests] <= paid'[i]
  BY <1>4, <1>5, <1>6, <1>8, <1>9, <1>10
<1>. QED
  BY <1>6, <1>7, <1>11

\* A step that writes one request and no money, and puts nothing in the air.
LEMMA FlightKept ==
  ASSUME IInv, IInv', PostedOrFlying, NEW q \in Requests, NEW x \in Request,
         req' = [req EXCEPT ![q] = x], UNCHANGED <<paid, posted>>,
         x.op \notin {"paid", "post"}
  PROVE  PostedOrFlying'
<1>1. ASSUME NEW i \in Invoices
      PROVE  (posted'[i] + Flying(x, i)) + paid[i] <= (posted[i] + Flying(req[q], i)) + paid'[i]
  <2>1. Flying(x, i) = 0 /\ Flying(req[q], i) \in Nat /\ posted[i] \in Nat /\ paid[i] \in Nat
    BY FlyingType DEF Flying, IInv, MoneyOK
  <2>. QED
    BY <2>1
<1>. QED
  BY <1>1, FlightStep

LEMMA FlightSame ==
  ASSUME PostedOrFlying, UNCHANGED <<req, paid, posted>>
  PROVE  PostedOrFlying'
<1>. SUFFICES ASSUME NEW i \in Invoices
              PROVE  \E s : IsSum(s, Flights(i)') /\ posted'[i] + s[Requests] <= paid'[i]
  BY DEF PostedOrFlying, IsSum
<1>1. Flights(i)' = Flights(i)
  BY DEF Flights, Flying
<1>. QED
  BY <1>1 DEF PostedOrFlying

LEMMA FinishFlight ==
  ASSUME IInv, IInv', PostedOrFlying, NEW q \in Requests, Finish(q), UNCHANGED <<paid, posted>>
  PROVE  PostedOrFlying'
<1>1. PICK x \in Request : x = NoRequest /\ x.op = "idle"
  BY NoRequestFacts
<1>2. req' = [req EXCEPT ![q] = x]
  BY <1>1 DEF Finish
<1>. QED
  BY <1>1, <1>2, FlightKept

LEMMA MoneyStepFlight ==
  ASSUME IInv, IInv', PostedOrFlying, NEW q \in Requests, MoneyStep(q)
  PROVE  PostedOrFlying'
<1>0. req[q] \in Request /\ Remembers(req[q]) /\ req \in [Requests -> Request]
  BY DEF IInv, MemoryOK
<1>1. CASE RegenerateRemove(q)
  <2>1. PICK x \in Request : x = [req[q] EXCEPT !.op = "redraft"] /\ x.op = "redraft"
    BY <1>0, NextOp DEF Ops
  <2>. QED
    BY <1>0, <1>1, <2>1, FlightKept DEF RegenerateRemove
<1>2. CASE PaySavePayment(q)
  <2>1. PICK x \in Request : /\ x = [req[q] EXCEPT !.op = "paid"] /\ x.op = "paid"
                             /\ x.id = req[q].id /\ x.amount = req[q].amount
    BY <1>0, NextOp DEF Ops
  <2>2. req' = [req EXCEPT ![q] = x] /\ posted' = posted
    BY <1>0, <1>2, <2>1 DEF PaySavePayment
  <2>3. /\ req[q].op = "pay" /\ req[q].id \in Invoices /\ req[q].amount \in Nat
        /\ paid' = [paid EXCEPT ![req[q].id] = @ + req[q].amount]
    BY <1>0, <1>2 DEF PaySavePayment, Paid, Remembers, Request
  <2>4. ASSUME NEW i \in Invoices
        PROVE  (posted'[i] + Flying(x, i)) + paid[i] <= (posted[i] + Flying(req[q], i)) + paid'[i]
    <3>1. posted[i] \in Nat /\ paid[i] \in Nat
      BY DEF IInv, MoneyOK
    <3>2. paid'[i] = paid[i] + Flying(x, i)
      BY <2>1, <2>3, <3>1 DEF Flying, IInv, MoneyOK
    <3>3. Flying(req[q], i) = 0 /\ Flying(x, i) \in Nat
      BY <2>1, <2>3 DEF Flying
    <3>. QED
      BY <2>2, <3>1, <3>2, <3>3
  <2>. QED
    BY <2>2, <2>4, FlightStep
<1>3. CASE PaySaveInvoice(q)
  <2>1. PICK x \in Request : /\ x = [req[q] EXCEPT !.op = "post"] /\ x.op = "post"
                             /\ x.id = req[q].id /\ x.amount = req[q].amount
    BY <1>0, NextOp DEF Ops
  <2>2. req' = [req EXCEPT ![q] = x] /\ UNCHANGED <<paid, posted>> /\ req[q].op = "paid"
    BY <1>0, <1>3, <2>1 DEF PaySaveInvoice
  <2>3. ASSUME NEW i \in Invoices
        PROVE  (posted'[i] + Flying(x, i)) + paid[i] <= (posted[i] + Flying(req[q], i)) + paid'[i]
    <3>1. Flying(x, i) = Flying(req[q], i) /\ Flying(x, i) \in Nat
      BY <2>1, <2>2, FlyingType DEF Flying
    <3>2. posted[i] \in Nat /\ paid[i] \in Nat
      BY DEF IInv, MoneyOK
    <3>. QED
      BY <2>2, <3>1, <3>2
  <2>. QED
    BY <2>2, <2>3, FlightStep
<1>4. CASE PayPost(q)
  <2>1. req' = [req EXCEPT ![q] = NoRequest] /\ paid' = paid
    BY <1>4 DEF PayPost, Finish
  <2>2. /\ req[q].op = "post" /\ req[q].id \in Invoices /\ req[q].amount \in Nat
        /\ posted' = [posted EXCEPT ![req[q].id] = @ + req[q].amount]
    BY <1>0, <1>4 DEF PayPost, PostedAmount, Remembers, Request
  <2>3. ASSUME NEW i \in Invoices
        PROVE  (posted'[i] + Flying(NoRequest, i)) + paid[i]
                 <= (posted[i] + Flying(req[q], i)) + paid'[i]
    <3>1. posted[i] \in Nat /\ paid[i] \in Nat
      BY DEF IInv, MoneyOK
    <3>2. Flying(NoRequest, i) = 0 /\ Flying(req[q], i) \in Nat
      BY NoRequestFacts, FlyingType, <1>0 DEF Flying
    <3>3. posted'[i] = posted[i] + Flying(req[q], i)
      BY <2>2, <3>1 DEF Flying, IInv, MoneyOK
    <3>. QED
      BY <2>1, <3>1, <3>2, <3>3
  <2>. QED
    BY <2>1, <2>3, NoRequestFacts, FlightStep
<1>5. ASSUME NEW a \in Amounts, RegenerateDraft(q, a) PROVE PostedOrFlying'
  BY <1>5, FinishFlight DEF RegenerateDraft, Draft
<1>6. ASSUME NEW op \in {"regenerate", "pay"}, NEW i \in Invoices, NEW n \in Nat, ReadInvoice(q, op, i, n)
      PROVE  PostedOrFlying'
  <2>1. PICK x : x = [NoRequest EXCEPT !.op = op, !.id = i, !.amount = n, !.seen = paid[i]]
    OBVIOUS
  <2>2. op \in Ops /\ i \in Nat /\ paid[i] \in Nat
    BY BoundsAssumption DEF Ops, Invoices, IInv, MoneyOK
  <2>3. x \in Request /\ x.op = op
    BY <2>1, <2>2, NoRequestFacts DEF Request
  <2>. QED
    BY <1>6, <2>1, <2>3, FlightKept DEF ReadInvoice, moneyVars
<1>7. ASSUME NEW i \in Invoices, RegenerateRead(q, i) PROVE PostedOrFlying'
  BY <1>6, <1>7 DEF RegenerateRead
<1>8. ASSUME NEW i \in Invoices, NEW n \in PaymentAmounts, PayRead(q, i, n) PROVE PostedOrFlying'
  BY <1>6, <1>8, AmountsAssumption DEF PayRead
<1>. QED
  BY <1>1, <1>2, <1>3, <1>4, <1>5, <1>7, <1>8 DEF MoneyStep

LEMMA DeliveryStepFlight ==
  ASSUME IInv, IInv', PostedOrFlying, NEW q \in Requests, DeliveryStep(q)
  PROVE  PostedOrFlying'
<1>0. req[q] \in Request /\ req \in [Requests -> Request] /\ req' \in [Requests -> Request]
  BY DEF IInv
<1>1. CASE SelectCards(q)
  <2>1. PICK x : x = [req[q] EXCEPT !.selected = TRUE, !.base = card]
    OBVIOUS
  <2>2. req' = [req EXCEPT ![q] = x] /\ x.op = req[q].op /\ x \in Request
    BY <1>0, <1>1, <2>1 DEF SelectCards, Request, IInv, CardsOK
  <2>. QED
    BY <1>1, <2>2, FlightKept DEF SelectCards, moneyVars
<1>2. CASE Override(q) \/ Approve(q) \/ Create(q) \/ Pod(q) \/ Cancel(q) \/ Dispatch(q)
  BY <1>2, FinishFlight DEF Override, Approve, SaveWholeCard, Create, Pod, Cancel, Dispatch, UpdateCards, moneyVars
<1>3. ASSUME NEW op \in {"create", "dispatch", "pod", "cancel", "override", "approve"},
             NEW d, NEW cards, NEW entity, HoldCards(q, op, d, cards, entity)
      PROVE  PostedOrFlying'
  <2>1. PICK x : x = [NoRequest EXCEPT !.op = op, !.id = d, !.members = cards, !.entity = entity]
    OBVIOUS
  <2>2. req' = [req EXCEPT ![q] = x] /\ UNCHANGED <<paid, posted>>
    BY <1>3, <2>1 DEF HoldCards, moneyVars
  <2>3. x \in Request
    <3>1. req'[q] = x
      BY <1>0, <2>2
    <3>. QED
      BY <1>0, <3>1
  <2>4. x.op = op
    BY <2>1 DEF NoRequest
  <2>. QED
    BY <1>3, <2>2, <2>3, <2>4, FlightKept
<1>4. ASSUME NEW c \in Cards, OverrideRead(q, c) \/ ApproveRead(q, c) PROVE PostedOrFlying'
  BY <1>3, <1>4 DEF OverrideRead, ApproveRead, SaveRead
<1>5. ASSUME NEW cards \in SUBSET Cards, CreateRead(q, cards) PROVE PostedOrFlying'
  BY <1>3, <1>5 DEF CreateRead
<1>6. ASSUME NEW d \in Deliveries, DispatchRead(q, d) \/ PodRead(q, d) \/ CancelRead(q, d)
      PROVE  PostedOrFlying'
  BY <1>3, <1>6 DEF DispatchRead, PodRead, CancelRead
<1>. QED
  BY <1>1, <1>2, <1>4, <1>5, <1>6 DEF DeliveryStep

LEMMA InitFlight == Init => PostedOrFlying
<1>. SUFFICES ASSUME Init, NEW i \in Invoices
              PROVE  \E s : IsSum(s, Flights(i)) /\ posted[i] + s[Requests] <= paid[i]
  BY DEF PostedOrFlying
<1>1. \A q \in Requests : Flights(i)[q] = 0
  BY NoRequestFacts DEF Init, Flights, Flying
<1>2. PICK s : s = [T \in SUBSET Requests |-> 0]
  OBVIOUS
<1>3. IsSum(s, Flights(i))
  BY <1>1, <1>2 DEF IsSum
<1>4. posted[i] + s[Requests] <= paid[i]
  BY <1>2 DEF Init
<1>. QED
  BY <1>3, <1>4

LEMMA NextFlight == IInv /\ IInv' /\ PostedOrFlying /\ [Next]_vars => PostedOrFlying'
<1>. SUFFICES ASSUME IInv, IInv', PostedOrFlying, [Next]_vars PROVE PostedOrFlying'
  OBVIOUS
<1>1. CASE UNCHANGED vars
  BY <1>1, FlightSame DEF vars
<1>2. ASSUME NEW c \in Cards, NEW a \in Amounts, GetOrCreateForJobCard(c, a) PROVE PostedOrFlying'
  BY <1>2, FlightSame DEF GetOrCreateForJobCard, Draft
<1>3. ASSUME NEW q \in Requests, Abandon(q) PROVE PostedOrFlying'
  BY <1>3, FinishFlight DEF Abandon, moneyVars
<1>. QED
  BY <1>1, <1>2, <1>3, MoneyStepFlight, DeliveryStepFlight DEF Next

\* GlLedgerService: whatever payments overlap and wherever they die, the ledger never
\* shows more for an invoice than the payments recorded for it.
THEOREM LedgerNeverAhead == Spec => []PostedIsPaid
<1>1. Spec => []PostedOrFlying
  BY InitFlight, NextFlight, InvariantIInv, PTL DEF Spec
<1>2. IInv /\ PostedOrFlying => PostedIsPaid
  <2>. SUFFICES ASSUME IInv, PostedOrFlying, NEW i \in Invoices PROVE posted[i] <= paid[i]
    BY DEF PostedIsPaid
  <2>1. PICK s : IsSum(s, Flights(i)) /\ posted[i] + s[Requests] <= paid[i]
    BY DEF PostedOrFlying
  <2>2. s[Requests] \in Nat /\ posted[i] \in Nat /\ paid[i] \in Nat
    BY <2>1 DEF IsSum, IInv, MoneyOK
  <2>. QED
    BY <2>1, <2>2
<1>. QED
  BY <1>1, <1>2, InvariantIInv, PTL

-----------------------------------------------------------------------------
(***************************************************************************)
(* Whose card it is.  Between its read and its commit a create holds cards *)
(* of no delivery, a proof of delivery or a cancellation cards of its own: *)
(* the advisory locks leave nobody who could change that, but the save of  *)
(* an override or an approval that puts back what it read.                 *)
(***************************************************************************)
Exclusive ==
  \A q, r \in Requests :
    /\ req[q].op = "create" /\ req[r].op = "create" => q = r
    /\ req[q].op \in {"pod", "cancel"} /\ req[r].op \in {"pod", "cancel"} /\ req[q].id = req[r].id => q = r

Holds(x) ==
  \A c \in x.members \ restored :
    /\ x.op = "create" => card[c].delivery = 0
    /\ x.op \in {"pod", "cancel"} =>
         /\ card[c].delivery = x.id /\ x.id # 0
         /\ x.selected => x.base[c].delivery = x.id
         /\ x.entity[c].delivery = IF x.op = "pod" THEN x.id ELSE 0

ClaimInv == Exclusive /\ \A q \in Requests : Holds(req[q])

\* What a step may do to the cards.
CardMoves ==
  \A c \in Cards : c \notin restored' /\ card[c].delivery # 0 =>
                     card'[c].delivery \in {0, card[c].delivery}

LEMMA SameCardsHold ==
  ASSUME NEW x \in Request, Holds(x), card' = card, restored' = restored
  PROVE  Holds(x)'
BY DEF Holds

\* Request q is written; the others keep their cards.
LEMMA RequestHolds ==
  ASSUME IInv, IInv', ClaimInv, NEW q \in Requests, NEW x \in Request,
         req' = [req EXCEPT ![q] = x], Holds(x)', card' = card, restored' = restored,
         x.op = "create" => \A r \in Requests \ {q} : req[r].op # "create",
         x.op \in {"pod", "cancel"} =>
           \A r \in Requests \ {q} : req[r].op \in {"pod", "cancel"} => req[r].id # x.id
  PROVE  ClaimInv' /\ CardMoves
<1>1. \A r \in Requests : req[r] \in Request /\ req'[r] = IF r = q THEN x ELSE req[r]
  BY DEF IInv
<1>2. Exclusive'
  BY <1>1 DEF ClaimInv, Exclusive
<1>3. ASSUME NEW r \in Requests PROVE Holds(req[r])'
  <2>1. CASE r = q
    BY <1>1, <2>1 DEF Holds
  <2>2. CASE r # q
    <3>1. PICK y \in Request : y = req[r]
      BY <1>1
    <3>2. Holds(y)
      BY <3>1 DEF ClaimInv
    <3>3. Holds(y)'
      BY <3>2, SameCardsHold
    <3>. QED
      BY <1>1, <2>2, <3>1, <3>3 DEF Holds
  <2>. QED
    BY <2>1, <2>2
<1>4. CardMoves
  BY DEF CardMoves
<1>. QED
  BY <1>2, <1>3, <1>4 DEF ClaimInv

\* Request q ends with an update of its cards.
LEMMA UpdateHolds ==
  ASSUME IInv, IInv', ClaimInv, NEW q \in Requests,
         NEW op \in {"create", "pod", "cancel", "override", "approve"}, UpdateCards(q, op),
         restored' = IF op \in {"override", "approve"} THEN restored \union PutBack(req[q])
                                                       ELSE restored
  PROVE  ClaimInv' /\ CardMoves
<1>1. /\ req[q] \in Request /\ req[q].op = op /\ req[q].selected /\ card' = Updated(req[q])
      /\ Holds(req[q]) /\ req[q].members \subseteq Cards
      /\ req' = [req EXCEPT ![q] = NoRequest] /\ restored \subseteq restored'
  BY DEF IInv, UpdateCards, Finish, ClaimInv, Request
<1>2. \A c \in Cards \ req[q].members : card'[c] = card[c]
  BY <1>1 DEF Updated
<1>3. \A c \in req[q].members :
        card'[c].delivery = Put(req[q].entity[c].delivery, req[q].base[c].delivery, card[c].delivery)
  BY <1>1 DEF Updated
<1>4. ASSUME NEW c \in req[q].members, c \notin restored'
      PROVE  /\ op \in {"override", "approve"} => card'[c].delivery = card[c].delivery
             /\ op = "create" => card[c].delivery = 0
             /\ op = "pod" => card[c].delivery = req[q].id /\ card'[c].delivery = card[c].delivery
             /\ op = "cancel" => card[c].delivery = req[q].id /\ card'[c].delivery = 0
             /\ op \in {"pod", "cancel"} => req[q].id # 0
  <2>1. CASE op \in {"override", "approve"}
    BY <1>3, <1>4, <2>1 DEF PutBack, Put
  <2>2. CASE op \in {"create", "pod", "cancel"}
    BY <1>1, <1>3, <1>4, <2>2 DEF Holds, Put
  <2>. QED
    BY <2>1, <2>2
<1>5. CardMoves
  BY <1>2, <1>4 DEF CardMoves
<1>6. \A r \in Requests : req[r] \in Request /\ req'[r] = IF r = q THEN NoRequest ELSE req[r]
  BY <1>1 DEF IInv
<1>7. Exclusive'
  BY <1>6, NoRequestFacts DEF ClaimInv, Exclusive
<1>8. ASSUME NEW r \in Requests PROVE Holds(req[r])'
  <2>1. CASE r = q
    BY <1>6, <2>1 DEF Holds, NoRequest
  <2>2. CASE r # q
    <3>1. req'[r] = req[r] /\ req[r] \in Request /\ Holds(req[r]) /\ req[r].members \subseteq Cards
      BY <1>6, <2>2 DEF ClaimInv, Request
    <3>2. ASSUME NEW c \in req[r].members, c \notin restored', req[r].op \in {"create", "pod", "cancel"}
          PROVE  card'[c].delivery = card[c].delivery
      <4>1. CASE c \notin req[q].members
        BY <1>2, <3>1, <4>1
      <4>2. CASE c \in req[q].members
        <5>1. /\ req[r].op = "create" => card[c].delivery = 0
              /\ req[r].op \in {"pod", "cancel"} => card[c].delivery = req[r].id /\ req[r].id # 0
          BY <1>1, <3>1, <3>2 DEF Holds
        <5>2. op = "create" => req[r].op # "create"
          BY <1>1, <2>2 DEF ClaimInv, Exclusive
        <5>3. op \in {"pod", "cancel"} /\ req[r].op \in {"pod", "cancel"} => req[r].id # req[q].id
          BY <1>1, <2>2 DEF ClaimInv, Exclusive
        <5>. QED
          BY <1>4, <3>2, <4>2, <5>1, <5>2, <5>3
      <4>. QED
        BY <4>1, <4>2
    <3>3. \A c \in req[r].members \ restored' :
            /\ req[r].op = "create" => card'[c].delivery = 0
            /\ req[r].op \in {"pod", "cancel"} =>
                 /\ card'[c].delivery = req[r].id /\ req[r].id # 0
                 /\ req[r].selected => req[r].base[c].delivery = req[r].id
                 /\ req[r].entity[c].delivery = IF req[r].op = "pod" THEN req[r].id ELSE 0
      BY <1>1, <3>1, <3>2 DEF Holds
    <3>. QED
      BY <3>1, <3>3 DEF Holds
  <2>. QED
    BY <2>1, <2>2
<1>. QED
  BY <1>5, <1>7, <1>8 DEF ClaimInv

\* A step of no handler that has read cards.
LEMMA BystanderHolds ==
  ASSUME IInv, IInv', ClaimInv, NEW q \in Requests, NEW x \in Request,
         req' = [req EXCEPT ![q] = x], x.op \notin {"create", "pod", "cancel"},
         card' = card, restored' = restored
  PROVE  ClaimInv' /\ CardMoves
<1>1. Holds(x)'
  BY DEF Holds
<1>. QED
  BY <1>1, RequestHolds

LEMMA FinishHolds ==
  ASSUME IInv, IInv', ClaimInv, NEW q \in Requests, Finish(q), card' = card, restored' = restored
  PROVE  ClaimInv' /\ CardMoves
<1>1. PICK x \in Request : x = NoRequest /\ x.op = "idle"
  BY NoRequestFacts
<1>2. req' = [req EXCEPT ![q] = x]
  BY <1>1 DEF Finish
<1>. QED
  BY <1>1, <1>2, BystanderHolds

LEMMA MoneyStepHolds ==
  ASSUME IInv, IInv', ClaimInv, NEW q \in Requests, MoneyStep(q)
  PROVE  ClaimInv' /\ CardMoves
<1>0. req[q] \in Request /\ req \in [Requests -> Request]
  BY DEF IInv
<1>1. CASE RegenerateRemove(q) \/ PaySavePayment(q) \/ PaySaveInvoice(q)
  <2>1. PICK op \in {"redraft", "paid", "post"} : req' = [req EXCEPT ![q].op = op]
    BY <1>1 DEF RegenerateRemove, PaySavePayment, PaySaveInvoice
  <2>2. PICK x \in Request : x = [req[q] EXCEPT !.op = op] /\ x.op = op
    <3>1. op \in Ops
      BY DEF Ops
    <3>. QED
      BY <1>0, <3>1, NextOp
  <2>3. req' = [req EXCEPT ![q] = x]
    BY <1>0, <2>1, <2>2
  <2>4. card' = card /\ restored' = restored
    BY <1>1 DEF RegenerateRemove, PaySavePayment, PaySaveInvoice, cardVars
  <2>. QED
    BY <2>2, <2>3, <2>4, BystanderHolds
<1>2. CASE PayPost(q)
  BY <1>2, FinishHolds DEF PayPost, cardVars
<1>3. ASSUME NEW a \in Amounts, RegenerateDraft(q, a) PROVE ClaimInv' /\ CardMoves
  BY <1>3, FinishHolds DEF RegenerateDraft, Draft, cardVars
<1>4. ASSUME NEW op \in {"regenerate", "pay"}, NEW i \in Invoices, NEW n \in Nat, ReadInvoice(q, op, i, n)
      PROVE  ClaimInv' /\ CardMoves
  <2>1. PICK x : x = [NoRequest EXCEPT !.op = op, !.id = i, !.amount = n, !.seen = paid[i]]
    OBVIOUS
  <2>2. op \in Ops /\ i \in Nat /\ paid[i] \in Nat
    BY BoundsAssumption DEF Ops, Invoices, IInv, MoneyOK
  <2>3. x \in Request /\ x.op = op
    BY <2>1, <2>2, NoRequestFacts DEF Request
  <2>. QED
    BY <1>4, <2>1, <2>3, BystanderHolds DEF ReadInvoice, cardVars
<1>5. ASSUME NEW i \in Invoices, RegenerateRead(q, i) PROVE ClaimInv' /\ CardMoves
  BY <1>4, <1>5 DEF RegenerateRead
<1>6. ASSUME NEW i \in Invoices, NEW n \in PaymentAmounts, PayRead(q, i, n) PROVE ClaimInv' /\ CardMoves
  BY <1>4, <1>6, AmountsAssumption DEF PayRead
<1>. QED
  BY <1>1, <1>2, <1>3, <1>5, <1>6 DEF MoneyStep

\* A handler has read the cards it will update.
LEMMA ReadHolds ==
  ASSUME IInv, IInv', ClaimInv, NEW q \in Requests,
         NEW op \in {"create", "dispatch", "pod", "cancel", "override", "approve"},
         NEW d, NEW cards, NEW entity, HoldCards(q, op, d, cards, entity),
         \A c \in cards :
           /\ op = "create" => card[c].delivery = 0
           /\ op \in {"pod", "cancel"} => /\ card[c].delivery = d /\ d # 0
                                          /\ entity[c].delivery = IF op = "pod" THEN d ELSE 0,
         op = "create" => \A r \in Requests : req[r].op # "create",
         op \in {"pod", "cancel"} =>
           \A r \in Requests : req[r].op \in {"pod", "cancel"} => req[r].id # d
  PROVE  ClaimInv' /\ CardMoves
<1>1. PICK x : x = [NoRequest EXCEPT !.op = op, !.id = d, !.members = cards, !.entity = entity]
  OBVIOUS
<1>2. req' = [req EXCEPT ![q] = x] /\ card' = card /\ restored' = restored
  BY <1>1 DEF HoldCards
<1>3. x \in Request
  <2>1. req'[q] = x /\ req'[q] \in Request
    BY <1>2 DEF IInv
  <2>. QED
    BY <2>1
<1>4. x.op = op /\ x.id = d /\ x.members = cards /\ x.entity = entity /\ x.selected = FALSE
  BY <1>1 DEF NoRequest
<1>5. Holds(x)'
  BY <1>2, <1>4 DEF Holds
<1>. QED
  BY <1>2, <1>3, <1>4, <1>5, RequestHolds

LEMMA DeliveryStepHolds ==
  ASSUME IInv, IInv', ClaimInv, NEW q \in Requests, DeliveryStep(q)
  PROVE  ClaimInv' /\ CardMoves
<1>0. /\ req[q] \in Request /\ Holds(req[q])
      /\ card \in [Cards -> Card]
  BY DEF IInv, ClaimInv, CardsOK
<1>1. CASE SelectCards(q)
  <2>1. PICK x : x = [req[q] EXCEPT !.selected = TRUE, !.base = card]
    OBVIOUS
  <2>2. /\ req' = [req EXCEPT ![q] = x] /\ x \in Request
        /\ x.op = req[q].op /\ x.id = req[q].id /\ x.members = req[q].members
        /\ x.entity = req[q].entity /\ x.base = card /\ x.selected
        /\ card' = card /\ restored' = restored
    BY <1>0, <1>1, <2>1 DEF SelectCards, Request, cardVars
  <2>3. Holds(x)'
    BY <1>0, <2>2 DEF Holds
  <2>4. /\ x.op = "create" => \A r \in Requests \ {q} : req[r].op # "create"
        /\ x.op \in {"pod", "cancel"} =>
             \A r \in Requests \ {q} : req[r].op \in {"pod", "cancel"} => req[r].id # x.id
    BY <2>2 DEF ClaimInv, Exclusive
  <2>. QED
    BY <2>2, <2>3, <2>4, RequestHolds
<1>2. CASE Override(q) \/ Approve(q) \/ Create(q) \/ Pod(q) \/ Cancel(q)
  BY <1>2, UpdateHolds DEF Override, Approve, SaveWholeCard, Create, Pod, Cancel
<1>3. CASE Dispatch(q)
  BY <1>3, FinishHolds DEF Dispatch
<1>4. ASSUME NEW c \in Cards, OverrideRead(q, c) \/ ApproveRead(q, c) PROVE ClaimInv' /\ CardMoves
  <2>1. PICK op \in {"override", "approve"} : \E entity : HoldCards(q, op, 0, {c}, entity)
    BY <1>4 DEF OverrideRead, ApproveRead, SaveRead
  <2>2. PICK entity : HoldCards(q, op, 0, {c}, entity)
    BY <2>1
  <2>. QED
    BY <2>2, ReadHolds
<1>5. ASSUME NEW cards \in SUBSET Cards, CreateRead(q, cards) PROVE ClaimInv' /\ CardMoves
  <2>1. PICK entity : HoldCards(q, "create", nextDelivery, cards, entity)
    BY <1>5 DEF CreateRead
  <2>2. PICK d : d = nextDelivery
    OBVIOUS
  <2>3. /\ \A r \in Requests : req[r].op # "create"
        /\ \A c \in cards : card[c].delivery = 0
    BY <1>5 DEF CreateRead, SequenceFree
  <2>. QED
    BY <2>1, <2>2, <2>3, ReadHolds
<1>6. ASSUME NEW d \in Deliveries, DispatchRead(q, d) PROVE ClaimInv' /\ CardMoves
  BY <1>6, ReadHolds DEF DispatchRead
<1>7. ASSUME NEW d \in Deliveries, PodRead(q, d) PROVE ClaimInv' /\ CardMoves
  <2>1. PICK entity : entity = [c \in Cards |-> IF c \in Members(d) THEN [card[c] EXCEPT !.status = "DELIVERED"]
                                                                     ELSE card[c]]
    OBVIOUS
  <2>2. PICK cards \in SUBSET Cards : cards = Members(d)
    BY DEF Members
  <2>3. \A c \in cards : card[c].delivery = d /\ entity[c].delivery = d
    BY <1>0, <2>1, <2>2 DEF Members, Card
  <2>4. HoldCards(q, "pod", d, cards, entity)
    BY <1>7, <2>1, <2>2 DEF PodRead
  <2>5. d # 0 /\ \A r \in Requests : req[r].op \in {"pod", "cancel"} => req[r].id # d
    BY <1>7 DEF PodRead, DeliveryFree, Deliveries
  <2>. QED
    BY <2>3, <2>4, <2>5, ReadHolds
<1>8. ASSUME NEW d \in Deliveries, CancelRead(q, d) PROVE ClaimInv' /\ CardMoves
  <2>1. PICK entity : entity = [c \in Cards |-> IF c \in Members(d) THEN [card[c] EXCEPT !.delivery = 0]
                                                                     ELSE card[c]]
    OBVIOUS
  <2>2. PICK cards \in SUBSET Cards : cards = Members(d)
    BY DEF Members
  <2>3. \A c \in cards : card[c].delivery = d /\ entity[c].delivery = 0
    BY <1>0, <2>1, <2>2 DEF Members, Card
  <2>4. HoldCards(q, "cancel", d, cards, entity)
    BY <1>8, <2>1, <2>2 DEF CancelRead
  <2>5. d # 0 /\ \A r \in Requests : req[r].op \in {"pod", "cancel"} => req[r].id # d
    BY <1>8 DEF CancelRead, DeliveryFree, Deliveries
  <2>. QED
    BY <2>3, <2>4, <2>5, ReadHolds
<1>. QED
  BY <1>1, <1>2, <1>3, <1>4, <1>5, <1>6, <1>7, <1>8 DEF DeliveryStep

LEMMA SameHolds ==
  ASSUME ClaimInv, UNCHANGED <<card, restored, req>>
  PROVE  ClaimInv' /\ CardMoves
BY DEF ClaimInv, Exclusive, Holds, CardMoves

LEMMA InitHolds == Init => ClaimInv
BY NoRequestFacts DEF Init, ClaimInv, Exclusive, Holds, NoRequest

LEMMA NextClaims == IInv /\ IInv' /\ ClaimInv /\ [Next]_vars => ClaimInv' /\ CardMoves
<1>. SUFFICES ASSUME IInv, IInv', ClaimInv, [Next]_vars PROVE ClaimInv' /\ CardMoves
  OBVIOUS
<1>1. CASE UNCHANGED vars
  BY <1>1, SameHolds DEF vars
<1>2. ASSUME NEW c \in Cards, NEW a \in Amounts, GetOrCreateForJobCard(c, a)
      PROVE  ClaimInv' /\ CardMoves
  BY <1>2, SameHolds DEF GetOrCreateForJobCard, Draft, cardVars
<1>3. ASSUME NEW q \in Requests, Abandon(q) PROVE ClaimInv' /\ CardMoves
  BY <1>3, FinishHolds DEF Abandon, cardVars
<1>. QED
  BY <1>1, <1>2, <1>3, MoneyStepHolds, DeliveryStepHolds DEF Next

\* DeliveryService: a card goes from one delivery to another only by being released in
\* between, however creations, proofs of delivery, cancellations, overrides and approvals
\* overlap and wherever they fail, as long as no override and no approval has put back the
\* deliveryId that it read.
THEOREM NeverASilentDoubleClaim == Spec => NoDoubleClaim
<1>1. Spec => []ClaimInv
  BY InitHolds, NextClaims, InvariantIInv, PTL DEF Spec
<1>2. IInv /\ IInv' /\ ClaimInv /\ [Next]_vars =>
        [\A c \in Cards : (c \notin restored' /\ card[c].delivery # 0)
                            => card'[c].delivery \in {0, card[c].delivery}]_vars
  BY NextClaims DEF CardMoves
<1>. QED
  BY <1>1, <1>2, InvariantIInv, PTL DEF Spec, NoDoubleClaim

=============================================================================
