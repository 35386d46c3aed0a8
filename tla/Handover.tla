------------------------------- MODULE Handover -------------------------------
(***************************************************************************)
(* From a repair that passed QC to a unit handed back: InvoicingService    *)
(* (lazy invoices, payments, regeneration), GlLedgerService's invoice      *)
(* postings, DeliveryService (batch, dispatch, proof of delivery, cancel)  *)
(* and what may hit a job card at any time: the warranty override and the  *)
(* customer's approval, which save the whole card without a lock.          *)
(*                                                                         *)
(* Invoicing takes no lock: every repository call is a step.  create,      *)
(* capturePod and cancel of DeliveryService are transactions: their steps  *)
(* are what they read, the SELECT of their save()s and the commit; create  *)
(* holds the lock delivery:number-sequence, the others delivery:<id>.      *)
(* save() writes the columns in which the entity differs from the row the  *)
(* SELECT found, so it also undoes what others committed between the       *)
(* handler's read and that SELECT.                                         *)
(***************************************************************************)
EXTENDS Naturals, FiniteSets

CONSTANTS
  Cards,            (* job cards that passed QC                             *)
  Requests,         (* slots for requests in flight at the same time        *)
  Amounts,          (* invoice totals; 0 is the AED 0.00 price-list gap     *)
  PaymentAmounts,   (* amounts of a payment (DTO: Min 0.01)                 *)
  MaxSaves,         (* bound: overrides and approvals of a card after QC    *)
  MaxInvoices,      (* bound: invoices ever created                         *)
  MaxDeliveries     (* bound: deliveries ever created                       *)

ASSUME CardsAssumption   == Cards # {}
ASSUME AmountsAssumption == Amounts \subseteq Nat /\ PaymentAmounts \subseteq Nat \ {0}
ASSUME BoundsAssumption  == /\ MaxSaves \in Nat
                            /\ MaxInvoices \in Nat
                            /\ MaxDeliveries \in Nat

VARIABLES
  card,             (* JobCard: status, out of warranty?, deliveryId (0: no) *)
  saves,            (* overrides and approvals begun of each card           *)
  restored,         (* history: cards whose deliveryId a save has put back  *)
  delivery,         (* status of each delivery                              *)
  nextDelivery,
  invoice,          (* the invoices table                                   *)
  nextInvoice,
  paid,             (* SUM of the payments recorded for an invoice          *)
  posted,           (* SUM of the general-ledger postings for an invoice    *)
  req               (* the requests in flight                               *)

cardVars  == <<card, saves, restored, delivery, nextDelivery>>
moneyVars == <<invoice, nextInvoice, paid, posted>>
vars      == <<card, saves, restored, delivery, nextDelivery, invoice, nextInvoice,
               paid, posted, req>>

Invoices   == 1..MaxInvoices
Deliveries == 1..MaxDeliveries

Card == [status : {"QC_PASSED", "DELIVERED"}, oow : BOOLEAN, delivery : 0..MaxDeliveries]

DeliveryStatus == {"NONE", "PENDING", "DISPATCHED", "DELIVERED", "CANCELLED"}

\* InvoiceStatus; NONE is a row not there: not created yet, or removed again.
InvoiceStatus == {"NONE", "DRAFT", "PARTIALLY_PAID", "PAID"}

AnyCard == CHOOSE c \in Cards : TRUE

Invoice == [status : InvoiceStatus, card : Cards, amount : Nat]

(***************************************************************************)
(* A request: its handler; the cards it will save, their entities and,     *)
(* once selected, the rows they are compared with; the delivery or invoice *)
(* it is about; the payment it records and the amount paid it read.        *)
(***************************************************************************)
Ops == {"idle", "create", "dispatch", "pod", "cancel", "override", "approve",
        "regenerate", "redraft", "pay", "paid", "post"}

Request == [op       : Ops,
            members  : SUBSET Cards,
            entity   : [Cards -> Card],
            base     : [Cards -> Card],
            selected : BOOLEAN,
            id       : Nat,
            amount   : Nat,
            seen     : Nat]

NoCards   == [c \in Cards |-> [status |-> "QC_PASSED", oow |-> FALSE, delivery |-> 0]]
NoRequest == [op |-> "idle", members |-> {}, entity |-> NoCards, base |-> NoCards,
              selected |-> FALSE, id |-> 0, amount |-> 0, seen |-> 0]

Init ==
  /\ card \in [Cards -> [status : {"QC_PASSED"}, oow : BOOLEAN, delivery : {0}]]
  /\ saves = [c \in Cards |-> 0]
  /\ restored = {}
  /\ delivery = [d \in Deliveries |-> "NONE"]
  /\ nextDelivery = 1
  /\ invoice = [i \in Invoices |-> [status |-> "NONE", card |-> AnyCard, amount |-> 0]]
  /\ nextInvoice = 1
  /\ paid = [i \in Invoices |-> 0]
  /\ posted = [i \in Invoices |-> 0]
  /\ req = [q \in Requests |-> NoRequest]

Finish(q) == req' = [req EXCEPT ![q] = NoRequest]

-----------------------------------------------------------------------------
(***************************************************************************)
(* Invoices and payments.                                                  *)
(***************************************************************************)

InvoicesOf(c) == {i \in Invoices : invoice[i].status # "NONE" /\ invoice[i].card = c}

\* Draft the invoice of card c, if it has none (unique index on jobCardId).
Draft(c, a) ==
  /\ card[c].oow
  /\ InvoicesOf(c) = {}
  /\ nextInvoice \in Invoices
  /\ invoice' = [invoice EXCEPT ![nextInvoice] = [status |-> "DRAFT", card |-> c, amount |-> a]]
  /\ nextInvoice' = nextInvoice + 1
  /\ UNCHANGED <<cardVars, paid, posted>>

\* getOrCreateForJobCard, by its endpoint or a delivery's payment check.
GetOrCreateForJobCard(c, a) == Draft(c, a) /\ UNCHANGED req

ReadInvoice(q, op, i, n) ==
  /\ req[q].op = "idle"
  /\ req' = [req EXCEPT ![q] = [NoRequest EXCEPT !.op = op, !.id = i, !.amount = n,
                                                 !.seen = paid[i]]]
  /\ UNCHANGED <<cardVars, moneyVars>>

RegenerateRead(q, i) ==
  /\ invoice[i].status = "DRAFT"
  /\ paid[i] = 0
  /\ ReadInvoice(q, "regenerate", i, 0)

\* payments.invoiceId is a foreign key without ON DELETE.
Removable(i) == paid[i] = 0

RegenerateRemove(q) ==
  LET i == req[q].id IN
  /\ req[q].op = "regenerate"
  /\ Removable(i)
  /\ invoice' = [invoice EXCEPT ![i].status = "NONE"]
  /\ req' = [req EXCEPT ![q].op = "redraft"]
  /\ UNCHANGED <<cardVars, nextInvoice, paid, posted>>

RegenerateDraft(q, a) ==
  /\ req[q].op = "redraft"
  /\ Draft(invoice[req[q].id].card, a)
  /\ Finish(q)

(***************************************************************************)
(* recordPayment: the invoice and the amount paid are read; the payment,   *)
(* the invoice and the posting are saved one after the other.              *)
(***************************************************************************)
PayRead(q, i, n) ==
  /\ invoice[i].status \in {"DRAFT", "PARTIALLY_PAID"}
  /\ paid[i] + n <= invoice[i].amount
  /\ ReadInvoice(q, "pay", i, n)

\* Fault: the payment is recorded with the wrong sign.
PaidNegated(i, n) == [paid EXCEPT ![i] = @ - n]

\* A payment is a row of its own.
Paid(i, n) == [paid EXCEPT ![i] = @ + n]

PaySavePayment(q) ==
  LET i == req[q].id IN
  /\ req[q].op = "pay"
  /\ invoice[i].status # "NONE"
  /\ paid' = Paid(i, req[q].amount)
  /\ req' = [req EXCEPT ![q].op = "paid"]
  /\ UNCHANGED <<cardVars, invoice, nextInvoice, posted>>

\* Fault: any payment settles the invoice.
SettledByAny(x) == TRUE

\* newRemaining <= 0, from what the request had read.
Settled(x) == x.seen + x.amount >= invoice[x.id].amount

PaySaveInvoice(q) ==
  LET i == req[q].id IN
  /\ req[q].op = "paid"
  /\ invoice' = [invoice EXCEPT ![i].status = IF Settled(req[q]) THEN "PAID"
                                                                 ELSE "PARTIALLY_PAID"]
  /\ req' = [req EXCEPT ![q].op = "post"]
  /\ UNCHANGED <<cardVars, nextInvoice, paid, posted>>

\* Fault: the posting is for the whole invoice.
PostedAmountInvoice(x) == invoice[x.id].amount

PostedAmount(x) == x.amount

PayPost(q) ==
  /\ req[q].op = "post"
  /\ posted' = [posted EXCEPT ![req[q].id] = @ + PostedAmount(req[q])]
  /\ Finish(q)
  /\ UNCHANGED <<cardVars, invoice, nextInvoice, paid>>

-----------------------------------------------------------------------------
(***************************************************************************)
(* Saving job cards.                                                       *)
(***************************************************************************)

\* Handler op has read cards and changed them to entity.
HoldCards(q, op, d, cards, entity) ==
  /\ req[q].op = "idle"
  /\ req' = [req EXCEPT ![q] = [NoRequest EXCEPT !.op = op, !.id = d, !.members = cards,
                                                 !.entity = entity]]
  /\ UNCHANGED <<card, restored, delivery, moneyVars>>

SelectCards(q) ==
  /\ req[q].op \in {"create", "pod", "cancel", "override", "approve"}
  /\ ~req[q].selected
  /\ req' = [req EXCEPT ![q] = [req[q] EXCEPT !.selected = TRUE, !.base = card]]
  /\ UNCHANGED <<cardVars, moneyVars>>

\* The value of a column after the UPDATE.
Put(new, base, now) == IF new # base THEN new ELSE now

\* The cards once request x has updated its members.
Updated(x) ==
  [c \in Cards |->
     IF c \in x.members
     THEN [status   |-> Put(x.entity[c].status, x.base[c].status, card[c].status),
           oow      |-> Put(x.entity[c].oow, x.base[c].oow, card[c].oow),
           delivery |-> Put(x.entity[c].delivery, x.base[c].delivery, card[c].delivery)]
     ELSE card[c]]

\* The last step of handler op, which updates the cards it selected.
UpdateCards(q, op) ==
  /\ req[q].op = op
  /\ req[q].selected
  /\ card' = Updated(req[q])
  /\ Finish(q)
  /\ UNCHANGED <<saves, moneyVars>>

(***************************************************************************)
(* warrantyOverride and approveCustomer, on a QC_PASSED or DELIVERED card: *)
(* no lock, the whole card is saved.  Of the columns modelled an approval  *)
(* changes none, but its save puts back what others have changed since.    *)
(***************************************************************************)
SaveRead(q, op, c, entity) ==
  /\ saves[c] < MaxSaves
  /\ saves' = [saves EXCEPT ![c] = @ + 1]
  /\ HoldCards(q, op, 0, {c}, entity)
  /\ UNCHANGED nextDelivery

OverrideRead(q, c) == SaveRead(q, "override", c, [card EXCEPT ![c].oow = ~@])

ApproveRead(q, c) == SaveRead(q, "approve", c, card)

\* The cards whose deliveryId request x writes although its handler never set it.
PutBack(x) == {c \in x.members : x.entity[c].delivery # x.base[c].delivery}

SaveWholeCard(q, op) ==
  /\ UpdateCards(q, op)
  /\ restored' = restored \union PutBack(req[q])
  /\ UNCHANGED <<delivery, nextDelivery>>

Override(q) == SaveWholeCard(q, "override")

Approve(q) == SaveWholeCard(q, "approve")

-----------------------------------------------------------------------------
(***************************************************************************)
(* Deliveries.                                                             *)
(***************************************************************************)

Members(d) == {c \in Cards : card[c].delivery = d}

\* Fault: a partly paid unit may go back.
PayablePartly(c) == \E i \in InvoicesOf(c) : invoice[i].status \in {"PAID", "PARTIALLY_PAID"}

\* isPayableForDelivery
Payable(c) == \E i \in InvoicesOf(c) : invoice[i].status = "PAID"

\* No out-of-warranty card among cards is unpaid.
NoBlockers(cards) == \A c \in cards : card[c].oow => Payable(c)

\* Fault: create takes no advisory lock, neither the global nor the cards'.
SequenceFreeAlways == TRUE

\* pg_advisory_xact_lock('delivery:number-sequence'), which every create takes
\* before the locks of its cards
SequenceFree == \A q \in Requests : req[q].op # "create"

\* pg_advisory_xact_lock('delivery:<d>')
DeliveryFree(d) == \A q \in Requests : req[q].op \in {"pod", "cancel"} => req[q].id # d

\* The delivery's id is drawn here; that of a create that fails is not used.
CreateRead(q, cards) ==
  /\ SequenceFree
  /\ cards # {}
  /\ \A c \in cards : card[c].status = "QC_PASSED" /\ card[c].delivery = 0
  /\ NoBlockers(cards)
  /\ nextDelivery \in Deliveries
  /\ nextDelivery' = nextDelivery + 1
  /\ HoldCards(q, "create", nextDelivery, cards,
               [c \in Cards |-> IF c \in cards THEN [card[c] EXCEPT !.delivery = nextDelivery]
                                               ELSE card[c]])
  /\ UNCHANGED saves

Create(q) ==
  /\ UpdateCards(q, "create")
  /\ delivery' = [delivery EXCEPT ![req[q].id] = "PENDING"]
  /\ UNCHANGED <<restored, nextDelivery>>

\* dispatch: no lock.
DispatchRead(q, d) ==
  /\ delivery[d] = "PENDING"
  /\ HoldCards(q, "dispatch", d, {}, NoCards)
  /\ UNCHANGED <<saves, nextDelivery>>

Dispatch(q) ==
  /\ req[q].op = "dispatch"
  /\ delivery' = [delivery EXCEPT ![req[q].id] = "DISPATCHED"]
  /\ Finish(q)
  /\ UNCHANGED <<card, saves, restored, nextDelivery, moneyVars>>

\* capturePod checks again that everything is paid.
PodRead(q, d) ==
  /\ DeliveryFree(d)
  /\ delivery[d] = "DISPATCHED"
  /\ NoBlockers(Members(d))
  /\ HoldCards(q, "pod", d, Members(d),
               [c \in Cards |-> IF c \in Members(d) THEN [card[c] EXCEPT !.status = "DELIVERED"]
                                                    ELSE card[c]])
  /\ UNCHANGED <<saves, nextDelivery>>

Pod(q) ==
  /\ UpdateCards(q, "pod")
  /\ delivery' = [delivery EXCEPT ![req[q].id] = "DELIVERED"]
  /\ UNCHANGED <<restored, nextDelivery>>

CancelRead(q, d) ==
  /\ DeliveryFree(d)
  /\ delivery[d] = "PENDING"
  /\ HoldCards(q, "cancel", d, Members(d),
               [c \in Cards |-> IF c \in Members(d) THEN [card[c] EXCEPT !.delivery = 0]
                                                    ELSE card[c]])
  /\ UNCHANGED <<saves, nextDelivery>>

Cancel(q) ==
  /\ UpdateCards(q, "cancel")
  /\ delivery' = [delivery EXCEPT ![req[q].id] = "CANCELLED"]
  /\ UNCHANGED <<restored, nextDelivery>>

\* A handler throws, or dies with its process; a transaction rolls back.
Abandon(q) ==
  /\ req[q].op # "idle"
  /\ Finish(q)
  /\ UNCHANGED <<cardVars, moneyVars>>

-----------------------------------------------------------------------------
MoneyStep(q) ==
  \/ RegenerateRemove(q)
  \/ PaySavePayment(q)
  \/ PaySaveInvoice(q)
  \/ PayPost(q)
  \/ \E a \in Amounts : RegenerateDraft(q, a)
  \/ \E i \in Invoices : \/ RegenerateRead(q, i)
                         \/ \E n \in PaymentAmounts : PayRead(q, i, n)

DeliveryStep(q) ==
  \/ SelectCards(q)
  \/ Override(q)
  \/ Approve(q)
  \/ Create(q)
  \/ Dispatch(q)
  \/ Pod(q)
  \/ Cancel(q)
  \/ \E c \in Cards : OverrideRead(q, c) \/ ApproveRead(q, c)
  \/ \E cards \in SUBSET Cards : CreateRead(q, cards)
  \/ \E d \in Deliveries : DispatchRead(q, d) \/ PodRead(q, d) \/ CancelRead(q, d)

Next ==
  \/ \E c \in Cards, a \in Amounts : GetOrCreateForJobCard(c, a)
  \/ \E q \in Requests : MoneyStep(q) \/ DeliveryStep(q) \/ Abandon(q)

Spec == Init /\ [][Next]_vars

-----------------------------------------------------------------------------
\* Every variable has its type.
TypeOK ==
  /\ card \in [Cards -> Card]
  /\ saves \in [Cards -> Nat]
  /\ restored \subseteq Cards
  /\ delivery \in [Deliveries -> DeliveryStatus]
  /\ nextDelivery \in Nat \ {0}
  /\ invoice \in [Invoices -> Invoice]
  /\ nextInvoice \in Nat \ {0}
  /\ paid \in [Invoices -> Nat]
  /\ posted \in [Invoices -> Nat]
  /\ req \in [Requests -> Request]

\* The payments recorded for invoice i cover it.
Covered(i) == paid[i] > 0 /\ paid[i] >= invoice[i].amount

(***************************************************************************)
(* An invoice says PAID only if the payments recorded for it cover it,     *)
(* although its status is computed from an amount read before and payments *)
(* and regenerations overlap.                                              *)
(***************************************************************************)
PaidIsCovered == \A i \in Invoices : invoice[i].status = "PAID" => Covered(i)

(***************************************************************************)
(* A unit that the proof of delivery found out of warranty is handed back  *)
(* only when it has been paid for, at that very moment: "handing back an   *)
(* unpaid out-of-warranty unit is the one mistake this whole phase exists  *)
(* to prevent" (delivery.service.ts:334).                                  *)
(***************************************************************************)
HandoverCovered ==
  [][\A q \in Requests : Pod(q) =>
       \A c \in req[q].members :
         req[q].entity[c].oow => \E i \in InvoicesOf(c) : Covered(i)]_vars

(***************************************************************************)
(* The general ledger never shows more for an invoice than its payments.   *)
(***************************************************************************)
PostedIsPaid == \A i \in Invoices : posted[i] <= paid[i]

(***************************************************************************)
(* "Never a silent double-claim" (delivery.service.ts:234): a card moves   *)
(* from one delivery to another only by being released in between, unless  *)
(* the save of a warranty override or of a customer's approval has put     *)
(* back a deliveryId that it had read before a delivery changed it.        *)
(***************************************************************************)
NoDoubleClaim ==
  [][\A c \in Cards :
       (c \notin restored' /\ card[c].delivery # 0)
         => card'[c].delivery \in {0, card[c].delivery}]_vars
=============================================================================
