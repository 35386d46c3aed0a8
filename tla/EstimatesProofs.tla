---------------------------- MODULE EstimatesProofs ----------------------------
(***************************************************************************)
(* Proofs about Estimates, for any number of estimates. Types hold for any *)
(* number of overlapping requests. The rest is about requests that do not  *)
(* overlap (Serial): a card saved from an old entity would break all of    *)
(* it.                                                                     *)
(*                                                                         *)
(* The service writes the estimate, the card and the card again, one after *)
(* the other. The invariant says of each of these moments what the request *)
(* under way is about to write (Saves, Remembers): an RWR card is only     *)
(* saved over a rejected estimate, an approved out-of-warranty card only   *)
(* after the customer agreed to these terms.                               *)
(***************************************************************************)
EXTENDS Estimates, FiniteSetTheorems, TLAPS

\* Requests that do not overlap.
Serial == \A q, r \in Requests : q = r

-----------------------------------------------------------------------------

\* The card may be RWR: its estimate was rejected and none is active.
Returnable == NoneActive /\ \E e \in Estimates : est[e] = "REJECTED"

\* The card: RWR and approval out of warranty have their reasons.
CardOK ==
  /\ card \in Card
  /\ agreed \in BOOLEAN
  /\ card.status = "RWR" => Returnable
  /\ card.warranty = "OOW" /\ card.approved => agreed

\* The estimates: rows are inserted in order, and at most one is active.
EstOK ==
  /\ est \in [Estimates -> EstimateStatus]
  /\ nextEst \in Nat \ {0}
  /\ \A e \in Estimates : e >= nextEst => est[e] = "NONE"
  /\ \A e, f \in Estimates : est[e] \in ActiveEstimate /\ est[f] \in ActiveEstimate => e = f

\* The entity a request is about to save over the card.
Saves(x) ==
  /\ x.entity.status = "RWR" => Returnable
  /\ x.entity.warranty = "OOW" /\ x.entity.approved => card.warranty = "OOW" /\ agreed
  /\ x.entity.status = "SECTION_ASSIGNED" /\ card.status # "SECTION_ASSIGNED"
       /\ x.entity.warranty = "OOW" => x.entity.approved
  /\ x.then = "insert" => x.entity.status = "SN_VALIDATED" /\ NoneActive

\* What a request read still holds when it goes on.
Remembers(x) ==
  /\ x.op \in {"card", "cardUpdate"} => Saves(x)
  /\ x.op = "cardUpdate" => x.base = card
  /\ x.op = "create" => card.status = "SN_VALIDATED"
  /\ x.op = "insert" => card.status = "SN_VALIDATED" /\ NoneActive
  /\ x.op \in {"send", "expire", "respond", "answered"} => x.est \in Estimates
  /\ x.op = "send" => est[x.est] = "DRAFT"
  /\ x.op \in {"expire", "respond"} => est[x.est] = "SENT"
  /\ x.op = "answered" /\ x.answer = "REJECTED" => est[x.est] = "REJECTED" /\ NoneActive
  /\ x.op \in {"respond", "answered"} /\ x.answer = "APPROVED" => agreed

\* The inductive invariant.
IInv ==
  /\ CardOK /\ EstOK
  /\ req \in [Requests -> Request]
  /\ \A q \in Requests : Remembers(req[q])

-----------------------------------------------------------------------------

LEMMA NoRequestType == NoRequest \in Request /\ NoRequest.op = "idle" /\ NoRequest.then = "idle"
BY DEF NoRequest, NoCard, Request, Ops, Card, CardStatus

\* A step that changes what request q remembers, and at most what the customer agreed to.
LEMMA OnlyRequest ==
  ASSUME Serial, IInv, NEW q \in Requests, NEW x \in Request,
         req' = [req EXCEPT ![q] = x], UNCHANGED <<card, est, nextEst>>,
         agreed' \in BOOLEAN, agreed => agreed', Remembers(x)'
  PROVE  IInv'
<1>1. CardOK'
  BY DEF IInv, CardOK, Returnable, NoneActive
<1>2. EstOK'
  BY DEF IInv, EstOK
<1>3. req' \in [Requests -> Request] /\ req'[q] = x
  BY DEF IInv
<1>4. ASSUME NEW r \in Requests PROVE Remembers(req[r])'
  <2>1. r = q
    BY DEF Serial
  <2>. QED
    BY <2>1, <1>3 DEF Remembers, Saves
<1>. QED
  BY <1>1, <1>2, <1>3, <1>4 DEF IInv

LEMMA SaveCardOK ==
  ASSUME Serial, IInv, NEW q \in Requests, NEW entity \in Card, req[q].op \in {"idle", "answered"},
         SaveCard(q, entity), UNCHANGED <<card, est, nextEst>>,
         agreed' \in BOOLEAN, agreed => agreed',
         entity.status = "RWR" => Returnable,
         entity.warranty = "OOW" /\ entity.approved => card.warranty = "OOW" /\ agreed',
         entity.status = "SECTION_ASSIGNED" /\ card.status # "SECTION_ASSIGNED"
           /\ entity.warranty = "OOW" => entity.approved
  PROVE  IInv'
<1>. DEFINE x == [NoRequest EXCEPT !.op = "card", !.entity = entity]
<1>1. x \in Request /\ x.op = "card" /\ x.entity = entity /\ x.then = "idle"
  BY DEF NoRequest, NoCard, Request, Ops, Card, CardStatus
<1>2. req' = [req EXCEPT ![q] = x]
  BY DEF SaveCard
<1>. HIDE DEF x
<1>3. Remembers(x)'
  BY <1>1 DEF Remembers, Saves, Returnable, NoneActive
<1>. QED
  BY <1>1, <1>2, <1>3, OnlyRequest

\* A handler on the card alone.
LEMMA CardHandlerOK ==
  ASSUME Serial, IInv, NEW q \in Requests, NEW allowed, NEW entity \in Card,
         CardHandler(q, allowed, entity),
         agreed' \in BOOLEAN, agreed => agreed',
         entity.status = "RWR" => card.status = "RWR",
         entity.warranty = "OOW" /\ entity.approved => card.warranty = "OOW" /\ agreed',
         entity.status = "SECTION_ASSIGNED" /\ card.status # "SECTION_ASSIGNED"
           /\ entity.warranty = "OOW" => entity.approved
  PROVE  IInv'
<1>1. entity.status = "RWR" => Returnable
  BY DEF IInv, CardOK
<1>. QED
  BY <1>1, SaveCardOK DEF CardHandler

LEMMA ValidateSnOK ==
  ASSUME Serial, IInv, NEW q \in Requests, NEW matches \in BOOLEAN, ValidateSn(q, matches)
  PROVE  IInv'
<1>. DEFINE entity == IF matches THEN [card EXCEPT !.status = "SN_VALIDATED"] ELSE card
<1>1. /\ entity \in Card
      /\ entity.warranty = card.warranty /\ entity.approved = card.approved
      /\ entity.status \in {"SN_VALIDATED", card.status}
  BY DEF IInv, CardOK, Card, CardStatus
<1>2. CardHandler(q, {"OPEN"}, entity) /\ agreed' = agreed
  BY DEF ValidateSn
<1>3. agreed \in BOOLEAN /\ (card.warranty = "OOW" /\ card.approved => agreed)
  BY DEF IInv, CardOK
<1>. HIDE DEF entity
<1>. QED
  BY <1>1, <1>2, <1>3, CardHandlerOK

LEMMA AssignSectionOK ==
  ASSUME Serial, IInv, NEW q \in Requests, AssignSection(q)
  PROVE  IInv'
<1>. DEFINE entity == [card EXCEPT !.status = "SECTION_ASSIGNED"]
<1>1. /\ entity \in Card
      /\ entity.warranty = card.warranty /\ entity.approved = card.approved
      /\ entity.status = "SECTION_ASSIGNED"
  BY DEF IInv, CardOK, Card, CardStatus
<1>2. /\ CardHandler(q, {"SN_VALIDATED"}, entity) /\ agreed' = agreed
      /\ card.warranty = "OOW" => card.approved
  BY DEF AssignSection
<1>3. agreed \in BOOLEAN /\ (card.warranty = "OOW" /\ card.approved => agreed)
  BY DEF IInv, CardOK
<1>. HIDE DEF entity
<1>. QED
  BY <1>1, <1>2, <1>3, CardHandlerOK

LEMMA ApproveCustomerOK ==
  ASSUME Serial, IInv, NEW q \in Requests, ApproveCustomer(q)
  PROVE  IInv'
<1>. DEFINE entity == [card EXCEPT !.approved = TRUE]
<1>1. /\ entity \in Card
      /\ entity.warranty = card.warranty /\ entity.approved = TRUE
      /\ entity.status = card.status
  BY DEF IInv, CardOK, Card
<1>2. /\ CardHandler(q, CardStatus, entity) /\ agreed' = TRUE
  BY DEF ApproveCustomer, Answer, IInv, CardOK
<1>. HIDE DEF entity
<1>. QED
  BY <1>1, <1>2, CardHandlerOK

LEMMA WarrantyOverrideOK ==
  ASSUME Serial, IInv, NEW q \in Requests, NEW w \in {"IW", "OOW"}, WarrantyOverride(q, w)
  PROVE  IInv'
<1>. DEFINE entity == Overridden(w)
<1>1. /\ entity \in Card
      /\ entity.warranty = w /\ (w = "OOW" => ~entity.approved)
      /\ entity.status = card.status
  BY DEF IInv, CardOK, Card, Overridden
<1>2. CardHandler(q, CardStatus \ {"RWR", "CANCELLED"}, entity) /\ agreed' = agreed
  BY DEF WarrantyOverride
<1>3. agreed \in BOOLEAN
  BY DEF IInv, CardOK
<1>. HIDE DEF entity
<1>. QED
  BY <1>1, <1>2, <1>3, CardHandlerOK

LEMMA CancelOK ==
  ASSUME Serial, IInv, NEW q \in Requests, Cancel(q)
  PROVE  IInv'
<1>. DEFINE entity == [card EXCEPT !.status = "CANCELLED"]
<1>1. /\ entity \in Card
      /\ entity.warranty = card.warranty /\ entity.approved = card.approved
      /\ entity.status = "CANCELLED"
  BY DEF IInv, CardOK, Card, CardStatus
<1>2. CardHandler(q, CardStatus \ {"CANCELLED"}, entity) /\ agreed' = agreed
  BY DEF Cancel
<1>3. agreed \in BOOLEAN /\ (card.warranty = "OOW" /\ card.approved => agreed)
  BY DEF IInv, CardOK
<1>. HIDE DEF entity
<1>. QED
  BY <1>1, <1>2, <1>3, CardHandlerOK

LEMMA CardSelectOK ==
  ASSUME Serial, IInv, NEW q \in Requests, CardSelect(q)
  PROVE  IInv'
<1>1. req[q] \in Request /\ Remembers(req[q]) /\ req[q].op = "card" /\ card \in Card
  BY DEF IInv, CardOK, CardSelect
<1>2. PICK x : x = [req[q] EXCEPT !.op = "cardUpdate", !.base = card]
  OBVIOUS
<1>3. x \in Request /\ x.op = "cardUpdate" /\ x.base = card
      /\ x.entity = req[q].entity /\ x.then = req[q].then
  BY <1>1, <1>2 DEF Request, Ops
<1>4. req' = [req EXCEPT ![q] = x] /\ UNCHANGED <<card, est, nextEst, agreed>>
  BY <1>2 DEF CardSelect
<1>5. Saves(x)
  BY <1>1, <1>3 DEF Remembers, Saves
<1>6. Remembers(x)'
  BY <1>3, <1>4, <1>5 DEF Remembers, Saves, Returnable, NoneActive
<1>. QED
  BY <1>3, <1>4, <1>6, OnlyRequest DEF IInv, CardOK

\* The row selected is the row updated: what is written is the entity.
LEMMA WrittenIsEntity ==
  ASSUME Serial, IInv, NEW q \in Requests, CardUpdate(q)
  PROVE  /\ req[q].op = "cardUpdate" /\ req[q].entity \in Card /\ card' = req[q].entity
         /\ Saves(req[q])
         /\ agreed' = IF card.warranty = "IW" /\ req[q].entity.warranty = "OOW" THEN FALSE
                      ELSE agreed
<1>1. req[q].op = "cardUpdate" /\ req[q] \in Request /\ Remembers(req[q])
  BY DEF IInv, CardUpdate
<1>2. req[q].entity \in Card /\ card \in Card /\ req[q].base = card
  BY <1>1 DEF Request, Remembers, IInv, CardOK
<1>3. DOMAIN card = {"status", "warranty", "approved"}
      /\ req[q].entity = [c \in {"status", "warranty", "approved"} |-> req[q].entity[c]]
  BY <1>2 DEF Card
<1>4. [c \in DOMAIN card |-> IF req[q].entity[c] # req[q].base[c] THEN req[q].entity[c] ELSE card[c]]
        = req[q].entity
  BY <1>2, <1>3
<1>. QED
  BY <1>1, <1>2, <1>4 DEF CardUpdate, Remembers

LEMMA CardUpdateOK ==
  ASSUME Serial, IInv, NEW q \in Requests, CardUpdate(q)
  PROVE  IInv'
<1>0. PICK x : x = [NoRequest EXCEPT !.op = req[q].then]
  OBVIOUS
<1>1. req[q] \in Request /\ card \in Card /\ agreed \in BOOLEAN
  BY DEF IInv, CardOK
<1>2. /\ x \in Request /\ x.op = req[q].then /\ req[q].then \in {"idle", "insert"}
  BY <1>0, <1>1 DEF NoRequest, NoCard, Request, Ops, Card, CardStatus
<1>3. req' = [req EXCEPT ![q] = x] /\ UNCHANGED <<est, nextEst>>
  BY <1>0 DEF CardUpdate
<1>4. EstOK'
  BY <1>3 DEF IInv, EstOK
<1>5. CardOK'
  BY <1>1, <1>3, WrittenIsEntity DEF CardOK, Saves, Returnable, NoneActive, Card
<1>6. Remembers(x)'
  BY <1>2, <1>3, WrittenIsEntity DEF Remembers, Saves, NoneActive
<1>7. req' \in [Requests -> Request] /\ \A r \in Requests : req'[r] = x
  BY <1>2, <1>3 DEF Serial, IInv
<1>8. \A r \in Requests : Remembers(req[r])'
  BY <1>6, <1>7 DEF Remembers, Saves
<1>. QED
  BY <1>4, <1>5, <1>7, <1>8 DEF IInv

-----------------------------------------------------------------------------

\* A handler reads an estimate and remembers which.
LEMMA ReadEstimateOK ==
  ASSUME Serial, IInv, NEW q \in Requests, NEW op \in Ops, NEW e \in Estimates, NEW status,
         NEW answer \in {"APPROVED", "REJECTED"}, ReadEstimate(q, op, e, status, answer),
         \/ op = "send" /\ status = "DRAFT"
         \/ op \in {"expire", "respond"} /\ status = "SENT"
         \/ op = "revise",
         agreed' \in BOOLEAN, agreed => agreed',
         op = "respond" /\ answer = "APPROVED" => agreed'
  PROVE  IInv'
<1>1. PICK x : x = [NoRequest EXCEPT !.op = op, !.est = e, !.answer = answer]
  OBVIOUS
<1>2. e \in Nat
  BY DEF Estimates
<1>3. x \in Request /\ x.op = op /\ x.est = e /\ x.answer = answer /\ x.then = "idle"
  BY <1>1, <1>2 DEF NoRequest, NoCard, Request, Card, CardStatus, Ops
<1>4. req' = [req EXCEPT ![q] = x] /\ UNCHANGED <<card, est, nextEst>> /\ est[e] = status
  BY <1>1 DEF ReadEstimate
<1>5. Remembers(x)'
  BY <1>3, <1>4 DEF Remembers
<1>. QED
  BY <1>3, <1>4, <1>5, OnlyRequest

LEMMA ReadsOK ==
  ASSUME Serial, IInv, NEW q \in Requests, NEW e \in Estimates,
         \/ SendRead(q, e) \/ ExpireRead(q, e) \/ ReviseRead(q, e)
         \/ \E a \in {"APPROVED", "REJECTED"} : RespondRead(q, e, a)
  PROVE  IInv'
<1>0. agreed \in BOOLEAN
  BY DEF IInv, CardOK
<1>1. CASE SendRead(q, e)
  BY <1>0, <1>1, ReadEstimateOK DEF SendRead, Ops
<1>2. CASE ExpireRead(q, e)
  BY <1>0, <1>2, ReadEstimateOK DEF ExpireRead, Ops
<1>3. CASE ReviseRead(q, e)
  BY <1>0, <1>3, ReadEstimateOK DEF ReviseRead, Ops
<1>4. ASSUME NEW a \in {"APPROVED", "REJECTED"}, RespondRead(q, e, a) PROVE IInv'
  <2>1. /\ ReadEstimate(q, "respond", e, "SENT", a)
        /\ agreed' = (agreed \/ a = "APPROVED")
    BY <1>4 DEF RespondRead, Answerable, Answer
  <2>2. agreed' \in BOOLEAN /\ (agreed => agreed') /\ (a = "APPROVED" => agreed')
    BY <1>0, <2>1
  <2>. QED
    BY <2>1, <2>2, ReadEstimateOK DEF Ops
<1>. QED
  BY <1>1, <1>2, <1>3, <1>4

LEMMA CreateReadOK ==
  ASSUME Serial, IInv, NEW q \in Requests, CreateRead(q)
  PROVE  IInv'
<1>1. PICK x : x = [req[q] EXCEPT !.op = "create"]
  OBVIOUS
<1>2. x \in Request /\ x.op = "create"
  BY <1>1 DEF IInv, Request, Ops
<1>3. req' = [req EXCEPT ![q] = x] /\ UNCHANGED <<card, est, nextEst, agreed>>
      /\ card.status = "SN_VALIDATED"
  BY <1>1 DEF CreateRead
<1>4. Remembers(x)'
  BY <1>2, <1>3 DEF Remembers
<1>. QED
  BY <1>2, <1>3, <1>4, OnlyRequest DEF IInv, CardOK

LEMMA CreateCheckOK ==
  ASSUME Serial, IInv, NEW q \in Requests, CreateCheck(q)
  PROVE  IInv'
<1>1. PICK x : x = [req[q] EXCEPT !.op = "insert"]
  OBVIOUS
<1>2. x \in Request /\ x.op = "insert"
  BY <1>1 DEF IInv, Request, Ops
<1>3. req' = [req EXCEPT ![q] = x] /\ UNCHANGED <<card, est, nextEst, agreed>>
      /\ NoneActive /\ card.status = "SN_VALIDATED"
  BY <1>1 DEF CreateCheck, IInv, Remembers
<1>4. Remembers(x)'
  BY <1>2, <1>3 DEF Remembers, NoneActive
<1>. QED
  BY <1>2, <1>3, <1>4, OnlyRequest DEF IInv, CardOK

\* Steps that write the estimates table.
LEMMA WriteEstimate ==
  ASSUME Serial, IInv, NEW q \in Requests, NEW x \in Request, req' = [req EXCEPT ![q] = x],
         UNCHANGED <<card, agreed>>, EstOK', card.status = "RWR" => Returnable', Remembers(x)'
  PROVE  IInv'
<1>1. CardOK'
  BY DEF IInv, CardOK
<1>2. req' \in [Requests -> Request] /\ \A r \in Requests : req'[r] = x
  BY DEF Serial, IInv
<1>3. \A r \in Requests : Remembers(req[r])'
  BY <1>2 DEF Remembers, Saves
<1>. QED
  BY <1>1, <1>2, <1>3 DEF IInv

LEMMA NothingRemembered == Remembers(NoRequest) /\ Remembers(NoRequest)'
BY NoRequestType DEF Remembers

LEMMA InsertEstimateOK ==
  ASSUME Serial, IInv, NEW q \in Requests, InsertEstimate(q)
  PROVE  IInv'
<1>1. NoneActive /\ card.status = "SN_VALIDATED"
  BY DEF InsertEstimate, IInv, Remembers
<1>2. EstOK'
  <2>1. est' \in [Estimates -> EstimateStatus] /\ nextEst' \in Nat \ {0}
    BY DEF InsertEstimate, IInv, EstOK, EstimateStatus
  <2>2. \A e \in Estimates : est'[e] = IF e = nextEst THEN "DRAFT" ELSE est[e]
    BY DEF InsertEstimate, IInv, EstOK
  <2>3. \A e \in Estimates : e >= nextEst' => est'[e] = "NONE"
    BY <2>2 DEF InsertEstimate, IInv, EstOK, Estimates
  <2>. QED
    BY <1>1, <2>1, <2>2, <2>3 DEF EstOK, NoneActive
<1>. QED
  BY <1>1, <1>2, NoRequestType, NothingRemembered, WriteEstimate DEF InsertEstimate

LEMMA SendOK ==
  ASSUME Serial, IInv, NEW q \in Requests, Send(q)
  PROVE  IInv'
<1>1. req[q].est \in Estimates /\ est[req[q].est] = "DRAFT"
  BY DEF Send, SaveEstimate, IInv, Remembers
<1>2. EstOK'
  BY <1>1 DEF Send, SaveEstimate, IInv, EstOK, EstimateStatus, ActiveEstimate
<1>3. card.status # "RWR"
  BY <1>1 DEF IInv, CardOK, Returnable, NoneActive, ActiveEstimate
<1>. QED
  BY <1>2, <1>3, NoRequestType, NothingRemembered, WriteEstimate DEF Send, SaveEstimate

LEMMA ExpireOK ==
  ASSUME Serial, IInv, NEW q \in Requests, Expire(q)
  PROVE  IInv'
<1>1. req[q].est \in Estimates /\ est[req[q].est] = "SENT"
  BY DEF Expire, SaveEstimate, IInv, Remembers
<1>2. EstOK'
  BY <1>1 DEF Expire, SaveEstimate, IInv, EstOK, EstimateStatus, ActiveEstimate
<1>3. card.status # "RWR"
  BY <1>1 DEF IInv, CardOK, Returnable, NoneActive, ActiveEstimate
<1>. QED
  BY <1>2, <1>3, NoRequestType, NothingRemembered, WriteEstimate DEF Expire, SaveEstimate

\* The estimate that is rejected was the one active estimate: none is left.
LEMMA RespondSaveOK ==
  ASSUME Serial, IInv, NEW q \in Requests, RespondSave(q)
  PROVE  IInv'
<1>1. PICK x : x = [req[q] EXCEPT !.op = "answered"]
  OBVIOUS
<1>2. /\ req[q].est \in Estimates /\ est[req[q].est] = "SENT"
      /\ req[q] \in Request /\ (req[q].answer = "APPROVED" => agreed)
  BY DEF RespondSave, SaveEstimate, IInv, Remembers
<1>3. x \in Request /\ x.op = "answered" /\ x.est = req[q].est /\ x.answer = req[q].answer
      /\ x.answer \in {"APPROVED", "REJECTED"}
  BY <1>1, <1>2 DEF Request, Ops
<1>4. req' = [req EXCEPT ![q] = x] /\ UNCHANGED <<card, nextEst, agreed>>
      /\ est' = [est EXCEPT ![x.est] = x.answer]
  BY <1>1, <1>3 DEF RespondSave, SaveEstimate
<1>5. EstOK'
  BY <1>2, <1>3, <1>4 DEF IInv, EstOK, EstimateStatus, ActiveEstimate
<1>6. card.status # "RWR"
  BY <1>2 DEF IInv, CardOK, Returnable, NoneActive, ActiveEstimate
<1>7. x.answer = "REJECTED" => NoneActive' /\ est'[x.est] = "REJECTED"
  BY <1>2, <1>3, <1>4 DEF IInv, EstOK, NoneActive, ActiveEstimate
<1>8. Remembers(x)'
  BY <1>2, <1>3, <1>4, <1>7 DEF Remembers, NoneActive
<1>. QED
  BY <1>3, <1>4, <1>5, <1>6, <1>8, WriteEstimate

LEMMA RespondCardOK ==
  ASSUME Serial, IInv, NEW q \in Requests, RespondApprove(q) \/ RespondSetToRwr(q)
  PROVE  IInv'
<1>0. Remembers(req[q]) /\ req[q] \in Request /\ card \in Card /\ agreed \in BOOLEAN
  BY DEF IInv, CardOK
<1>1. CASE RespondApprove(q)
  <2>1. PICK entity : entity = [card EXCEPT !.approved = TRUE]
    OBVIOUS
  <2>2. entity \in Card /\ entity.status = card.status /\ entity.warranty = card.warranty
        /\ entity.approved = TRUE
    BY <1>0, <2>1 DEF Card
  <2>3. agreed
    BY <1>0, <1>1 DEF RespondApprove, Remembers
  <2>4. entity.status = "RWR" => Returnable
    BY <2>2 DEF IInv, CardOK
  <2>. QED
    BY <1>0, <1>1, <2>1, <2>2, <2>3, <2>4, SaveCardOK DEF RespondApprove
<1>2. CASE RespondSetToRwr(q)
  <2>1. PICK entity : entity = ReturnedUnrepaired
    OBVIOUS
  <2>2. entity \in Card /\ entity.status = "RWR" /\ entity.warranty = card.warranty
        /\ entity.approved = card.approved
    BY <1>0, <2>1 DEF Card, CardStatus, ReturnedUnrepaired
  <2>3. Returnable
    BY <1>0, <1>2 DEF RespondSetToRwr, Remembers, Returnable
  <2>4. card.warranty = "OOW" /\ card.approved => agreed
    BY DEF IInv, CardOK
  <2>. QED
    BY <1>0, <1>2, <2>1, <2>2, <2>3, <2>4, SaveCardOK DEF RespondSetToRwr
<1>. QED
  BY <1>1, <1>2

\* A card being returned has no active estimate, so the revision's draft will be the only one.
LEMMA ReviseReviveOK ==
  ASSUME Serial, IInv, NEW q \in Requests, ReviseRevive(q)
  PROVE  IInv'
<1>0. card \in Card /\ agreed \in BOOLEAN /\ (card.warranty = "OOW" /\ card.approved => agreed)
  BY DEF IInv, CardOK
<1>1. PICK x : x = [NoRequest EXCEPT !.op = "card", !.then = "insert",
                                     !.entity = [card EXCEPT !.status = "SN_VALIDATED"]]
  OBVIOUS
<1>2. /\ x \in Request /\ x.op = "card" /\ x.then = "insert"
      /\ x.entity.status = "SN_VALIDATED" /\ x.entity.warranty = card.warranty
      /\ x.entity.approved = card.approved
  BY <1>0, <1>1 DEF NoRequest, NoCard, Request, Card, CardStatus, Ops
<1>3. req' = [req EXCEPT ![q] = x] /\ UNCHANGED <<card, est, nextEst, agreed>>
  BY <1>1 DEF ReviseRevive
<1>4. NoneActive
  BY DEF ReviseRevive, IInv, CardOK, Returnable
<1>5. Remembers(x)'
  BY <1>0, <1>2, <1>3, <1>4 DEF Remembers, Saves, NoneActive
<1>. QED
  BY <1>0, <1>2, <1>3, <1>5, OnlyRequest

LEMMA AbandonOK ==
  ASSUME Serial, IInv, NEW q \in Requests, Abandon(q)
  PROVE  IInv'
BY NoRequestType, NothingRemembered, OnlyRequest DEF Abandon, IInv, CardOK

-----------------------------------------------------------------------------

LEMMA InitIInv == Init => IInv
<1>. SUFFICES ASSUME Init PROVE IInv
  OBVIOUS
<1>1. CardOK
  BY DEF Init, CardOK, Card, CardStatus
<1>2. EstOK
  BY DEF Init, EstOK, EstimateStatus, ActiveEstimate
<1>. QED
  BY <1>1, <1>2, NoRequestType, NothingRemembered DEF Init, IInv

LEMMA NextIInv == ASSUME Serial, IInv, [Next]_vars PROVE IInv'
<1>1. ASSUME NEW q \in Requests, CardStep(q) PROVE IInv'
  BY <1>1, CardSelectOK, CardUpdateOK, ValidateSnOK, AssignSectionOK, ApproveCustomerOK,
     WarrantyOverrideOK, CancelOK DEF CardStep
<1>2. ASSUME NEW q \in Requests, EstimateStep(q) PROVE IInv'
  BY <1>2, CreateReadOK, CreateCheckOK, InsertEstimateOK, SendOK, ExpireOK, RespondSaveOK,
     RespondCardOK, ReviseReviveOK, ReadsOK DEF EstimateStep
<1>3. CASE UNCHANGED vars
  <2>1. CardOK' /\ EstOK' /\ req' = req
    BY <1>3 DEF vars, IInv, CardOK, EstOK, Returnable, NoneActive
  <2>2. \A q \in Requests : Remembers(req[q])'
    BY <1>3 DEF vars, IInv, Remembers, Saves, Returnable, NoneActive
  <2>. QED
    BY <2>1, <2>2 DEF IInv
<1>. QED
  BY <1>1, <1>2, <1>3, AbandonOK DEF Next

LEMMA InvariantIInv == ASSUME Serial PROVE Spec => []IInv
<1>1. IInv /\ [Next]_vars => IInv'
  BY NextIInv
<1>. QED
  BY InitIInv, <1>1, PTL DEF Spec

-----------------------------------------------------------------------------

LEMMA CardUpdateTyped ==
  ASSUME TypeOK, NEW q \in Requests, CardUpdate(q)
  PROVE  TypeOK'
<1>1. card \in Card /\ req[q].entity \in Card /\ req[q].then \in {"idle", "insert"}
  BY DEF TypeOK, Request
<1>2. card' \in Card
  BY <1>1 DEF CardUpdate, Card
<1>3. agreed' \in BOOLEAN
  BY DEF TypeOK, CardUpdate
<1>4. [NoRequest EXCEPT !.op = req[q].then] \in Request
  BY <1>1, NoRequestType DEF Request, Ops
<1>. QED
  BY <1>2, <1>3, <1>4 DEF TypeOK, CardUpdate

LEMMA SaveCardTyped ==
  ASSUME TypeOK, NEW q \in Requests, NEW entity \in Card, SaveCard(q, entity)
  PROVE  req' \in [Requests -> Request]
<1>1. [NoRequest EXCEPT !.op = "card", !.entity = entity] \in Request
  BY NoRequestType DEF Request, Ops
<1>. QED
  BY <1>1 DEF TypeOK, SaveCard

LEMMA CardStepTyped ==
  ASSUME TypeOK, NEW q \in Requests, CardStep(q)
  PROVE  TypeOK'
<1>0. card \in Card
  BY DEF TypeOK
<1>1. CASE CardSelect(q)
  <2>1. [req[q] EXCEPT !.op = "cardUpdate", !.base = card] \in Request
    BY <1>0 DEF TypeOK, Request, Ops
  <2>. QED
    BY <1>1, <2>1 DEF TypeOK, CardSelect
<1>2. ASSUME NEW allowed, NEW entity \in Card, CardHandler(q, allowed, entity), agreed' \in BOOLEAN
      PROVE  TypeOK'
  BY <1>2, SaveCardTyped DEF TypeOK, CardHandler
<1>3. ASSUME NEW matches \in BOOLEAN, ValidateSn(q, matches) PROVE TypeOK'
  <2>1. (IF matches THEN [card EXCEPT !.status = "SN_VALIDATED"] ELSE card) \in Card
    BY <1>0 DEF Card, CardStatus
  <2>. QED
    BY <1>2, <1>3, <2>1 DEF ValidateSn, TypeOK
<1>4. CASE AssignSection(q)
  <2>1. [card EXCEPT !.status = "SECTION_ASSIGNED"] \in Card
    BY <1>0 DEF Card, CardStatus
  <2>. QED
    BY <1>2, <1>4, <2>1 DEF AssignSection, TypeOK
<1>5. CASE ApproveCustomer(q)
  <2>1. [card EXCEPT !.approved = TRUE] \in Card /\ agreed' \in BOOLEAN
    BY <1>0, <1>5 DEF Card, ApproveCustomer, Answer
  <2>. QED
    BY <1>2, <1>5, <2>1 DEF ApproveCustomer
<1>6. ASSUME NEW w \in {"IW", "OOW"}, WarrantyOverride(q, w) PROVE TypeOK'
  <2>1. Overridden(w) \in Card
    BY <1>0 DEF Card, Overridden
  <2>. QED
    BY <1>2, <1>6, <2>1 DEF WarrantyOverride, TypeOK
<1>7. CASE Cancel(q)
  <2>1. [card EXCEPT !.status = "CANCELLED"] \in Card
    BY <1>0 DEF Card, CardStatus
  <2>. QED
    BY <1>2, <1>7, <2>1 DEF Cancel, TypeOK
<1>. QED
  BY <1>1, <1>3, <1>4, <1>5, <1>6, <1>7, CardUpdateTyped DEF CardStep

LEMMA EstimateStepTyped ==
  ASSUME TypeOK, NEW q \in Requests, EstimateStep(q)
  PROVE  TypeOK'
<1>0. card \in Card /\ req[q] \in Request /\ Estimates \subseteq Nat
  BY DEF TypeOK, Estimates
<1>1. CASE CreateRead(q) \/ CreateCheck(q) \/ RespondSave(q)
  <2>1. \A op \in Ops : [req[q] EXCEPT !.op = op] \in Request
    BY <1>0 DEF Request
  <2>2. \E op \in Ops : req' = [req EXCEPT ![q] = [req[q] EXCEPT !.op = op]]
    BY <1>1 DEF CreateRead, CreateCheck, RespondSave, Ops
  <2>3. req' \in [Requests -> Request]
    BY <2>1, <2>2 DEF TypeOK
  <2>4. est' \in [Estimates -> EstimateStatus]
    BY <1>0, <1>1 DEF CreateRead, CreateCheck, RespondSave, SaveEstimate, TypeOK, Request,
       EstimateStatus
  <2>. QED
    BY <1>1, <2>3, <2>4 DEF CreateRead, CreateCheck, RespondSave, SaveEstimate, TypeOK
<1>2. CASE InsertEstimate(q) \/ Send(q) \/ Expire(q)
  BY <1>2, NoRequestType DEF InsertEstimate, Send, Expire, SaveEstimate, TypeOK, EstimateStatus
<1>3. CASE RespondApprove(q) \/ RespondSetToRwr(q)
  <2>1. [card EXCEPT !.approved = TRUE] \in Card /\ ReturnedUnrepaired \in Card
    BY <1>0 DEF Card, CardStatus, ReturnedUnrepaired
  <2>. QED
    BY <1>3, <2>1, SaveCardTyped DEF RespondApprove, RespondSetToRwr, TypeOK
<1>4. CASE ReviseRevive(q)
  <2>1. [card EXCEPT !.status = "SN_VALIDATED"] \in Card
    BY <1>0 DEF Card, CardStatus
  <2>2. [NoRequest EXCEPT !.op = "card", !.then = "insert",
                          !.entity = [card EXCEPT !.status = "SN_VALIDATED"]] \in Request
    BY <2>1, NoRequestType DEF Request, Ops
  <2>. QED
    BY <1>4, <2>2 DEF ReviseRevive, TypeOK
<1>5. ASSUME NEW op \in Ops, NEW e \in Estimates, NEW status,
             NEW answer \in {"APPROVED", "REJECTED"}, ReadEstimate(q, op, e, status, answer),
             agreed' \in BOOLEAN
      PROVE  TypeOK'
  <2>1. [NoRequest EXCEPT !.op = op, !.est = e, !.answer = answer] \in Request
    BY <1>0, NoRequestType DEF Request
  <2>. QED
    BY <1>5, <2>1 DEF ReadEstimate, TypeOK
<1>6. ASSUME NEW e \in Estimates, SendRead(q, e) \/ ExpireRead(q, e) \/ ReviseRead(q, e)
      PROVE  TypeOK'
  BY <1>5, <1>6 DEF SendRead, ExpireRead, ReviseRead, Ops, TypeOK
<1>7. ASSUME NEW e \in Estimates, NEW a \in {"APPROVED", "REJECTED"}, RespondRead(q, e, a)
      PROVE  TypeOK'
  BY <1>5, <1>7 DEF RespondRead, Answer, Ops, TypeOK
<1>. QED
  BY <1>1, <1>2, <1>3, <1>4, <1>6, <1>7 DEF EstimateStep

\* Every variable keeps its type, for any number of overlapping requests.
THEOREM TypeCorrect == Spec => []TypeOK
<1>1. Init => TypeOK
  BY InitIInv DEF Init, IInv, CardOK, EstOK, TypeOK
<1>2. TypeOK /\ [Next]_vars => TypeOK'
  <2>1. ASSUME TypeOK, NEW q \in Requests, Abandon(q) PROVE TypeOK'
    BY <2>1, NoRequestType DEF Abandon, TypeOK
  <2>2. ASSUME TypeOK, UNCHANGED vars PROVE TypeOK'
    BY <2>2 DEF vars, TypeOK
  <2>. QED
    BY <2>1, <2>2, CardStepTyped, EstimateStepTyped DEF Next
<1>. QED
  BY <1>1, <1>2, PTL DEF Spec

\* A card never has two active estimates.
THEOREM OneActive == ASSUME Serial PROVE Spec => []OneActiveEstimate
<1>1. IInv => OneActiveEstimate
  <2>. SUFFICES ASSUME IInv PROVE Cardinality({e \in Estimates : est[e] \in ActiveEstimate}) <= 1
    BY DEF OneActiveEstimate
  <2>. DEFINE A == {e \in Estimates : est[e] \in ActiveEstimate}
  <2>1. CASE A = {}
    BY <2>1, FS_EmptySet
  <2>2. CASE A # {}
    <3>1. PICK e : e \in A
      BY <2>2
    <3>2. A = {e}
      BY <3>1 DEF IInv, EstOK
    <3>. QED
      BY <3>2, FS_Singleton
  <2>. QED
    BY <2>1, <2>2
<1>. QED
  BY <1>1, InvariantIInv, PTL

\* A card being returned unrepaired can always be revised.
THEOREM RwrCanBeRevised == ASSUME Serial PROVE Spec => []RwrIsNoDeadEnd
<1>1. IInv => RwrIsNoDeadEnd
  BY DEF IInv, CardOK, Returnable, NoneActive, ActiveEstimate, RwrIsNoDeadEnd
<1>. QED
  BY <1>1, InvariantIInv, PTL

\* Work starts on an out-of-warranty card only after the customer agreed to these terms.
THEOREM StartsAgreed == ASSUME Serial PROVE Spec => WorkStartsAgreed
<1>1. IInv /\ [Next]_vars => [(WorkStarts /\ card'.warranty = "OOW") => agreed]_vars
  <2>. SUFFICES ASSUME IInv, Next, WorkStarts, card'.warranty = "OOW" PROVE agreed
    BY DEF vars, WorkStarts
  <2>1. PICK q \in Requests : CardUpdate(q)
    BY DEF Next, CardStep, EstimateStep, WorkStarts, CardSelect, ValidateSn, AssignSection,
       ApproveCustomer, WarrantyOverride, Cancel, CardHandler, Abandon, CreateRead, CreateCheck,
       InsertEstimate, Send, Expire, SaveEstimate, RespondSave, RespondApprove, RespondSetToRwr,
       ReviseRevive, SendRead, ExpireRead, ReviseRead, RespondRead, ReadEstimate
  <2>. QED
    BY <2>1, WrittenIsEntity DEF WorkStarts, Saves
<1>. QED
  BY <1>1, InvariantIInv, PTL DEF Spec, WorkStartsAgreed

\* An estimate's outcome is never changed.
THEOREM OutcomesStay == ASSUME Serial PROVE Spec => DecidedIsFinal
<1>1. IInv /\ [Next]_vars => [\A e \in Estimates : est[e] \in Decided => est'[e] = est[e]]_vars
  <2>. SUFFICES ASSUME IInv, Next, NEW e \in Estimates, est[e] \in Decided, est'[e] # est[e]
                PROVE  FALSE
    BY DEF vars
  <2>1. PICK q \in Requests : InsertEstimate(q) \/ Send(q) \/ Expire(q) \/ RespondSave(q)
    BY DEF Next, CardStep, EstimateStep, CardSelect, CardUpdate, ValidateSn, AssignSection,
       ApproveCustomer, WarrantyOverride, Cancel, CardHandler, Abandon, CreateRead, CreateCheck,
       RespondApprove, RespondSetToRwr, ReviseRevive, SendRead, ExpireRead, ReviseRead,
       RespondRead, ReadEstimate
  <2>2. Remembers(req[q])
    BY DEF IInv
  <2>3. CASE InsertEstimate(q)
    BY <2>3 DEF InsertEstimate, IInv, EstOK, Decided
  <2>4. CASE Send(q) \/ Expire(q) \/ RespondSave(q)
    BY <2>2, <2>4 DEF Send, Expire, RespondSave, SaveEstimate, Remembers, IInv, EstOK, Decided
  <2>. QED
    BY <2>1, <2>3, <2>4
<1>. QED
  BY <1>1, InvariantIInv, PTL DEF Spec, DecidedIsFinal
=============================================================================
