------------------------------ MODULE Estimates ------------------------------
(***************************************************************************)
(* The gates a job card passes before work starts: serial-number           *)
(* validation, customer approval of an out-of-warranty (OOW) repair        *)
(* through an Estimate, the warranty override and section assignment.      *)
(* EstimatesService and the gate methods of JobCardsService, for one card. *)
(*                                                                         *)
(* No handler here opens a transaction or takes a lock.  A handler reads a *)
(* row, checks it, changes its copy and save()s that.  save() SELECTs the  *)
(* row again and UPDATEs the columns in which the copy differs from this   *)
(* second read, so a column it did not change is put back to what the      *)
(* handler first read if somebody changed it in between.  For the card     *)
(* these are three steps: the handler's Read, CardSelect and CardUpdate.   *)
(* Every save of an estimate changes its only relevant column, status: one *)
(* step.                                                                   *)
(***************************************************************************)
EXTENDS Naturals, FiniteSets

CONSTANTS
  Requests,         (* slots for requests in flight at the same time        *)
  MaxEstimates      (* bound: estimates ever drafted for the card           *)

ASSUME MaxEstimatesAssumption == MaxEstimates \in Nat

VARIABLES
  card,             (* the job card: status, warranty, customerApproved     *)
  est,              (* status of the card's estimates, in order of creation *)
  nextEst,          (* the next estimate                                    *)
  agreed,           (* history: the customer agreed to the repair since the *)
                    (* card last became OOW                                 *)
  req               (* the requests in flight                               *)

vars == <<card, est, nextEst, agreed, req>>

Estimates == 1..MaxEstimates

EstimateStatus == {"NONE", "DRAFT", "SENT", "APPROVED", "REJECTED", "EXPIRED"}
ActiveEstimate == {"DRAFT", "SENT", "APPROVED"}
Decided        == {"APPROVED", "REJECTED", "EXPIRED"}

(***************************************************************************)
(* SECTION_ASSIGNED also stands for every later status of a repair.        *)
(***************************************************************************)
CardStatus == {"OPEN", "SN_VALIDATED", "RWR", "SECTION_ASSIGNED", "CANCELLED"}

Card == [status : CardStatus, warranty : {"IW", "OOW"}, approved : BOOLEAN]

(***************************************************************************)
(* A request saves its card entity (op "card", then "cardUpdate" once the  *)
(* row it compares with is in base) or an estimate; then is what it does   *)
(* after saving the card.                                                  *)
(***************************************************************************)
Ops == {"idle", "card", "cardUpdate", "create", "insert", "send", "expire",
        "respond", "answered", "revise"}

Request == [op     : Ops,
            entity : Card,
            base   : Card,
            est    : Nat,
            answer : {"APPROVED", "REJECTED"},
            then   : {"idle", "insert"}]

NoCard    == [status |-> "OPEN", warranty |-> "IW", approved |-> FALSE]
NoRequest == [op |-> "idle", entity |-> NoCard, base |-> NoCard, est |-> 0,
              answer |-> "APPROVED", then |-> "idle"]

Init ==
  /\ card \in [status : {"OPEN"}, warranty : {"IW", "OOW"}, approved : {FALSE}]
  /\ est = [e \in Estimates |-> "NONE"]
  /\ nextEst = 1
  /\ agreed = FALSE
  /\ req = [q \in Requests |-> NoRequest]

-----------------------------------------------------------------------------
\* What the customer says, by the link or through staff.
Answer(a) ==
  /\ agreed' = (agreed \/ a = "APPROVED")

(***************************************************************************)
(* Saving the card.                                                        *)
(***************************************************************************)

SaveCard(q, entity) ==
  req' = [req EXCEPT ![q] = [NoRequest EXCEPT !.op = "card", !.entity = entity]]

\* A handler that reads the card, whose status is in allowed, and saves entity.
CardHandler(q, allowed, entity) ==
  /\ req[q].op = "idle"
  /\ card.status \in allowed
  /\ SaveCard(q, entity)
  /\ UNCHANGED <<card, est, nextEst>>

CardSelect(q) ==
  /\ req[q].op = "card"
  /\ req' = [req EXCEPT ![q].op = "cardUpdate", ![q].base = card]
  /\ UNCHANGED <<card, est, nextEst, agreed>>

CardUpdate(q) ==
  LET written == [c \in DOMAIN card |->
                    IF req[q].entity[c] # req[q].base[c] THEN req[q].entity[c] ELSE card[c]] IN
  /\ req[q].op = "cardUpdate"
  /\ card' = written
  /\ agreed' = IF card.warranty = "IW" /\ written.warranty = "OOW" THEN FALSE ELSE agreed
  /\ req' = [req EXCEPT ![q] = [NoRequest EXCEPT !.op = req[q].then]]
  /\ UNCHANGED <<est, nextEst>>

-----------------------------------------------------------------------------
(***************************************************************************)
(* Handlers on the card alone.                                             *)
(***************************************************************************)

\* A mismatch only writes the note; a match passes the gate.
ValidateSn(q, matches) ==
  /\ CardHandler(q, {"OPEN"},
                 IF matches THEN [card EXCEPT !.status = "SN_VALIDATED"] ELSE card)
  /\ UNCHANGED agreed

AssignSection(q) ==
  /\ card.warranty = "OOW" => card.approved
  /\ CardHandler(q, {"SN_VALIDATED"}, [card EXCEPT !.status = "SECTION_ASSIGNED"])
  /\ UNCHANGED agreed

\* The manual approval: whatever the card's status.
ApproveCustomer(q) ==
  /\ CardHandler(q, CardStatus, [card EXCEPT !.approved = TRUE])
  /\ Answer("APPROVED")

\* Fault: the approval given under warranty is kept.
OverriddenKeepsApproval(w) == [card EXCEPT !.warranty = w]

\* Out of warranty now: an approval given on other terms is reset.
Overridden(w) == [card EXCEPT !.warranty = w, !.approved = @ /\ w # "OOW"]

WarrantyOverride(q, w) ==
  /\ card.warranty # w
  /\ CardHandler(q, CardStatus \ {"RWR", "CANCELLED"}, Overridden(w))
  /\ UNCHANGED agreed

Cancel(q) ==
  /\ CardHandler(q, CardStatus \ {"CANCELLED"}, [card EXCEPT !.status = "CANCELLED"])
  /\ UNCHANGED agreed

-----------------------------------------------------------------------------
(***************************************************************************)
(* Estimates.                                                              *)
(***************************************************************************)

\* findEntityById, then the handler's check of the estimate's status.
ReadEstimate(q, op, e, status, answer) ==
  /\ req[q].op = "idle"
  /\ est[e] = status
  /\ req' = [req EXCEPT ![q] = [NoRequest EXCEPT !.op = op, !.est = e, !.answer = answer]]
  /\ UNCHANGED <<card, est, nextEst>>

SaveEstimate(q, op, status) ==
  /\ req[q].op = op
  /\ est' = [est EXCEPT ![req[q].est] = status]
  /\ UNCHANGED <<card, nextEst, agreed>>

\* Fault: a card that is being returned unrepaired gets an estimate.
CreateReadAny(q) ==
  /\ req[q].op = "idle"
  /\ card.warranty = "OOW"
  /\ card.status \in {"SN_VALIDATED", "RWR"}
  /\ req' = [req EXCEPT ![q].op = "create"]
  /\ UNCHANGED <<card, est, nextEst, agreed>>

CreateRead(q) ==
  /\ req[q].op = "idle"
  /\ card.warranty = "OOW"
  /\ card.status = "SN_VALIDATED"
  /\ req' = [req EXCEPT ![q].op = "create"]
  /\ UNCHANGED <<card, est, nextEst, agreed>>

\* Fault: only an estimate that is already with the customer counts as active.
NoneActiveSentOnly == \A e \in Estimates : est[e] # "SENT"

NoneActive == \A e \in Estimates : est[e] \notin ActiveEstimate

CreateCheck(q) ==
  /\ req[q].op = "create"
  /\ NoneActive
  /\ req' = [req EXCEPT ![q].op = "insert"]
  /\ UNCHANGED <<card, est, nextEst, agreed>>

\* The last step of create and of revise.
InsertEstimate(q) ==
  /\ req[q].op = "insert"
  /\ nextEst \in Estimates
  /\ est' = [est EXCEPT ![nextEst] = "DRAFT"]
  /\ nextEst' = nextEst + 1
  /\ req' = [req EXCEPT ![q] = NoRequest]
  /\ UNCHANGED <<card, agreed>>

SendRead(q, e) == ReadEstimate(q, "send", e, "DRAFT", "APPROVED") /\ UNCHANGED agreed

\* The channels are tried; the save follows whatever they delivered.
Send(q) == SaveEstimate(q, "send", "SENT") /\ req' = [req EXCEPT ![q] = NoRequest]

(***************************************************************************)
(* The public view and the link's response find a SENT estimate whose      *)
(* seven days are over (which may be at any time) and save it EXPIRED.     *)
(***************************************************************************)
ExpireRead(q, e) == ReadEstimate(q, "expire", e, "SENT", "APPROVED") /\ UNCHANGED agreed

Expire(q) == SaveEstimate(q, "expire", "EXPIRED") /\ req' = [req EXCEPT ![q] = NoRequest]

(***************************************************************************)
(* respondToEstimate, from the customer's link or recorded by staff (who   *)
(* may record an answer after the link's expiry): the estimate is saved,   *)
(* then the card is read and saved by approveCustomer or setToRwr.         *)
(***************************************************************************)

\* Fault: an estimate that was answered already accepts another answer.
AnswerableAgain == {"SENT", "APPROVED", "REJECTED"}

Answerable == {"SENT"}

RespondRead(q, e, answer) ==
  /\ \E s \in Answerable : ReadEstimate(q, "respond", e, s, answer)
  /\ Answer(answer)

RespondSave(q) ==
  /\ SaveEstimate(q, "respond", req[q].answer)
  /\ req' = [req EXCEPT ![q].op = "answered"]

RespondApprove(q) ==
  /\ req[q].op = "answered"
  /\ req[q].answer = "APPROVED"
  /\ SaveCard(q, [card EXCEPT !.approved = TRUE])
  /\ UNCHANGED <<card, est, nextEst, agreed>>

\* Fault: the card gets the estimate's status.
ReturnedUnrepairedRejected == [card EXCEPT !.status = "REJECTED"]

ReturnedUnrepaired == [card EXCEPT !.status = "RWR"]

\* setToRwr throws unless the card is SN_VALIDATED; the answer stays saved.
RespondSetToRwr(q) ==
  /\ req[q].op = "answered"
  /\ req[q].answer = "REJECTED"
  /\ card.status = "SN_VALIDATED"
  /\ SaveCard(q, ReturnedUnrepaired)
  /\ UNCHANGED <<card, est, nextEst, agreed>>

(***************************************************************************)
(* revise: a rejected estimate; the card is read and saved by              *)
(* reviveFromRwr, then the new draft is inserted.                          *)
(***************************************************************************)
ReviseRead(q, e) == ReadEstimate(q, "revise", e, "REJECTED", "APPROVED") /\ UNCHANGED agreed

ReviseRevive(q) ==
  /\ req[q].op = "revise"
  /\ card.status = "RWR"
  /\ req' = [req EXCEPT ![q] = [NoRequest EXCEPT !.op = "card", !.then = "insert",
                                  !.entity = [card EXCEPT !.status = "SN_VALIDATED"]]]
  /\ UNCHANGED <<card, est, nextEst, agreed>>

\* A handler throws, or dies with its process, between two of its saves.
Abandon(q) ==
  /\ req[q].op # "idle"
  /\ req' = [req EXCEPT ![q] = NoRequest]
  /\ UNCHANGED <<card, est, nextEst, agreed>>

-----------------------------------------------------------------------------
CardStep(q) ==
  \/ CardSelect(q)
  \/ CardUpdate(q)
  \/ \E matches \in BOOLEAN : ValidateSn(q, matches)
  \/ AssignSection(q)
  \/ ApproveCustomer(q)
  \/ \E w \in {"IW", "OOW"} : WarrantyOverride(q, w)
  \/ Cancel(q)

EstimateStep(q) ==
  \/ CreateRead(q)
  \/ CreateCheck(q)
  \/ InsertEstimate(q)
  \/ Send(q)
  \/ Expire(q)
  \/ RespondSave(q)
  \/ RespondApprove(q)
  \/ RespondSetToRwr(q)
  \/ ReviseRevive(q)
  \/ \E e \in Estimates : \/ SendRead(q, e)
                          \/ ExpireRead(q, e)
                          \/ ReviseRead(q, e)
                          \/ \E a \in {"APPROVED", "REJECTED"} : RespondRead(q, e, a)

Next == \E q \in Requests : CardStep(q) \/ EstimateStep(q) \/ Abandon(q)

Spec == Init /\ [][Next]_vars

-----------------------------------------------------------------------------
\* Every variable has its type.
TypeOK ==
  /\ card \in Card
  /\ est \in [Estimates -> EstimateStatus]
  /\ nextEst \in Nat \ {0}
  /\ agreed \in BOOLEAN
  /\ req \in [Requests -> Request]

(***************************************************************************)
(* Properties of requests that do not overlap (Requests has one member),   *)
(* each of which may die between any two of its steps.                     *)
(***************************************************************************)

(***************************************************************************)
(* A card never has two active estimates (create's conflict check and      *)
(* revise's "only from REJECTED", "only from RWR" together).               *)
(***************************************************************************)
OneActiveEstimate ==
  Cardinality({e \in Estimates : est[e] \in ActiveEstimate}) <= 1

(***************************************************************************)
(* "RWR is not a dead end" (estimates.service.ts:272): a card being        *)
(* returned unrepaired always has a rejected estimate to revise, and no    *)
(* other estimate the customer could still answer.                         *)
(***************************************************************************)
RwrIsNoDeadEnd ==
  card.status = "RWR" =>
    /\ \E e \in Estimates : est[e] = "REJECTED"
    /\ \A e \in Estimates : est[e] \notin {"DRAFT", "SENT"}

(***************************************************************************)
(* Work starts on an OOW card only if the customer agreed since it became  *)
(* OOW: an approval given under warranty, or before an override took the   *)
(* card back and forth, does not count (job-cards.service.ts:829).         *)
(***************************************************************************)
WorkStarts == card.status # "SECTION_ASSIGNED" /\ card'.status = "SECTION_ASSIGNED"

WorkStartsAgreed == [][(WorkStarts /\ card'.warranty = "OOW") => agreed]_vars

(***************************************************************************)
(* An estimate's outcome is never changed: not by a second answer, a link  *)
(* found expired or a second send; "a decided estimate is not a live       *)
(* decision surface" (estimates.service.ts:148), and a rejected one is a   *)
(* permanent record.                                                       *)
(***************************************************************************)
DecidedIsFinal ==
  [][\A e \in Estimates : est[e] \in Decided => est'[e] = est[e]]_vars
=============================================================================
