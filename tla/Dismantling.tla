----------------------------- MODULE Dismantling ------------------------------
(***************************************************************************)
(* DismantlingService: a dead unit is stripped, a supervisor verifies what *)
(* was recovered, a third person prices it and puts it on the shelf.  One  *)
(* recovered component stands for the harvest.                             *)
(***************************************************************************)
EXTENDS Desk

VARIABLES
  record,      (* DismantlingRecord                                        *)
  recovered    (* units each record put into MAIN_STORE                    *)

recordVars == <<record, recovered>>

DismantlingStatus == {"NONE", "PENDING_HARVEST", "COMPONENTS_LOGGED", "VERIFIED",
                      "POSTED", "CANCELLED"}

DismantlingRecord == [status    : DismantlingStatus,
                      harvested : Staff \union {None},
                      verified  : Staff \union {None},
                      priced    : Staff \union {None}]

DismantlingInit ==
  /\ record = [d \in Records |-> [status |-> "NONE", harvested |-> None,
                                  verified |-> None, priced |-> None]]
  /\ recovered = [d \in Records |-> 0]

CreateRecord(s, d) ==
  /\ MayBegin(s, "dismantling")
  /\ record[d].status = "NONE"
  /\ record' = [record EXCEPT ![d].status = "PENDING_HARVEST"]
  /\ UNCHANGED <<subject, req, ledger, recovered>>

\* A handler that reads a record in one of these states and saves the entity as copy.
ReadRecord(s, d, from, op, copy) ==
  /\ MayBegin(s, "dismantling")
  /\ record[d].status \in from
  /\ Then(s, op, d, copy)
  /\ UNCHANGED <<subject, ledger, record, recovered>>

HarvestRead(s, d, by) ==
  ReadRecord(s, d, {"PENDING_HARVEST"}, "save",
             [record[d] EXCEPT !.status = "COMPONENTS_LOGGED", !.harvested = by])

MayVerify(d, by) == by # record[d].harvested

VerifyRead(s, d, by) ==
  /\ MayVerify(d, by)
  /\ ReadRecord(s, d, {"COMPONENTS_LOGGED"}, "save",
                [record[d] EXCEPT !.status = "VERIFIED", !.verified = by])

CancelRecordRead(s, d) ==
  ReadRecord(s, d, {"PENDING_HARVEST", "COMPONENTS_LOGGED"}, "save",
             [record[d] EXCEPT !.status = "CANCELLED"])

SaveRecord(s) ==
  /\ Pending(s, "save")
  /\ record' = [record EXCEPT ![req[s].doc] = req[s].copy]
  /\ Done(s)
  /\ UNCHANGED <<subject, ledger, recovered>>

MayPrice(d, by) == by \notin {record[d].harvested, record[d].verified}

PriceAndPostRead(s, d, by) ==
  MayPrice(d, by) /\ ReadRecord(s, d, {"VERIFIED"}, "price", by)

\* The lock of the record and a fresh read: only a VERIFIED record is posted.  Stock and
\* record commit together, the ledger posting follows.
PriceAndPost(s) ==
  LET d == req[s].doc IN
  /\ Pending(s, "price")
  /\ IF record[d].status = "VERIFIED"
     THEN /\ record' = [record EXCEPT ![d].status = "POSTED", ![d].priced = req[s].copy]
          /\ recovered' = [recovered EXCEPT ![d] = @ + 1]
          /\ Then(s, "ledger", d, None)
     ELSE Done(s) /\ UNCHANGED recordVars
  /\ UNCHANGED <<subject, ledger>>

DismantlingStep(s) ==
  \/ \E d \in Records :
       \/ CreateRecord(s, d) \/ CancelRecordRead(s, d)
       \/ \E by \in Staff : HarvestRead(s, d, by) \/ VerifyRead(s, d, by)
                            \/ PriceAndPostRead(s, d, by)
  \/ SaveRecord(s) \/ PriceAndPost(s)
===============================================================================
