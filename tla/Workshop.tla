------------------------------- MODULE Workshop -------------------------------
(***************************************************************************)
(* A job card between its section and the QC decision: JobCardsService     *)
(* (workshop technician, crew helpers, waiting for parts, task pauses, QC) *)
(* as WorkshopService composes it with the reservations of InventoryService *)
(* and as OperationalReportsService reads the pauses.                      *)
(*                                                                         *)
(* Requests do not overlap here.  A handler that commits more than once is *)
(* split after each commit and may die between two of them.  Any caller is *)
(* entitled, rework is signed off.  What a reservation takes off the shelf *)
(* is Inventory's subject: here it has a custodian, and it was filled or   *)
(* fell short.                                                             *)
(***************************************************************************)
EXTENDS Integers, Sequences, FiniteSetsExt

CONSTANTS
  Technicians,
  None,            (* no technician                                        *)
  MaxTime,         (* bound: the clock's last reading                      *)
  MaxPauses        (* bound: rows of job_card_task_pauses                  *)

ASSUME NoneAssumption   == None \notin Technicians
ASSUME BoundsAssumption == MaxTime \in Nat /\ MaxPauses \in Nat

VARIABLES
  now,         (* the clock; the job card was created at 0                 *)
  card,        (* JobCard: status, section, technician, qcApprovedAt       *)
  helpers,     (* technicians with a crew helper row that is not removed   *)
  pauses,      (* JobCardTaskPause, in the order of insertion              *)
  custody,     (* custodians of the job's open reservations                *)
  req          (* what is left of the request being handled                *)

vars == <<now, card, helpers, pauses, custody, req>>

Time == 0..MaxTime

Assigned  == {"WORKSHOP_ASSIGNED", "IN_PROGRESS", "SPARE_PENDING"}
Pausable  == {"SECTION_ASSIGNED"} \union Assigned
CardStatus == Pausable \union {"READY_FOR_QC", "QC_PASSED", "CANCELLED"}

JobCard == [status       : CardStatus,
            section      : {"WORKSHOP", "ON_SITE"},
            technician   : Technicians \union {None},
            qcApprovedAt : Time]

\* MATERIAL_SHORTAGE is the one reason the SLA report leaves out.
TaskPause == [shortage    : BOOLEAN,
              autoCreated : BOOLEAN,
              pausedAt    : Time,
              resumedAt   : Time \union {-1}]       \* -1: not resumed

Init ==
  /\ now = 0
  /\ card \in [status : {"SECTION_ASSIGNED"}, section : {"WORKSHOP", "ON_SITE"},
               technician : {None}, qcApprovedAt : {0}]
  /\ helpers = {}
  /\ pauses = <<>>
  /\ custody = {}
  /\ req = <<"idle">>

Ready == req = <<"idle">>
Done  == req' = <<"idle">>

Tick ==
  /\ now < MaxTime
  /\ now' = now + 1
  /\ UNCHANGED <<card, helpers, pauses, custody, req>>

\* A handler that changes the status and nothing else.
Moves(from, to) ==
  /\ Ready
  /\ card.status \in from
  /\ card' = [card EXCEPT !.status = to]
  /\ UNCHANGED <<now, helpers, pauses, req>>

-----------------------------------------------------------------------------
(***************************************************************************)
(* Who works on the job.                                                   *)
(***************************************************************************)

AssignWorkshopTechnician(t) ==
  /\ Ready
  /\ card.status = "SECTION_ASSIGNED" /\ card.section = "WORKSHOP"
  /\ card' = [card EXCEPT !.status = "WORKSHOP_ASSIGNED", !.technician = t]
  /\ UNCHANGED <<now, helpers, pauses, custody, req>>

\* Fault: the outgoing technician's parts are not asked about.
HoldsPartsNever == FALSE

HoldsParts == card.technician \in custody

\* The new technician's helper row is closed first, then the card is saved.
ReassignWorkshopTechnician(t) ==
  /\ Ready
  /\ card.section = "WORKSHOP" /\ card.technician \notin {None, t}
  /\ card.status \in Assigned \union {"READY_FOR_QC"}
  /\ ~HoldsParts
  /\ helpers' = helpers \ {t}
  /\ req' = <<"reassign", t>>
  /\ UNCHANGED <<now, card, pauses, custody>>

ReassignSave(t) ==
  /\ req = <<"reassign", t>>
  /\ card' = [card EXCEPT !.technician = t]
  /\ Done
  /\ UNCHANGED <<now, helpers, pauses, custody>>

\* Fault: the primary technician may be added as a helper.
MayHelpAnyone(t) == t \notin helpers

MayHelp(t) == t # card.technician /\ t \notin helpers

AddCrewHelper(t) ==
  /\ Ready
  /\ card.section = "WORKSHOP"
  /\ card.status \in Assigned
  /\ MayHelp(t)
  /\ helpers' = helpers \union {t}
  /\ UNCHANGED <<now, card, pauses, custody, req>>

RemoveCrewHelper(t) ==
  /\ Ready
  /\ t \in helpers
  /\ helpers' = helpers \ {t}
  /\ UNCHANGED <<now, card, pauses, custody, req>>

-----------------------------------------------------------------------------
(***************************************************************************)
(* The task timer.                                                         *)
(***************************************************************************)

IsOpen(p) == p.resumedAt = -1

OpenPauses == {i \in DOMAIN pauses : IsOpen(pauses[i])}

Opened(shortage, autoCreated) ==
  [shortage |-> shortage, autoCreated |-> autoCreated, pausedAt |-> now, resumedAt |-> -1]

\* Fault: the time of resuming is lost.
ClosedAtZero(p) == [p EXCEPT !.resumedAt = 0]

Closed(p) == [p EXCEPT !.resumedAt = now]

PauseTask(shortage) ==
  /\ Ready
  /\ card.status \in Pausable
  /\ OpenPauses = {}
  /\ Len(pauses) < MaxPauses
  /\ pauses' = Append(pauses, Opened(shortage, FALSE))
  /\ UNCHANGED <<now, card, helpers, custody, req>>

\* findOne picks an open row; no status forbids it.
ResumeTask ==
  /\ Ready
  /\ \E i \in OpenPauses : pauses' = [pauses EXCEPT ![i] = Closed(@)]
  /\ UNCHANGED <<now, card, helpers, custody, req>>

-----------------------------------------------------------------------------
(***************************************************************************)
(* Waiting for parts: requestSpare reserves, and then a second call puts   *)
(* the card into or out of SPARE_PENDING, and a third write the pause.     *)
(***************************************************************************)

\* A finished job takes a top-up and stays READY_FOR_QC.
RequestSpare(filled) ==
  /\ Ready
  /\ card.status \in {"IN_PROGRESS", "SPARE_PENDING", "READY_FOR_QC"}
  /\ card.technician # None
  /\ Len(pauses) < MaxPauses
  /\ custody' = custody \union {card.technician}
  /\ req' = IF card.status = "READY_FOR_QC" THEN <<"idle">>
            ELSE IF filled THEN <<"resumeFromSparePending">> ELSE <<"setSparePending">>
  /\ UNCHANGED <<now, card, helpers, pauses>>

SetSparePending ==
  /\ req = <<"setSparePending">>
  /\ card' = [card EXCEPT !.status = "SPARE_PENDING"]
  /\ req' = IF card.status = "SPARE_PENDING" THEN <<"idle">> ELSE <<"autoOpen">>
  /\ UNCHANGED <<now, helpers, pauses, custody>>

\* Fault: a pause the technician took himself is not looked for.
MayAutoOpenAlways == TRUE

MayAutoOpen == OpenPauses = {}

AutoOpenMaterialShortagePause ==
  /\ req = <<"autoOpen">>
  /\ pauses' = IF MayAutoOpen THEN Append(pauses, Opened(TRUE, TRUE)) ELSE pauses
  /\ Done
  /\ UNCHANGED <<now, card, helpers, custody>>

ResumeFromSparePending ==
  /\ req = <<"resumeFromSparePending">>
  /\ card' = [card EXCEPT !.status = "IN_PROGRESS"]
  /\ req' = IF card.status = "SPARE_PENDING" THEN <<"autoClose">> ELSE <<"idle">>
  /\ UNCHANGED <<now, helpers, pauses, custody>>

\* Only a pause the system opened itself.
AutoOpened == {i \in OpenPauses : pauses[i].shortage /\ pauses[i].autoCreated}

AutoCloseMaterialShortagePause ==
  /\ req = <<"autoClose">>
  /\ \/ AutoOpened = {} /\ UNCHANGED pauses
     \/ \E i \in AutoOpened : pauses' = [pauses EXCEPT ![i] = Closed(@)]
  /\ Done
  /\ UNCHANGED <<now, card, helpers, custody>>

\* A release, a return or a review takes a reservation out of custody.
ReleaseParts(t) ==
  /\ Ready
  /\ t \in custody
  /\ custody' = custody \ {t}
  /\ UNCHANGED <<now, card, helpers, pauses, req>>

-----------------------------------------------------------------------------
(***************************************************************************)
(* The job's status.                                                       *)
(***************************************************************************)

StartWip == Moves({"WORKSHOP_ASSIGNED"}, "IN_PROGRESS") /\ UNCHANGED custody

\* Open pauses stay open.
CompleteWorkshop == Moves({"IN_PROGRESS"}, "READY_FOR_QC") /\ UNCHANGED custody

CompleteOnSiteRepair ==
  /\ card.section = "ON_SITE"
  /\ Moves({"SECTION_ASSIGNED"}, "READY_FOR_QC")
  /\ UNCHANGED custody

\* A rejected on-site job becomes IN_PROGRESS too; a privileged caller completes it.
QcReject == Moves({"READY_FOR_QC"}, "IN_PROGRESS") /\ UNCHANGED custody

\* In one transaction with the consumption of the reservations.
QcApprove ==
  /\ Ready
  /\ card.status = "READY_FOR_QC"
  /\ card' = [card EXCEPT !.status = "QC_PASSED", !.qcApprovedAt = now]
  /\ custody' = {}
  /\ UNCHANGED <<now, helpers, pauses, req>>

Cancel ==
  /\ Ready
  /\ card.status \notin {"READY_FOR_QC", "QC_PASSED", "CANCELLED"}
  /\ card' = [card EXCEPT !.status = "CANCELLED"]
  /\ req' = <<"cancelReservations">>
  /\ UNCHANGED <<now, helpers, pauses, custody>>

CancelReservationsForJobCard ==
  /\ req = <<"cancelReservations">>
  /\ custody' = {}
  /\ Done
  /\ UNCHANGED <<now, card, helpers, pauses>>

\* The process dies between two commits of a handler.
Die == ~Ready /\ Done /\ UNCHANGED <<now, card, helpers, pauses, custody>>

Crew ==
  \E t \in Technicians :
     \/ AssignWorkshopTechnician(t)
     \/ ReassignWorkshopTechnician(t) \/ ReassignSave(t)
     \/ AddCrewHelper(t) \/ RemoveCrewHelper(t) \/ ReleaseParts(t)

Waiting ==
  \/ \E b \in BOOLEAN : PauseTask(b) \/ RequestSpare(b)
  \/ ResumeTask
  \/ SetSparePending \/ AutoOpenMaterialShortagePause
  \/ ResumeFromSparePending \/ AutoCloseMaterialShortagePause

Progress ==
  \/ StartWip \/ CompleteWorkshop \/ CompleteOnSiteRepair
  \/ QcReject \/ QcApprove \/ Cancel \/ CancelReservationsForJobCard

Next == Crew \/ Waiting \/ Progress \/ Die \/ Tick

Spec == Init /\ [][Next]_vars

-----------------------------------------------------------------------------
(***************************************************************************)
(* The SLA report.                                                         *)
(***************************************************************************)

\* A pause within [createdAt, qcApprovedAt], whether it was resumed or not.
Waited(p) ==
  LET end == IF IsOpen(p) THEN card.qcApprovedAt ELSE Min({p.resumedAt, card.qcApprovedAt})
  IN  IF p.shortage THEN Max({0, end - p.pausedAt}) ELSE 0

MaterialShortageExcluded ==
  LET upTo[n \in 0..Len(pauses)] == IF n = 0 THEN 0 ELSE upTo[n - 1] + Waited(pauses[n])
  IN  upTo[Len(pauses)]

-----------------------------------------------------------------------------
(***************************************************************************)
(* Properties.                                                             *)
(***************************************************************************)

TypeOK ==
  /\ now \in Time
  /\ card \in JobCard
  /\ helpers \subseteq Technicians
  /\ pauses \in Seq(TaskPause)
  /\ \A i \in DOMAIN pauses : IsOpen(pauses[i]) \/ pauses[i].resumedAt >= pauses[i].pausedAt
  /\ custody \subseteq Technicians
  /\ req[1] \in {"idle", "reassign", "setSparePending", "autoOpen",
                 "resumeFromSparePending", "autoClose", "cancelReservations"}

\* operational-reports.service.ts:348: excluded time "must never ... exceed the job's
\* own elapsed time".  The report bounds each pause; that their sum is bounded too rests
\* on the pauses never overlapping, over every mixture of manual and system pauses.
ExcludedWithinElapsed ==
  card.status = "QC_PASSED" => MaterialShortageExcluded <= card.qcApprovedAt

\* Nobody is both the technician and an active helper of a job, which the board would
\* show as a double booking: not after a handover to a helper, nor one that died halfway.
NobodyTwice == card.technician \notin helpers

\* Open reservations of a job are in its own technician's hands, through handovers,
\* top-ups after QC, and rejections.
CustodyIsAssignee == custody \subseteq {card.technician}
===============================================================================
