-------------------------------- MODULE Visits --------------------------------
(***************************************************************************)
(* An appointment from the booking to its end, and what happens to it on   *)
(* the way: AppointmentsService (status, job type, the Start Work timer),  *)
(* TechnicianService (the visit of a repair), WorkshopIntakeService (a     *)
(* unit collected to the workshop), the creation of the job card in        *)
(* JobCardsService and the completion of a contract visit in AmcService.   *)
(*                                                                         *)
(* Requests do not overlap here.  None of these handlers runs in a         *)
(* transaction with another's writes: one that commits more than once is   *)
(* split after each commit, and may die between two of them.               *)
(*                                                                         *)
(* Any caller is entitled; whether a time is free is Booking's subject.    *)
(* AppointmentType is ACTIVITY, AMC or any other (SERVICE); JobType is     *)
(* one of ACTIVITY_JOB_TYPES (INSTALLATION) or another (REPAIR).           *)
(***************************************************************************)
EXTENDS Naturals, FiniteSets

CONSTANTS
  Visits,          (* appointments                                         *)
  Plans,           (* what each appointment is booked as, in a behaviour   *)
  Technicians,
  MaxRewrites,     (* bound: edits that write another status, per visit     *)
  None             (* no technician, no appointment                        *)

\* Booked as a repair, a visit of an AMC contract, an installation, or not at all.
ASSUME PlansAssumption ==
  Plans \subseteq [Visits -> {"repair", "contract", "installation", "none"}]
ASSUME BoundAssumption  == MaxRewrites \in Nat
ASSUME NoneAssumption   == None \notin Technicians \union Visits

VARIABLES
  plan,         (* the member of Plans this behaviour is about             *)
  rewrites,     (* history: edits that wrote another status, of each visit *)
  apt,          (* Appointment: status, type, jobType, technicianId        *)
  visit,        (* TechnicianVisit: how far the diagnosis is               *)
  intake,       (* WorkshopIntake: the same                                *)
  activity,     (* AppointmentActivity: how far, who began it, open pauses *)
  card,         (* JobCard of the appointment                              *)
  completion,   (* the visits with an AmcVisitCompletion                   *)
  contract,     (* the AMC contract's status                               *)
  req           (* what is left of the request being handled               *)

rows == <<plan, rewrites, apt, visit, intake, activity, card, completion, contract>>
vars == <<plan, rewrites, apt, visit, intake, activity, card, completion, contract, req>>

Before == {"SCHEDULED", "CONFIRMED", "TECHNICIAN_ASSIGNED"}
Over   == {"COLLECTED_TO_WS", "COMPLETED", "CANCELLED"}
Status == Before \union {"ON_SITE"} \union Over

Reassignable == Before

Appointment == [status       : Status,
                type         : {"SERVICE", "AMC", "ACTIVITY"},
                jobType      : {"REPAIR", "INSTALLATION"},
                technicianId : Technicians \union {None}]

\* A diagnosis: begun (visit started, unit received), serial number, fault and symptom.
Diagnosis == {"NONE", "BEGUN", "SERIAL", "FAULT"}

Activity == [state : {"NOT_STARTED", "OPEN", "FINISHED"}, paused : BOOLEAN, started : BOOLEAN]

CardStatus == {"NONE", "OPEN", "ON_SITE_REPAIR", "WORKSHOP", "READY_FOR_QC", "COMPLETED"}

Idle == [op |-> "idle", v |-> None]

Paired(type, jobType) == type = "ACTIVITY" => jobType = "INSTALLATION"

\* What the forms can make of an appointment, new or edited.
Form == [type : {"SERVICE", "AMC", "ACTIVITY"}, jobType : {"REPAIR", "INSTALLATION"},
         technicianId : Technicians \union {None}]

Offered(v) == {f \in Form : /\ Paired(f.type, f.jobType)
                            /\ plan[v] = "installation" => f.type = "ACTIVITY"}

\* The appointments as create and generateVisitSchedule leave them.
Booked(v) == {[status |-> "SCHEDULED", type |-> f.type, jobType |-> f.jobType,
               technicianId |-> f.technicianId] :
                f \in {g \in Offered(v) :
                         /\ plan[v] = "contract" => g.type = "AMC" /\ g.jobType = "REPAIR"
                         /\ plan[v] = "none" => g.type = "SERVICE" /\ g.technicianId = None}}

ContractVisits == {v \in Visits : plan[v] = "contract"}

Init ==
  /\ plan \in Plans
  /\ rewrites = [v \in Visits |-> 0]
  /\ apt \in {f \in [Visits -> Appointment] : \A v \in Visits : f[v] \in Booked(v)}
  /\ visit = [v \in Visits |-> "NONE"]
  /\ intake = [v \in Visits |-> "NONE"]
  /\ activity = [v \in Visits |-> [state |-> "NOT_STARTED", paused |-> FALSE,
                                   started |-> FALSE]]
  /\ card = [v \in Visits |-> "NONE"]
  /\ completion = {}
  /\ contract = "ACTIVE"
  /\ req = Idle

StatusOf(v) == apt[v].status

SetStatus(v, s) == apt' = [apt EXCEPT ![v].status = s]

Ready(v) == req = Idle /\ plan[v] # "none"

Pending(op, v) == req = [op |-> op, v |-> v]

Then(op, v) == req' = [op |-> op, v |-> v]

Done == req' = Idle

-----------------------------------------------------------------------------
(***************************************************************************)
(* Handlers of AppointmentsService that save the appointment once.         *)
(***************************************************************************)

\* A handler that only changes the status.  Called again, or late, it does nothing.
Transition(v, from, to) ==
  /\ Ready(v)
  /\ StatusOf(v) \in from
  /\ SetStatus(v, to)
  /\ UNCHANGED <<plan, rewrites, visit, intake, activity, card, completion, contract, req>>

Confirm(v) == Transition(v, {"SCHEDULED"}, "CONFIRMED")

Arrivable == {"CONFIRMED", "TECHNICIAN_ASSIGNED"}

MarkOnSite(v) == Transition(v, Arrivable, "ON_SITE")

MarkCollectedToWorkshop(v) == Transition(v, Arrivable \union {"ON_SITE"}, "COLLECTED_TO_WS")

Cancel(v) ==
  /\ card[v] = "NONE"
  /\ Transition(v, Status \ {"COMPLETED", "CANCELLED"}, "CANCELLED")

AssignTechnician(v, t) ==
  /\ Ready(v)
  /\ StatusOf(v) \in {"SCHEDULED", "CONFIRMED"}
  /\ apt' = [apt EXCEPT ![v].status = "TECHNICIAN_ASSIGNED", ![v].technicianId = t]
  /\ UNCHANGED <<plan, rewrites, visit, intake, activity, card, completion, contract, req>>

\* Fault: a reassignment is possible at any time.
ReassignableAlways(v) == TRUE

MayReassign(v) == StatusOf(v) \in Reassignable

\* The form sends no status, other callers may: it is written as it comes.
Update(v, status, type, jobType, t) ==
  /\ Ready(v)
  /\ (type # apt[v].type \/ jobType # apt[v].jobType) => Paired(type, jobType)
  /\ t # apt[v].technicianId => t # None /\ MayReassign(v)
  /\ apt' = [apt EXCEPT ![v] = [status |-> status, type |-> type, jobType |-> jobType,
                                technicianId |-> t]]
  /\ IF status = StatusOf(v)
     THEN UNCHANGED rewrites
     ELSE /\ rewrites[v] < MaxRewrites
          /\ rewrites' = [rewrites EXCEPT ![v] = @ + 1]
  /\ UNCHANGED <<plan, visit, intake, activity, card, completion, contract, req>>

CorrectJobType(v, jobType) ==
  /\ Ready(v)
  /\ StatusOf(v) \notin Over
  /\ apt' = [apt EXCEPT ![v].jobType = jobType]
  /\ UNCHANGED <<plan, rewrites, visit, intake, activity, card, completion, contract, req>>

\* Fault: an AMC visit is completed like any other.
CompletableAmcToo(v) == StatusOf(v) = "ON_SITE"

Completable(v) == StatusOf(v) = "ON_SITE" /\ apt[v].type # "AMC"

CompleteAppointment(v) == Completable(v) /\ Transition(v, {"ON_SITE"}, "COMPLETED")

-----------------------------------------------------------------------------
(***************************************************************************)
(* Installations: Start Work, Pause, Resume, Activity Finished, and the    *)
(* override of a CCE who was handed the papers.                            *)
(***************************************************************************)

\* Start Work puts the technician on site first, as a commit of its own.
StartActivity(v) ==
  /\ Ready(v)
  /\ apt[v].jobType = "INSTALLATION"
  /\ StatusOf(v) \in Arrivable \union {"ON_SITE"}
  /\ activity[v].state = "NOT_STARTED"
  /\ SetStatus(v, "ON_SITE")
  /\ Then("startActivity", v)
  /\ UNCHANGED <<plan, rewrites, visit, intake, activity, card, completion, contract>>

\* Fault: only activities that are not paused count as open.
OpenElsewhereUnpaused(v) ==
  \E w \in Visits \ {v} : /\ apt[w].technicianId = apt[v].technicianId
                          /\ activity[w].state = "OPEN"
                          /\ ~activity[w].paused

OpenElsewhere(v) ==
  \E w \in Visits \ {v} : /\ apt[w].technicianId = apt[v].technicianId
                          /\ activity[w].state = "OPEN"

StartActivityInsert(v) ==
  /\ Pending("startActivity", v)
  /\ activity' = IF apt[v].technicianId # None /\ OpenElsewhere(v)
                 THEN activity
                 ELSE [activity EXCEPT ![v].state = "OPEN", ![v].started = TRUE]
  /\ Done
  /\ UNCHANGED <<plan, rewrites, apt, visit, intake, card, completion, contract>>

PauseActivity(v) ==
  /\ Ready(v)
  /\ activity[v].state = "OPEN"
  /\ activity' = [activity EXCEPT ![v].paused = TRUE]
  /\ UNCHANGED <<plan, rewrites, apt, visit, intake, card, completion, contract, req>>

ResumeActivity(v) ==
  /\ Ready(v)
  /\ activity[v].state = "OPEN"
  /\ activity' = [activity EXCEPT ![v].paused = FALSE]
  /\ UNCHANGED <<plan, rewrites, apt, visit, intake, card, completion, contract, req>>

FinishActivity(v) ==
  /\ Ready(v)
  /\ activity[v].state = "OPEN"
  /\ ~activity[v].paused
  /\ activity' = [activity EXCEPT ![v].state = "FINISHED"]
  /\ UNCHANGED <<plan, rewrites, apt, visit, intake, card, completion, contract, req>>

\* The row is created if Start Work never did; an open pause is closed; then it ends.
OverrideFinishActivity(v) ==
  /\ Ready(v)
  /\ apt[v].jobType = "INSTALLATION"
  /\ StatusOf(v) \notin Over
  /\ activity[v].state # "FINISHED"
  /\ activity' = [activity EXCEPT ![v].state = "OPEN"]
  /\ Then("override", v)
  /\ UNCHANGED <<plan, rewrites, apt, visit, intake, card, completion, contract>>

\* Fault: the pause is left open.
ResumedNot(a) == a

Resumed(a) == [a EXCEPT !.paused = FALSE]

OverrideResume(v) ==
  /\ Pending("override", v)
  /\ activity' = [activity EXCEPT ![v] = Resumed(@)]
  /\ Then("overrideFinish", v)
  /\ UNCHANGED <<plan, rewrites, apt, visit, intake, card, completion, contract>>

OverrideFinish(v) ==
  /\ Pending("overrideFinish", v)
  /\ activity' = [activity EXCEPT ![v].state = "FINISHED"]
  /\ Done
  /\ UNCHANGED <<plan, rewrites, apt, visit, intake, card, completion, contract>>

-----------------------------------------------------------------------------
(***************************************************************************)
(* Repairs: the diagnosis on site or in the workshop, and the job card.    *)
(***************************************************************************)

\* startVisit marks the technician on site unless there already (or past it: markOnSite
\* does nothing then), and upserts the visit row, keeping what was captured.
StartVisit(v) ==
  /\ Ready(v)
  /\ plan[v] # "installation"
  /\ StatusOf(v) \notin {"SCHEDULED", "CANCELLED"}
  /\ IF StatusOf(v) \in Arrivable THEN SetStatus(v, "ON_SITE") ELSE UNCHANGED apt
  /\ Then("startVisit", v)
  /\ UNCHANGED <<plan, rewrites, visit, intake, activity, card, completion, contract>>

StartVisitSave(v) ==
  /\ Pending("startVisit", v)
  /\ visit' = [visit EXCEPT ![v] = IF @ = "NONE" THEN "BEGUN" ELSE @]
  /\ Done
  /\ UNCHANGED <<plan, rewrites, apt, intake, activity, card, completion, contract>>

\* A serial number captured again clears the fault; a fault needs a serial number.
Captured(d, what) == IF what = "serial" THEN "SERIAL" ELSE "FAULT"

Capturable(d, what) == IF what = "serial" THEN d # "NONE" ELSE d \in {"SERIAL", "FAULT"}

CaptureOnVisit(v, what) ==
  /\ Ready(v)
  /\ what = "serial" => StatusOf(v) = "ON_SITE"
  /\ Capturable(visit[v], what)
  /\ visit' = [visit EXCEPT ![v] = Captured(@, what)]
  /\ UNCHANGED <<plan, rewrites, apt, intake, activity, card, completion, contract, req>>

MarkReceived(v) ==
  /\ Ready(v)
  /\ plan[v] # "installation"
  /\ StatusOf(v) = "COLLECTED_TO_WS"
  /\ intake[v] = "NONE"
  /\ intake' = [intake EXCEPT ![v] = "BEGUN"]
  /\ UNCHANGED <<plan, rewrites, apt, visit, activity, card, completion, contract, req>>

CaptureOnIntake(v, what) ==
  /\ Ready(v)
  /\ StatusOf(v) = "COLLECTED_TO_WS"
  /\ Capturable(intake[v], what)
  /\ intake' = [intake EXCEPT ![v] = Captured(@, what)]
  /\ UNCHANGED <<plan, rewrites, apt, visit, activity, card, completion, contract, req>>

\* Where create takes the diagnosis from.
DiagnosisOf(v) == IF StatusOf(v) = "COLLECTED_TO_WS" THEN intake[v] ELSE visit[v]

CreateCard(v, status) ==
  /\ Ready(v)
  /\ card[v] = "NONE"
  /\ card' = [card EXCEPT ![v] = status]
  /\ Then("completeFromJobCardCreation", v)
  /\ UNCHANGED <<plan, rewrites, apt, visit, intake, activity, completion, contract>>

\* The appointment's status is not asked, its invoice number is taken to be on file.
CreateJobCard(v) == DiagnosisOf(v) = "FAULT" /\ CreateCard(v, "OPEN")

CreateFromActivity(v) ==
  /\ apt[v].jobType = "INSTALLATION"
  /\ activity[v].state = "FINISHED"
  /\ CreateCard(v, "COMPLETED")

\* A failure here is logged and the card stays.
CompleteFromJobCardCreation(v) ==
  /\ Pending("completeFromJobCardCreation", v)
  /\ IF StatusOf(v) \in {"COMPLETED", "CANCELLED"} \/ apt[v].type = "AMC"
     THEN UNCHANGED apt
     ELSE SetStatus(v, "COMPLETED")
  /\ Done
  /\ UNCHANGED <<plan, rewrites, visit, intake, activity, card, completion, contract>>

\* S/N validation, approval and assignSection, in one step (Estimates has the gates).
AssignSection(v, section) ==
  /\ Ready(v)
  /\ card[v] = "OPEN"
  /\ card' = [card EXCEPT ![v] = section]
  /\ UNCHANGED <<plan, rewrites, apt, visit, intake, activity, completion, contract, req>>

\* Fault: the job goes to QC whether or not the visit could be completed.
RepairedAlways(v) == TRUE

\* completeAppointment on the way: a completed visit passes, others must be on site.
Repaired(v) == StatusOf(v) = "COMPLETED" \/ Completable(v)

CompleteOnSiteRepair(v) ==
  /\ Ready(v)
  /\ card[v] = "ON_SITE_REPAIR"
  /\ Repaired(v)
  /\ IF Completable(v) THEN SetStatus(v, "COMPLETED") ELSE UNCHANGED apt
  /\ Then("completeOnSiteRepair", v)
  /\ UNCHANGED <<plan, rewrites, visit, intake, activity, card, completion, contract>>

CompleteOnSiteRepairSave(v) ==
  /\ Pending("completeOnSiteRepair", v)
  /\ card' = [card EXCEPT ![v] = "READY_FOR_QC"]
  /\ Done
  /\ UNCHANGED <<plan, rewrites, apt, visit, intake, activity, completion, contract>>

-----------------------------------------------------------------------------
(***************************************************************************)
(* Visits of an AMC contract.                                              *)
(***************************************************************************)

\* Fault: the type is enough, whether or not a contract booked the visit.
ByTypeAlone(v) == apt[v].type = "AMC"

OfContract(v) == v \in ContractVisits /\ apt[v].type = "AMC"

CompleteAmcVisit(v) ==
  /\ Ready(v)
  /\ OfContract(v)
  /\ StatusOf(v) \notin {"COMPLETED", "CANCELLED"}
  /\ v \notin completion
  /\ completion' = completion \union {v}
  /\ Then("completeAmcVisit", v)
  /\ UNCHANGED <<plan, rewrites, apt, visit, intake, activity, card, contract>>

CompleteAmcVisitSave(v) ==
  /\ Pending("completeAmcVisit", v)
  /\ SetStatus(v, "COMPLETED")
  /\ Done
  /\ UNCHANGED <<plan, rewrites, visit, intake, activity, card, completion, contract>>

CancelContract(v) ==
  /\ Ready(v)
  /\ v \in ContractVisits
  /\ contract = "ACTIVE"
  /\ contract' = "CANCELLED"
  /\ Then("cancelContract", v)
  /\ UNCHANGED <<plan, rewrites, apt, visit, intake, activity, card, completion>>

FutureVisit(v) == v \in ContractVisits /\ StatusOf(v) = "SCHEDULED"

CancelContractVisits(v) ==
  /\ Pending("cancelContract", v)
  /\ apt' = [w \in Visits |-> IF FutureVisit(w) THEN [apt[w] EXCEPT !.status = "CANCELLED"]
                                                ELSE apt[w]]
  /\ Done
  /\ UNCHANGED <<plan, rewrites, visit, intake, activity, card, completion, contract>>

\* The process dies between two commits of a handler.
Die == req # Idle /\ Done /\ UNCHANGED rows

\* An edit of the status and of the other columns is two edits: nothing comes between.
AppointmentStep(v) ==
  \/ Confirm(v) \/ MarkOnSite(v) \/ MarkCollectedToWorkshop(v) \/ Cancel(v)
  \/ CompleteAppointment(v)
  \/ \E t \in Technicians : AssignTechnician(v, t)
  \/ \E f \in Offered(v) : Update(v, StatusOf(v), f.type, f.jobType, f.technicianId)
  \/ \E s \in Status : Update(v, s, apt[v].type, apt[v].jobType, apt[v].technicianId)
  \/ plan[v] # "installation" /\ \E j \in {"REPAIR", "INSTALLATION"} : CorrectJobType(v, j)

ActivityStep(v) ==
  \/ StartActivity(v) \/ StartActivityInsert(v) \/ PauseActivity(v) \/ ResumeActivity(v)
  \/ FinishActivity(v)
  \/ OverrideFinishActivity(v) \/ OverrideResume(v) \/ OverrideFinish(v)

RepairStep(v) ==
  \/ StartVisit(v) \/ StartVisitSave(v) \/ MarkReceived(v)
  \/ \E what \in {"serial", "fault"} : CaptureOnVisit(v, what) \/ CaptureOnIntake(v, what)
  \/ CreateJobCard(v) \/ CreateFromActivity(v) \/ CompleteFromJobCardCreation(v)
  \/ \E s \in {"ON_SITE_REPAIR", "WORKSHOP"} : AssignSection(v, s)
  \/ CompleteOnSiteRepair(v) \/ CompleteOnSiteRepairSave(v)

ContractStep(v) ==
  \/ CompleteAmcVisit(v) \/ CompleteAmcVisitSave(v)
  \/ CancelContract(v) \/ CancelContractVisits(v)

Next ==
  \/ \E v \in Visits : AppointmentStep(v) \/ ActivityStep(v) \/ RepairStep(v) \/ ContractStep(v)
  \/ Die

Spec == Init /\ [][Next]_vars

-----------------------------------------------------------------------------
(***************************************************************************)
(* Properties.                                                             *)
(***************************************************************************)

TypeOK ==
  /\ plan \in Plans
  /\ rewrites \in [Visits -> 0..MaxRewrites]
  /\ apt \in [Visits -> Appointment]
  /\ visit \in [Visits -> Diagnosis]
  /\ intake \in [Visits -> Diagnosis]
  /\ activity \in [Visits -> Activity]
  /\ card \in [Visits -> CardStatus]
  /\ completion \subseteq ContractVisits
  /\ contract \in {"ACTIVE", "CANCELLED"}
  /\ req.v \in Visits \union {None}

\* A technician who tapped Start Work on one appointment has no second one running:
\* neither a reassignment, a correction of the job type nor an override in between
\* makes the work of two appointments his.  (An edit that takes the status of a running
\* one back to before the visit reopens the reassignment; such appointments are exempt.)
Working(v) == activity[v].state = "OPEN" /\ activity[v].started

OneActivityAtATime ==
  \A v, w \in {u \in Visits : Working(u) /\ rewrites[u] = 0} :
     v # w /\ apt[v].technicianId # None => apt[v].technicianId # apt[w].technicianId

\* A job that came to QC from the customer's door has a visit that is over: completing
\* the visit and handing over the job card are two saves, in this order.  (Afterwards only
\* an edit can write another status; such visits are exempt.)
QcMeansVisitOver ==
  \A v \in Visits : card[v] = "READY_FOR_QC" /\ rewrites[v] = 0 => StatusOf(v) = "COMPLETED"

\* "so the record never ends up claiming to be both finished and paused"
\* (appointments.service.ts:1575-1576): whoever pauses, resumes and finishes the work, and
\* wherever an override that closes the pause before it finishes the work has died.
NeverFinishedAndPaused ==
  \A v \in Visits : ~(activity[v].state = "FINISHED" /\ activity[v].paused)

Completes(v) == StatusOf(v) # "COMPLETED" /\ StatusOf(v)' = "COMPLETED"

\* None of the four handlers that complete an appointment completes a visit booked as AMC
\* without its checklist and signature, whatever edits and corrections came before.  (The
\* edit that writes COMPLETED itself, PUT /appointments/:id, is the one step exempt.)
AmcVisitsAreRecorded ==
  [][\A v \in Visits : Completes(v) /\ rewrites'[v] = rewrites[v]
                         => apt[v].type # "AMC" \/ v \in completion]_vars
===============================================================================
