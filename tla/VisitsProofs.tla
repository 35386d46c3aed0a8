----------------------------- MODULE VisitsProofs -----------------------------
(***************************************************************************)
(* Proofs about Visits, for any visits, technicians and appointments: the  *)
(* handlers of appointments and activities write them one after the other, *)
(* each in a transaction of its own, and may die in between.               *)
(***************************************************************************)
EXTENDS Visits, TLAPS

\* The handlers a request may be in.
Ops == {"idle", "startActivity", "override", "overrideFinish", "startVisit",
        "completeFromJobCardCreation", "completeOnSiteRepair", "completeAmcVisit",
        "cancelContract"}

Memory == [op : Ops, v : Visits \union {None}]

Typed ==
  /\ plan \in Plans
  /\ rewrites \in [Visits -> 0..MaxRewrites]
  /\ apt \in [Visits -> Appointment]
  /\ visit \in [Visits -> Diagnosis]
  /\ intake \in [Visits -> Diagnosis]
  /\ activity \in [Visits -> Activity]
  /\ card \in [Visits -> CardStatus]
  /\ completion \subseteq ContractVisits
  /\ contract \in {"ACTIVE", "CANCELLED"}
  /\ req \in Memory

\* Work that was started belongs to a visit that is under way or over, unless an edit has
\* taken its status back.
BegunIsThere ==
  \A v \in Visits : activity[v].started => /\ activity[v].state # "NOT_STARTED"
                                           /\ rewrites[v] = 0 => StatusOf(v) \notin Before

PausedIsOpen == \A v \in Visits : activity[v].paused => activity[v].state = "OPEN"

\* What a handler checked before its last transaction still holds when it goes on.
Remembers ==
  /\ req.op # "idle" => req.v \in Visits
  /\ req.op = "startActivity" => StatusOf(req.v) \notin Before
  /\ req.op = "overrideFinish" => ~activity[req.v].paused
  /\ req.op = "completeOnSiteRepair" => StatusOf(req.v) = "COMPLETED"
  /\ req.op = "completeAmcVisit" => req.v \in completion

\* The inductive invariant: the properties need to know what the handler under way has
\* already written, and that started work implies a visit on its way.
IInv == /\ Typed /\ BegunIsThere /\ PausedIsOpen /\ Remembers
        /\ OneActivityAtATime /\ QcMeansVisitOver

(***************************************************************************)
(* What may become of appointment a of v when no edit writes its status:   *)
(* x.  A visit under way stays so and keeps its technician, a completed    *)
(* one stays completed, and an AMC visit is completed with its record.     *)
(***************************************************************************)
Allowed(v, a, x) ==
  /\ a.status \notin Before => x.status \notin Before /\ x.technicianId = a.technicianId
  /\ a.status = "COMPLETED" => x.status = "COMPLETED"
  /\ x.status = "COMPLETED" /\ a.status # "COMPLETED" => a.type # "AMC" \/ v \in completion

Moves == /\ apt' \in [Visits -> Appointment]
         /\ rewrites' \in [Visits -> 0..MaxRewrites]
         /\ \A v \in Visits : \/ rewrites'[v] = rewrites[v] /\ Allowed(v, apt[v], apt'[v])
                              \/ rewrites'[v] # rewrites[v] /\ rewrites'[v] # 0

\* A step that moves appointments and leaves the work on them alone.
LEMMA MovesKeep ==
  ASSUME IInv, Moves, UNCHANGED <<activity, card>>
  PROVE  BegunIsThere' /\ PausedIsOpen' /\ OneActivityAtATime' /\ QcMeansVisitOver'
<1>1. \A v \in Visits : rewrites'[v] = 0 => rewrites[v] = 0 /\ Allowed(v, apt[v], apt'[v])
  BY DEF Moves
<1>2. BegunIsThere'
  BY <1>1 DEF IInv, BegunIsThere, StatusOf, Allowed
<1>3. PausedIsOpen'
  BY DEF IInv, PausedIsOpen
<1>4. QcMeansVisitOver'
  BY <1>1 DEF IInv, QcMeansVisitOver, StatusOf, Allowed
<1>5. \A v \in Visits : Working(v)' <=> Working(v)
  BY DEF Working
<1>6. \A v \in Visits : Working(v) /\ rewrites'[v] = 0 =>
        rewrites[v] = 0 /\ apt'[v].technicianId = apt[v].technicianId
  BY <1>1 DEF IInv, BegunIsThere, StatusOf, Working, Allowed
<1>7. OneActivityAtATime'
  BY <1>5, <1>6 DEF IInv, OneActivityAtATime
<1>. QED
  BY <1>2, <1>3, <1>4, <1>7

\* A handler's write of one appointment.
LEMMA Write ==
  ASSUME IInv, NEW v \in Visits, NEW x \in Appointment, Allowed(v, apt[v], x),
         apt' = [apt EXCEPT ![v] = x], rewrites' = rewrites
  PROVE  Moves
<1>1. \A w \in Visits : apt'[w] = IF w = v THEN x ELSE apt[w]
  BY DEF IInv, Typed
<1>2. \A w \in Visits : Allowed(w, apt[w], apt[w])
  BY DEF Allowed
<1>. QED
  BY <1>1, <1>2 DEF IInv, Typed, Moves

LEMMA NoWrite == ASSUME IInv, UNCHANGED <<apt, rewrites>> PROVE Moves
BY DEF IInv, Typed, Moves, Allowed

-----------------------------------------------------------------------------

AptFrame == UNCHANGED <<plan, visit, intake, activity, card, completion, contract>>

\* A step that writes appointments and nothing else.
LEMMA AptOnly ==
  ASSUME IInv, Moves, AptFrame, req' \in Memory, Remembers'
  PROVE  IInv' /\ Moves
<1>1. Typed'
  BY DEF IInv, Typed, AptFrame, ContractVisits, Moves
<1>2. BegunIsThere' /\ PausedIsOpen' /\ OneActivityAtATime' /\ QcMeansVisitOver'
  BY MovesKeep DEF AptFrame
<1>. QED
  BY <1>1, <1>2 DEF IInv

LEMMA TransitionOK ==
  ASSUME IInv, NEW v \in Visits, NEW from, NEW to \in Status, Transition(v, from, to),
         Allowed(v, apt[v], [apt[v] EXCEPT !.status = to])
  PROVE  IInv' /\ Moves
<1>1. [apt[v] EXCEPT !.status = to] \in Appointment
  BY DEF IInv, Typed, Appointment
<1>2. Moves
  BY <1>1, Write DEF Transition, SetStatus
<1>3. req' = req /\ req.op = "idle" /\ AptFrame
  BY DEF Transition, Ready, Idle, AptFrame
<1>. QED
  BY <1>2, <1>3, AptOnly DEF Remembers, IInv, Typed

LEMMA SimpleTransitions ==
  ASSUME IInv, NEW v \in Visits,
         \/ Confirm(v) \/ MarkOnSite(v) \/ MarkCollectedToWorkshop(v) \/ Cancel(v)
         \/ CompleteAppointment(v)
  PROVE  IInv' /\ Moves
<1>0. apt[v] \in Appointment
  BY DEF IInv, Typed
<1>1. CASE Confirm(v)
  <2>1. Allowed(v, apt[v], [apt[v] EXCEPT !.status = "CONFIRMED"])
    BY <1>0, <1>1 DEF Confirm, Transition, StatusOf, Allowed, Appointment, Before
  <2>. QED
    BY <1>1, <2>1, TransitionOK DEF Confirm, Status, Before
<1>2. CASE MarkOnSite(v)
  <2>1. Allowed(v, apt[v], [apt[v] EXCEPT !.status = "ON_SITE"])
    BY <1>0, <1>2 DEF MarkOnSite, Transition, Arrivable, StatusOf, Allowed, Appointment,
       Before
  <2>. QED
    BY <1>2, <2>1, TransitionOK DEF MarkOnSite, Status
<1>3. CASE MarkCollectedToWorkshop(v)
  <2>1. Allowed(v, apt[v], [apt[v] EXCEPT !.status = "COLLECTED_TO_WS"])
    BY <1>0, <1>3 DEF MarkCollectedToWorkshop, Transition, Arrivable, StatusOf, Allowed,
       Appointment, Before
  <2>. QED
    BY <1>3, <2>1, TransitionOK DEF MarkCollectedToWorkshop, Status, Over
<1>4. CASE Cancel(v)
  <2>1. Allowed(v, apt[v], [apt[v] EXCEPT !.status = "CANCELLED"])
    BY <1>0, <1>4 DEF Cancel, Transition, StatusOf, Allowed, Appointment, Before
  <2>. QED
    BY <1>4, <2>1, TransitionOK DEF Cancel, Status, Over
<1>5. CASE CompleteAppointment(v)
  <2>1. Allowed(v, apt[v], [apt[v] EXCEPT !.status = "COMPLETED"])
    BY <1>0, <1>5 DEF CompleteAppointment, Completable, Transition, StatusOf, Allowed,
       Appointment, Before
  <2>. QED
    BY <1>5, <2>1, TransitionOK DEF CompleteAppointment, Status, Over
<1>. QED
  BY <1>1, <1>2, <1>3, <1>4, <1>5

\* assignTechnician, update and correctJobType write other columns too.
LEMMA EditOK ==
  ASSUME IInv, NEW v \in Visits, NEW x \in Appointment, Allowed(v, apt[v], x),
         apt' = [apt EXCEPT ![v] = x], rewrites' = rewrites, AptFrame, req = Idle, req' = req
  PROVE  IInv' /\ Moves
BY Write, AptOnly DEF Remembers, IInv, Typed, Idle

LEMMA EditsOK ==
  ASSUME IInv, NEW v \in Visits,
         \/ \E t \in Technicians : AssignTechnician(v, t)
         \/ \E f \in Offered(v) : Update(v, StatusOf(v), f.type, f.jobType, f.technicianId)
         \/ \E s \in Status : Update(v, s, apt[v].type, apt[v].jobType, apt[v].technicianId)
         \/ \E j \in {"REPAIR", "INSTALLATION"} : CorrectJobType(v, j)
  PROVE  IInv' /\ Moves
<1>0. apt[v] \in Appointment
  BY DEF IInv, Typed
<1>1. ASSUME NEW t \in Technicians, AssignTechnician(v, t) PROVE IInv' /\ Moves
  <2>. DEFINE x == [apt[v] EXCEPT !.status = "TECHNICIAN_ASSIGNED", !.technicianId = t]
  <2>1. x \in Appointment
    BY <1>0 DEF Appointment, Status, Before
  <2>2. Allowed(v, apt[v], x)
    BY <1>0, <1>1 DEF AssignTechnician, StatusOf, Allowed, Appointment, Before
  <2>3. apt' = [apt EXCEPT ![v] = x]
    BY <1>1 DEF AssignTechnician
  <2>. QED
    BY <1>1, <2>1, <2>2, <2>3, EditOK DEF AssignTechnician, Ready, AptFrame
<1>2. ASSUME NEW s \in Status, NEW f \in Form, Update(v, s, f.type, f.jobType, f.technicianId)
      PROVE  IInv' /\ Moves
  <2>. DEFINE x == [status |-> s, type |-> f.type, jobType |-> f.jobType,
                    technicianId |-> f.technicianId]
  <2>1. x \in Appointment /\ apt' = [apt EXCEPT ![v] = x] /\ AptFrame /\ req = Idle /\ req' = req
    BY <1>2 DEF Appointment, Form, Update, Ready, AptFrame
  <2>2. CASE s = apt[v].status
    <3>1. Allowed(v, apt[v], x) /\ rewrites' = rewrites
      BY <1>2, <2>2 DEF Update, MayReassign, Reassignable, StatusOf, Allowed
    <3>. QED
      BY <2>1, <3>1, EditOK
  <2>3. CASE s # apt[v].status
    <3>1. rewrites[v] \in 0..MaxRewrites /\ rewrites[v] < MaxRewrites
          /\ rewrites' = [rewrites EXCEPT ![v] = @ + 1]
      BY <1>2, <2>3 DEF Update, StatusOf, IInv, Typed
    <3>2. rewrites[v] + 1 \in 0..MaxRewrites /\ rewrites[v] + 1 # 0 /\ rewrites[v] + 1 # rewrites[v]
      BY <3>1, BoundAssumption
    <3>3. \A w \in Visits : Allowed(w, apt[w], apt[w])
      BY DEF Allowed
    <3>4. Moves
      BY <2>1, <3>1, <3>2, <3>3 DEF Moves, IInv, Typed
    <3>. QED
      BY <2>1, <3>4, AptOnly DEF Remembers, IInv, Typed, Idle
  <2>. QED
    BY <2>2, <2>3
<1>4. ASSUME NEW f \in Offered(v), Update(v, StatusOf(v), f.type, f.jobType, f.technicianId)
      PROVE  IInv' /\ Moves
  BY <1>0, <1>2, <1>4 DEF Offered, StatusOf, Appointment
<1>5. ASSUME NEW s \in Status, Update(v, s, apt[v].type, apt[v].jobType, apt[v].technicianId)
      PROVE  IInv' /\ Moves
  <2>1. PICK f \in Form : f.type = apt[v].type /\ f.jobType = apt[v].jobType
                          /\ f.technicianId = apt[v].technicianId
    <3>. DEFINE g == [type |-> apt[v].type, jobType |-> apt[v].jobType,
                      technicianId |-> apt[v].technicianId]
    <3>1. g \in Form
      BY <1>0 DEF Form, Appointment
    <3>. QED
      BY <3>1
  <2>. QED
    BY <1>2, <1>5, <2>1
<1>3. ASSUME NEW j \in {"REPAIR", "INSTALLATION"}, CorrectJobType(v, j) PROVE IInv' /\ Moves
  <2>. DEFINE x == [apt[v] EXCEPT !.jobType = j]
  <2>1. x \in Appointment
    BY <1>0 DEF Appointment
  <2>2. Allowed(v, apt[v], x)
    BY <1>0 DEF Allowed, Appointment
  <2>3. apt' = [apt EXCEPT ![v] = x]
    BY <1>3 DEF CorrectJobType
  <2>. QED
    BY <1>3, <2>1, <2>2, <2>3, EditOK DEF CorrectJobType, Ready, AptFrame
<1>. QED
  BY <1>1, <1>3, <1>4, <1>5

-----------------------------------------------------------------------------

LEMMA Memories ==
  /\ Idle \in Memory
  /\ \A v \in Visits, op \in Ops : [op |-> op, v |-> v] \in Memory
BY DEF Idle, Memory, Ops

\* Steps that leave the appointments alone.
StaysTyped == /\ plan' = plan /\ apt' = apt /\ rewrites' = rewrites
              /\ visit' \in [Visits -> Diagnosis]
              /\ intake' \in [Visits -> Diagnosis]
              /\ activity' \in [Visits -> Activity]
              /\ card' \in [Visits -> CardStatus]
              /\ completion' \subseteq ContractVisits
              /\ contract' \in {"ACTIVE", "CANCELLED"}

LEMMA Elsewhere ==
  ASSUME IInv, StaysTyped, req' \in Memory, Remembers',
         BegunIsThere', PausedIsOpen', OneActivityAtATime', QcMeansVisitOver'
  PROVE  IInv' /\ Moves
BY NoWrite DEF IInv, Typed, StaysTyped, ContractVisits

LEMMA Papers ==
  ASSUME IInv, StaysTyped, UNCHANGED <<activity, card>>, req' \in Memory, Remembers'
  PROVE  IInv' /\ Moves
BY Elsewhere, MovesKeep, NoWrite DEF StaysTyped

LEMMA DieOK == ASSUME IInv, Die PROVE IInv' /\ Moves
<1>1. StaysTyped /\ UNCHANGED <<activity, card>> /\ req' = Idle
  BY DEF Die, Done, rows, IInv, Typed, StaysTyped
<1>2. Remembers'
  BY <1>1 DEF Remembers, Idle
<1>. QED
  BY <1>1, <1>2, Papers, Memories

LEMMA DiagnosisOK ==
  ASSUME IInv, NEW v \in Visits,
         \/ MarkReceived(v)
         \/ \E what \in {"serial", "fault"} : CaptureOnVisit(v, what) \/ CaptureOnIntake(v, what)
  PROVE  IInv' /\ Moves
<1>1. \A what : Captured(visit[v], what) \in Diagnosis /\ Captured(intake[v], what) \in Diagnosis
  BY DEF Captured, Diagnosis
<1>2. visit' \in [Visits -> Diagnosis] /\ intake' \in [Visits -> Diagnosis]
  BY <1>1 DEF IInv, Typed, MarkReceived, CaptureOnVisit, CaptureOnIntake, Diagnosis
<1>3. StaysTyped /\ UNCHANGED <<activity, card>> /\ req' = req /\ req = Idle
  BY <1>2 DEF MarkReceived, CaptureOnVisit, CaptureOnIntake, Ready, IInv, Typed, StaysTyped
<1>4. Remembers'
  BY <1>3 DEF Remembers, Idle
<1>. QED
  BY <1>3, <1>4, Papers, Memories

LEMMA CompleteAmcVisitOK ==
  ASSUME IInv, NEW v \in Visits, CompleteAmcVisit(v)
  PROVE  IInv' /\ Moves
<1>1. StaysTyped /\ UNCHANGED <<activity, card>> /\ req' = [op |-> "completeAmcVisit", v |-> v]
  BY DEF CompleteAmcVisit, OfContract, Then, IInv, Typed, StaysTyped
<1>2. Remembers'
  BY <1>1 DEF Remembers, CompleteAmcVisit, StatusOf, StaysTyped
<1>. QED
  BY <1>1, <1>2, Papers, Memories DEF Ops

LEMMA CancelContractOK ==
  ASSUME IInv, NEW v \in Visits, CancelContract(v)
  PROVE  IInv' /\ Moves
<1>1. StaysTyped /\ UNCHANGED <<activity, card>> /\ req' = [op |-> "cancelContract", v |-> v]
  BY DEF CancelContract, Then, IInv, Typed, StaysTyped
<1>2. Remembers'
  BY <1>1 DEF Remembers
<1>. QED
  BY <1>1, <1>2, Papers, Memories DEF Ops

LEMMA StartVisitSaveOK ==
  ASSUME IInv, NEW v \in Visits, StartVisitSave(v)
  PROVE  IInv' /\ Moves
<1>1. visit' \in [Visits -> Diagnosis]
  BY DEF StartVisitSave, IInv, Typed, Diagnosis
<1>2. StaysTyped /\ UNCHANGED <<activity, card>> /\ req' = Idle
  BY <1>1 DEF StartVisitSave, Done, IInv, Typed, StaysTyped
<1>3. Remembers'
  BY <1>2 DEF Remembers, Idle
<1>. QED
  BY <1>2, <1>3, Papers, Memories

-----------------------------------------------------------------------------

\* The handlers that move the appointment and have something left to do.
LEMMA StartActivityOK ==
  ASSUME IInv, NEW v \in Visits, StartActivity(v)
  PROVE  IInv' /\ Moves
<1>. DEFINE x == [apt[v] EXCEPT !.status = "ON_SITE"]
<1>1. x \in Appointment /\ apt' = [apt EXCEPT ![v] = x]
  BY DEF IInv, Typed, Appointment, Status, StartActivity, SetStatus
<1>2. Allowed(v, apt[v], x)
  BY DEF IInv, Typed, Appointment, StartActivity, StatusOf, Arrivable, Allowed, Before
<1>3. Moves /\ apt'[v].status = "ON_SITE"
  BY <1>1, <1>2, Write DEF StartActivity, IInv, Typed, Appointment
<1>4. AptFrame /\ req' = [op |-> "startActivity", v |-> v]
  BY DEF StartActivity, Then, AptFrame
<1>5. Remembers'
  BY <1>3, <1>4 DEF Remembers, StatusOf, Before
<1>. QED
  BY <1>3, <1>4, <1>5, AptOnly, Memories DEF Ops

LEMMA StartVisitOK ==
  ASSUME IInv, NEW v \in Visits, StartVisit(v)
  PROVE  IInv' /\ Moves
<1>. DEFINE x == [apt[v] EXCEPT !.status = "ON_SITE"]
<1>1. Moves
  <2>1. CASE StatusOf(v) \in Arrivable
    <3>1. x \in Appointment /\ apt' = [apt EXCEPT ![v] = x]
      BY <2>1 DEF IInv, Typed, Appointment, Status, StartVisit, SetStatus
    <3>2. Allowed(v, apt[v], x)
      BY <2>1 DEF IInv, Typed, Appointment, StatusOf, Arrivable, Allowed, Before
    <3>. QED
      BY <3>1, <3>2, Write DEF StartVisit
  <2>2. CASE StatusOf(v) \notin Arrivable
    BY <2>2, NoWrite DEF StartVisit
  <2>. QED
    BY <2>1, <2>2
<1>2. AptFrame /\ req' = [op |-> "startVisit", v |-> v]
  BY DEF StartVisit, Then, AptFrame
<1>3. Remembers'
  BY <1>2 DEF Remembers
<1>. QED
  BY <1>1, <1>2, <1>3, AptOnly, Memories DEF Ops

\* A step that completes appointment v, or leaves it as it is.
LEMMA Complete ==
  ASSUME IInv, NEW v \in Visits, rewrites' = rewrites,
         \/ apt' = apt
         \/ /\ SetStatus(v, "COMPLETED")
            /\ apt[v].type # "AMC" \/ v \in completion
  PROVE  Moves
<1>. DEFINE x == [apt[v] EXCEPT !.status = "COMPLETED"]
<1>1. CASE apt' = apt
  BY <1>1, NoWrite
<1>2. CASE /\ SetStatus(v, "COMPLETED")
           /\ apt[v].type # "AMC" \/ v \in completion
  <2>1. x \in Appointment
    BY DEF IInv, Typed, Appointment, Status, Over
  <2>3. apt' = [apt EXCEPT ![v] = x]
    BY <1>2 DEF SetStatus
  <2>2. Allowed(v, apt[v], x)
    BY <1>2 DEF IInv, Typed, Appointment, Status, Before, Over, StatusOf, Allowed
  <2>. QED
    BY <2>1, <2>2, <2>3, Write
<1>. QED
  BY <1>1, <1>2

LEMMA CompleteFromJobCardCreationOK ==
  ASSUME IInv, NEW v \in Visits, CompleteFromJobCardCreation(v)
  PROVE  IInv' /\ Moves
<1>1. Moves
  BY Complete DEF CompleteFromJobCardCreation
<1>2. AptFrame /\ req' = Idle
  BY DEF CompleteFromJobCardCreation, Done, AptFrame
<1>3. Remembers'
  BY <1>2 DEF Remembers, Idle
<1>. QED
  BY <1>1, <1>2, <1>3, AptOnly, Memories

LEMMA CompleteOnSiteRepairOK ==
  ASSUME IInv, NEW v \in Visits, CompleteOnSiteRepair(v)
  PROVE  IInv' /\ Moves
<1>1. Moves
  BY Complete DEF CompleteOnSiteRepair, Completable
<1>2. AptFrame /\ req' = [op |-> "completeOnSiteRepair", v |-> v]
  BY DEF CompleteOnSiteRepair, Then, AptFrame
<1>3. apt'[v].status = "COMPLETED"
  BY DEF CompleteOnSiteRepair, Repaired, StatusOf, SetStatus, IInv, Typed, Appointment
<1>4. Remembers'
  BY <1>2, <1>3 DEF Remembers, StatusOf
<1>. QED
  BY <1>1, <1>2, <1>4, AptOnly, Memories DEF Ops

LEMMA CompleteAmcVisitSaveOK ==
  ASSUME IInv, NEW v \in Visits, CompleteAmcVisitSave(v)
  PROVE  IInv' /\ Moves
<1>0. req.op = "completeAmcVisit" /\ req.v = v
  BY DEF CompleteAmcVisitSave, Pending
<1>1. Moves
  BY <1>0, Complete DEF CompleteAmcVisitSave, IInv, Remembers
<1>2. AptFrame /\ req' = Idle
  BY DEF CompleteAmcVisitSave, Done, AptFrame
<1>3. Remembers'
  BY <1>2 DEF Remembers, Idle
<1>. QED
  BY <1>1, <1>2, <1>3, AptOnly, Memories

LEMMA CancelContractVisitsOK ==
  ASSUME IInv, NEW v \in Visits, CancelContractVisits(v)
  PROVE  IInv' /\ Moves
<1>1. \A w \in Visits : apt[w] \in Appointment
  BY DEF IInv, Typed
<1>2. \A w \in Visits : [apt[w] EXCEPT !.status = "CANCELLED"] \in Appointment
  BY <1>1 DEF Appointment, Status, Over
<1>3. \A w \in Visits : FutureVisit(w) =>
        Allowed(w, apt[w], [apt[w] EXCEPT !.status = "CANCELLED"])
  BY <1>1 DEF FutureVisit, StatusOf, Allowed, Appointment, Before
<1>4. \A w \in Visits : Allowed(w, apt[w], apt[w])
  BY DEF Allowed
<1>5. Moves
  <2>1. rewrites' = rewrites /\ rewrites \in [Visits -> 0..MaxRewrites]
    BY DEF CancelContractVisits, IInv, Typed
  <2>2. \A w \in Visits : apt'[w] = IF FutureVisit(w) THEN [apt[w] EXCEPT !.status = "CANCELLED"]
                                                     ELSE apt[w]
    BY DEF CancelContractVisits
  <2>3. apt' \in [Visits -> Appointment]
    BY <1>1, <1>2 DEF CancelContractVisits
  <2>. QED
    BY <1>3, <1>4, <2>1, <2>2, <2>3 DEF Moves
<1>6. AptFrame /\ req' = Idle
  BY DEF CancelContractVisits, Done, AptFrame
<1>7. Remembers'
  BY <1>6 DEF Remembers, Idle
<1>. QED
  BY <1>5, <1>6, <1>7, AptOnly, Memories

-----------------------------------------------------------------------------

\* Steps that change what is being worked on.
LEMMA ActivityOnly ==
  ASSUME IInv, UNCHANGED <<plan, rewrites, apt, visit, intake, card, completion, contract>>,
         activity' \in [Visits -> Activity], req' \in Memory, Remembers',
         BegunIsThere', PausedIsOpen', OneActivityAtATime'
  PROVE  IInv' /\ Moves
<1>1. StaysTyped
  BY DEF IInv, Typed, StaysTyped
<1>2. QcMeansVisitOver'
  BY DEF IInv, QcMeansVisitOver, StatusOf
<1>. QED
  BY <1>1, <1>2, Elsewhere

\* What a handler does to one activity when it starts nothing.
LEMMA NothingStarted ==
  ASSUME IInv, NEW v \in Visits, NEW x \in Activity,
         activity' = [activity EXCEPT ![v] = x],
         UNCHANGED <<plan, rewrites, apt, visit, intake, card, completion, contract>>,
         x.paused => x.state = "OPEN",
         x.started => x.state # "NOT_STARTED" /\ activity[v].started,
         x.state = "OPEN" /\ x.started => activity[v].state = "OPEN",
         req' \in Memory, Remembers'
  PROVE  IInv' /\ Moves
<1>1. activity' \in [Visits -> Activity] /\ \A w \in Visits : activity'[w] = IF w = v THEN x ELSE activity[w]
  BY DEF IInv, Typed
<1>2. BegunIsThere'
  BY <1>1 DEF IInv, BegunIsThere, StatusOf
<1>3. \A w \in Visits : Working(w)' => Working(w)
  BY <1>1 DEF Working
<1>4. OneActivityAtATime'
  BY <1>3 DEF IInv, OneActivityAtATime
<1>5. PausedIsOpen'
  BY <1>1 DEF IInv, PausedIsOpen
<1>. QED
  BY <1>1, <1>2, <1>4, <1>5, ActivityOnly

LEMMA TimerOK ==
  ASSUME IInv, NEW v \in Visits, PauseActivity(v) \/ ResumeActivity(v) \/ FinishActivity(v)
  PROVE  IInv' /\ Moves
<1>1. activity[v] \in Activity /\ activity[v].state = "OPEN" /\ req' = Idle /\ req = Idle
  BY DEF PauseActivity, ResumeActivity, FinishActivity, Ready, IInv, Typed
<1>2. Remembers' /\ req' \in Memory
  BY <1>1, Memories DEF Remembers, Idle
<1>3. UNCHANGED <<plan, rewrites, apt, visit, intake, card, completion, contract>>
  BY DEF PauseActivity, ResumeActivity, FinishActivity
<1>4. CASE PauseActivity(v)
  <2>1. [activity[v] EXCEPT !.paused = TRUE] \in Activity
    BY <1>1 DEF Activity
  <2>2. activity' = [activity EXCEPT ![v] = [activity[v] EXCEPT !.paused = TRUE]]
    BY <1>4 DEF PauseActivity
  <2>. QED
    BY <1>1, <1>2, <1>3, <2>1, <2>2, NothingStarted DEF Activity
<1>5. CASE ResumeActivity(v)
  <2>1. [activity[v] EXCEPT !.paused = FALSE] \in Activity
    BY <1>1 DEF Activity
  <2>2. activity' = [activity EXCEPT ![v] = [activity[v] EXCEPT !.paused = FALSE]]
    BY <1>5 DEF ResumeActivity
  <2>. QED
    BY <1>1, <1>2, <1>3, <2>1, <2>2, NothingStarted DEF Activity
<1>6. CASE FinishActivity(v)
  <2>1. [activity[v] EXCEPT !.state = "FINISHED"] \in Activity
    BY <1>1 DEF Activity
  <2>2. activity' = [activity EXCEPT ![v] = [activity[v] EXCEPT !.state = "FINISHED"]]
    BY <1>6 DEF FinishActivity
  <2>3. ~activity[v].paused
    BY <1>6 DEF FinishActivity
  <2>. QED
    BY <1>1, <1>2, <1>3, <2>1, <2>2, <2>3, NothingStarted DEF Activity
<1>. QED
  BY <1>4, <1>5, <1>6

\* An activity the override opens is not one that its technician began just now.
LEMMA OverrideOK ==
  ASSUME IInv, NEW v \in Visits,
         OverrideFinishActivity(v) \/ OverrideResume(v) \/ OverrideFinish(v)
  PROVE  IInv' /\ Moves
<1>0. /\ activity[v] \in Activity
      /\ activity[v].started => activity[v].state # "NOT_STARTED"
      /\ activity[v].paused => activity[v].state = "OPEN"
      /\ activity[v].state \in {"NOT_STARTED", "OPEN", "FINISHED"}
  BY DEF IInv, Typed, BegunIsThere, PausedIsOpen, Activity
<1>1. UNCHANGED <<plan, rewrites, apt, visit, intake, card, completion, contract>>
  BY DEF OverrideFinishActivity, OverrideResume, OverrideFinish
<1>2. CASE OverrideFinishActivity(v)
  <2>1. [activity[v] EXCEPT !.state = "OPEN"] \in Activity
    BY <1>0 DEF Activity
  <2>2. activity' = [activity EXCEPT ![v] = [activity[v] EXCEPT !.state = "OPEN"]]
    BY <1>2 DEF OverrideFinishActivity
  <2>3. req' \in Memory /\ Remembers'
    BY <1>2, Memories DEF OverrideFinishActivity, Then, Remembers, Ops
  <2>4. activity[v].started => activity[v].state = "OPEN"
    BY <1>0, <1>2 DEF OverrideFinishActivity
  <2>. QED
    BY <1>0, <1>1, <2>1, <2>2, <2>3, <2>4, NothingStarted DEF Activity
<1>3. CASE OverrideResume(v)
  <2>1. Resumed(activity[v]) \in Activity
    BY <1>0 DEF Activity, Resumed
  <2>2. activity' = [activity EXCEPT ![v] = Resumed(activity[v])]
    BY <1>3 DEF OverrideResume
  <2>3. ~activity'[v].paused
    BY <1>0, <2>2 DEF Resumed, Activity, IInv, Typed
  <2>4. req' \in Memory /\ Remembers'
    BY <1>3, <2>3, Memories DEF OverrideResume, Then, Remembers, Ops
  <2>. QED
    BY <1>0, <1>1, <2>1, <2>2, <2>4, NothingStarted DEF Activity, Resumed
<1>4. CASE OverrideFinish(v)
  <2>1. [activity[v] EXCEPT !.state = "FINISHED"] \in Activity
    BY <1>0 DEF Activity
  <2>2. activity' = [activity EXCEPT ![v] = [activity[v] EXCEPT !.state = "FINISHED"]]
    BY <1>4 DEF OverrideFinish
  <2>3. req' \in Memory /\ Remembers'
    BY <1>4, Memories DEF OverrideFinish, Done, Remembers, Idle
  <2>4. ~activity[v].paused
    BY <1>4 DEF OverrideFinish, Pending, IInv, Remembers
  <2>. QED
    BY <1>0, <1>1, <2>1, <2>2, <2>3, <2>4, NothingStarted DEF Activity
<1>. QED
  BY <1>2, <1>3, <1>4

\* The check startActivity makes just before it inserts is what keeps activities apart.
LEMMA StartActivityInsertOK ==
  ASSUME IInv, NEW v \in Visits, StartActivityInsert(v)
  PROVE  IInv' /\ Moves
<1>. DEFINE x == [activity[v] EXCEPT !.state = "OPEN", !.started = TRUE]
<1>1. /\ UNCHANGED <<plan, rewrites, apt, visit, intake, card, completion, contract>>
      /\ req' = Idle /\ StatusOf(v) \notin Before
  BY DEF StartActivityInsert, Done, Pending, IInv, Remembers
<1>2. req' \in Memory /\ Remembers'
  BY <1>1, Memories DEF Remembers, Idle
<1>3. CASE activity' = activity
  BY <1>1, <1>2, <1>3, Papers DEF IInv, Typed, StaysTyped
<1>4. CASE /\ activity' = [activity EXCEPT ![v] = x]
           /\ apt[v].technicianId # None => ~OpenElsewhere(v)
  <2>1. x \in Activity
    BY DEF IInv, Typed, Activity
  <2>2. /\ activity' \in [Visits -> Activity]
        /\ \A w \in Visits : activity'[w] = IF w = v THEN x ELSE activity[w]
    BY <1>4, <2>1 DEF IInv, Typed
  <2>3. BegunIsThere'
    <3>1. x.state = "OPEN"
      BY DEF IInv, Typed, Activity
    <3>. QED
      BY <1>1, <2>2, <3>1 DEF IInv, BegunIsThere, StatusOf
  <2>4. \A w \in Visits \ {v} : Working(w)' = Working(w)
    BY <2>2 DEF Working
  <2>5. \A w \in Visits \ {v} : Working(w) /\ apt[v].technicianId # None
                                  => apt[w].technicianId # apt[v].technicianId
    BY <1>4 DEF OpenElsewhere, Working
  <2>6. OneActivityAtATime'
    BY <1>1, <2>4, <2>5 DEF IInv, OneActivityAtATime
  <2>7. PausedIsOpen'
    <3>1. x.state = "OPEN"
      BY DEF IInv, Typed, Activity
    <3>. QED
      BY <2>2, <3>1 DEF IInv, PausedIsOpen
  <2>. QED
    BY <1>1, <1>2, <2>2, <2>3, <2>6, <2>7, ActivityOnly
<1>. QED
  BY <1>3, <1>4 DEF StartActivityInsert

-----------------------------------------------------------------------------

\* Steps that write the job card.
LEMMA CardOnly ==
  ASSUME IInv, UNCHANGED <<plan, rewrites, apt, visit, intake, activity, completion, contract>>,
         NEW v \in Visits, NEW s \in CardStatus, card' = [card EXCEPT ![v] = s],
         s = "READY_FOR_QC" => StatusOf(v) = "COMPLETED",
         req' \in Memory, Remembers'
  PROVE  IInv' /\ Moves
<1>1. StaysTyped
  BY DEF IInv, Typed, StaysTyped
<1>2. QcMeansVisitOver'
  BY DEF IInv, Typed, QcMeansVisitOver, StatusOf
<1>3. BegunIsThere' /\ PausedIsOpen' /\ OneActivityAtATime'
  BY DEF IInv, BegunIsThere, PausedIsOpen, OneActivityAtATime, Working, StatusOf
<1>. QED
  BY <1>1, <1>2, <1>3, Elsewhere

LEMMA CreateCardOK ==
  ASSUME IInv, NEW v \in Visits, CreateJobCard(v) \/ CreateFromActivity(v)
  PROVE  IInv' /\ Moves
<1>1. PICK s \in {"OPEN", "COMPLETED"} : CreateCard(v, s)
  BY DEF CreateJobCard, CreateFromActivity
<1>2. req' \in Memory /\ Remembers'
  BY <1>1, Memories DEF CreateCard, Then, Remembers, Ops
<1>. QED
  BY <1>1, <1>2, CardOnly DEF CreateCard, CardStatus

LEMMA AssignSectionOK ==
  ASSUME IInv, NEW v \in Visits, NEW s \in {"ON_SITE_REPAIR", "WORKSHOP"}, AssignSection(v, s)
  PROVE  IInv' /\ Moves
<1>1. req' \in Memory /\ Remembers'
  BY Memories DEF AssignSection, Ready, Remembers, Idle
<1>. QED
  BY <1>1, CardOnly DEF AssignSection, CardStatus

LEMMA CompleteOnSiteRepairSaveOK ==
  ASSUME IInv, NEW v \in Visits, CompleteOnSiteRepairSave(v)
  PROVE  IInv' /\ Moves
<1>1. StatusOf(v) = "COMPLETED"
  BY DEF CompleteOnSiteRepairSave, Pending, IInv, Remembers
<1>2. req' \in Memory /\ Remembers'
  BY Memories DEF CompleteOnSiteRepairSave, Done, Remembers, Idle
<1>. QED
  BY <1>1, <1>2, CardOnly DEF CompleteOnSiteRepairSave, CardStatus

-----------------------------------------------------------------------------

LEMMA InitIInv == Init => IInv
<1>. SUFFICES ASSUME Init PROVE IInv
  OBVIOUS
<1>1. apt \in [Visits -> Appointment]
  BY DEF Init
<1>2. activity \in [Visits -> Activity]
  BY DEF Init, Activity
<1>3. req \in Memory
  BY Memories DEF Init
<1>4. Typed
  BY <1>1, <1>2, <1>3, BoundAssumption DEF Init, Typed, Diagnosis, CardStatus
<1>5. Remembers
  BY DEF Init, Idle, Remembers
<1>6. BegunIsThere /\ PausedIsOpen /\ OneActivityAtATime /\ QcMeansVisitOver
  BY DEF Init, BegunIsThere, PausedIsOpen, OneActivityAtATime, QcMeansVisitOver, Working
<1>. QED
  BY <1>4, <1>5, <1>6 DEF IInv

LEMMA StutterOK == ASSUME IInv, UNCHANGED vars PROVE IInv' /\ Moves
<1>1. StaysTyped /\ UNCHANGED <<activity, card>> /\ req' = req
  BY DEF vars, IInv, Typed, StaysTyped
<1>2. req' \in Memory /\ Remembers'
  BY <1>1 DEF vars, IInv, Typed, Remembers, StatusOf, StaysTyped
<1>. QED
  BY <1>1, <1>2, Papers

LEMMA NextOK == ASSUME IInv, [Next]_vars PROVE IInv' /\ Moves
<1>1. ASSUME NEW v \in Visits, AppointmentStep(v) PROVE IInv' /\ Moves
  BY <1>1, SimpleTransitions, EditsOK DEF AppointmentStep
<1>2. ASSUME NEW v \in Visits, ActivityStep(v) PROVE IInv' /\ Moves
  BY <1>2, StartActivityOK, StartActivityInsertOK, TimerOK, OverrideOK DEF ActivityStep
<1>3. ASSUME NEW v \in Visits, RepairStep(v) PROVE IInv' /\ Moves
  BY <1>3, StartVisitOK, StartVisitSaveOK, DiagnosisOK, CreateCardOK, AssignSectionOK,
     CompleteFromJobCardCreationOK, CompleteOnSiteRepairOK, CompleteOnSiteRepairSaveOK
     DEF RepairStep
<1>4. ASSUME NEW v \in Visits, ContractStep(v) PROVE IInv' /\ Moves
  BY <1>4, CompleteAmcVisitOK, CompleteAmcVisitSaveOK, CancelContractOK, CancelContractVisitsOK
     DEF ContractStep
<1>. QED
  BY <1>1, <1>2, <1>3, <1>4, DieOK, StutterOK DEF Next

LEMMA InvariantIInv == Spec => []IInv
<1>1. IInv /\ [Next]_vars => IInv'
  BY NextOK
<1>. QED
  BY InitIInv, <1>1, PTL DEF Spec

\* Every variable keeps its type.
THEOREM TypeCorrect == Spec => []TypeOK
<1>1. IInv => TypeOK
  BY DEF IInv, Typed, TypeOK, Memory
<1>. QED
  BY <1>1, InvariantIInv, PTL

\* No technician runs the work of two appointments he started, as long as no edit has
\* written their status.
THEOREM OneAtATime == Spec => []OneActivityAtATime
<1>1. IInv => OneActivityAtATime
  BY DEF IInv
<1>. QED
  BY <1>1, InvariantIInv, PTL

\* A job that came to QC from the customer's door has a visit that is over, as long as no
\* edit has written its status.
THEOREM QcAfterVisit == Spec => []QcMeansVisitOver
<1>1. IInv => QcMeansVisitOver
  BY DEF IInv
<1>. QED
  BY <1>1, InvariantIInv, PTL

\* No work is both finished and paused, wherever an override died.
THEOREM FinishedIsResumed == Spec => []NeverFinishedAndPaused
<1>1. IInv => NeverFinishedAndPaused
  BY DEF IInv, PausedIsOpen, NeverFinishedAndPaused
<1>. QED
  BY <1>1, InvariantIInv, PTL

\* None of the handlers that complete an appointment, the edit that writes its status
\* excepted, completes an AMC visit without its record.
THEOREM AmcRecorded == Spec => AmcVisitsAreRecorded
<1>1. IInv /\ [Next]_vars =>
        [\A v \in Visits : Completes(v) /\ rewrites'[v] = rewrites[v]
                             => apt[v].type # "AMC" \/ v \in completion]_vars
  BY NextOK DEF Moves, Allowed, Completes, StatusOf
<1>. QED
  BY <1>1, InvariantIInv, PTL DEF Spec, AmcVisitsAreRecorded
=============================================================================
