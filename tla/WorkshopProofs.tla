---------------------------- MODULE WorkshopProofs ----------------------------
(***************************************************************************)
(* Proofs about Workshop, for any technicians and any length of time.      *)
(*                                                                         *)
(* None of the invariants is inductive alone.  That nobody is technician   *)
(* and helper at once needs to know who the request under way is about to  *)
(* install (Promised); that parts stay with their technician needs to know *)
(* that a handover under way found none in custody; and both need that a   *)
(* job only its section has seen has no crew and no parts (Untouched).     *)
(* The SLA report adds pauses up; that they take turns bounds the sum, by  *)
(* induction over the rows (as a least counterexample).                    *)
(***************************************************************************)
EXTENDS Workshop, WellFoundedInduction, TLAPS

Steps == {<<"idle">>, <<"setSparePending">>, <<"autoOpen">>, <<"resumeFromSparePending">>,
          <<"autoClose">>, <<"cancelReservations">>}

Typed ==
  /\ now \in Time
  /\ card \in JobCard
  /\ helpers \subseteq Technicians
  /\ custody \subseteq Technicians
  /\ req \in Steps \/ \E t \in Technicians : req = <<"reassign", t>>

\* Timing a job's pauses one after another: none begins while another is open, whether the
\* technician or the system opened it.  The SLA report adds them up on that understanding.
PausesInTurn ==
  \A i, j \in DOMAIN pauses :
    i < j => ~IsOpen(pauses[i]) /\ pauses[i].resumedAt <= pauses[j].pausedAt

\* The rows of the task timer, on the way from one pause to the next.
Timed ==
  /\ pauses \in Seq(TaskPause)
  /\ \A i \in DOMAIN pauses :
       /\ pauses[i].pausedAt <= now /\ pauses[i].resumedAt <= now
       /\ IsOpen(pauses[i]) \/ pauses[i].resumedAt >= pauses[i].pausedAt
  /\ PausesInTurn

\* What the request under way is about to do still fits the card.
Promised ==
  /\ \A t \in Technicians : req = <<"reassign", t>> =>
       t \notin helpers /\ custody = {} /\ card.technician # None
  /\ req \in {<<"setSparePending">>, <<"resumeFromSparePending">>} => card.status # "SECTION_ASSIGNED"

Untouched ==
  card.status = "SECTION_ASSIGNED" => card.technician = None /\ helpers = {} /\ custody = {}

IInv == Typed /\ Timed /\ Promised /\ Untouched /\ NobodyTwice /\ CustodyIsAssignee

-----------------------------------------------------------------------------

LEMMA ReqsDiffer ==
  \A t \in Technicians : /\ <<"reassign", t>> \notin Steps
                         /\ \A u \in Technicians : <<"reassign", t>> = <<"reassign", u>> => t = u
BY DEF Steps

LEMMA CardFields ==
  ASSUME Typed
  PROVE  /\ card.status \in CardStatus /\ card.section \in {"WORKSHOP", "ON_SITE"}
         /\ card.technician \in Technicians \union {None} /\ card.qcApprovedAt \in Time
BY DEF Typed, JobCard

\* The card with another status or technician.
LEMMA CardWith ==
  ASSUME Typed, NEW status \in CardStatus, NEW t \in Technicians \union {None}
  PROVE  /\ [card EXCEPT !.status = status] \in JobCard
         /\ [card EXCEPT !.status = status].status = status
         /\ [card EXCEPT !.status = status].technician = card.technician
         /\ [card EXCEPT !.technician = t] \in JobCard
         /\ [card EXCEPT !.technician = t].technician = t
         /\ [card EXCEPT !.technician = t].status = card.status
         /\ [card EXCEPT !.status = status, !.technician = t] \in JobCard
         /\ [card EXCEPT !.status = status, !.technician = t].technician = t
         /\ [card EXCEPT !.status = status, !.technician = t].status = status
BY DEF Typed, JobCard

LEMMA TimerStill == ASSUME Timed, now' = now, pauses' = pauses PROVE Timed'
BY DEF Timed, PausesInTurn, IsOpen

LEMMA TickTimed == ASSUME IInv, Tick PROVE Timed'
<1>1. now \in Nat /\ now' = now + 1 /\ pauses' = pauses
  BY BoundsAssumption DEF IInv, Typed, Time, Tick
<1>2. \A i \in DOMAIN pauses : pauses[i] \in TaskPause
  BY DEF IInv, Timed
<1>3. \A i \in DOMAIN pauses : pauses[i].pausedAt \in Int /\ pauses[i].resumedAt \in Int
  BY <1>2, BoundsAssumption DEF TaskPause, Time
<1>. QED
  BY <1>1, <1>3 DEF IInv, Timed, PausesInTurn, IsOpen

\* A pause is opened when none is open.
LEMMA PauseOpened ==
  ASSUME IInv, OpenPauses = {}, NEW shortage \in BOOLEAN, NEW auto \in BOOLEAN,
         pauses' = Append(pauses, Opened(shortage, auto)), now' = now
  PROVE  Timed'
<1>1. PICK p : p = Opened(shortage, auto)
  OBVIOUS
<1>2. now \in Time /\ now \in Nat /\ -1 \in Int
  BY BoundsAssumption DEF IInv, Typed, Time
<1>3. p \in TaskPause /\ p.pausedAt = now /\ p.resumedAt = -1
  BY <1>1, <1>2 DEF Opened, TaskPause
<1>4. /\ pauses' \in Seq(TaskPause) /\ Len(pauses') = Len(pauses) + 1
      /\ pauses'[Len(pauses) + 1] = p
      /\ \A i \in DOMAIN pauses : i \in DOMAIN pauses' /\ i <= Len(pauses) /\ pauses'[i] = pauses[i]
      /\ \A i \in DOMAIN pauses' : i \in DOMAIN pauses \/ i = Len(pauses) + 1
  BY <1>1, <1>3 DEF IInv, Timed
<1>5. \A i \in DOMAIN pauses : pauses[i] \in TaskPause /\ ~IsOpen(pauses[i])
  BY DEF IInv, Timed, OpenPauses
<1>6. ASSUME NEW i \in DOMAIN pauses'
      PROVE  /\ pauses'[i].pausedAt <= now /\ pauses'[i].resumedAt <= now
             /\ IsOpen(pauses'[i]) \/ pauses'[i].resumedAt >= pauses'[i].pausedAt
  <2>1. CASE i \in DOMAIN pauses
    BY <1>4, <2>1 DEF IInv, Timed
  <2>2. CASE i = Len(pauses) + 1
    BY <1>2, <1>3, <1>4, <2>2 DEF IsOpen
  <2>. QED
    BY <1>4, <2>1, <2>2
<1>7. ASSUME NEW i \in DOMAIN pauses', NEW j \in DOMAIN pauses', i < j
      PROVE  ~IsOpen(pauses'[i]) /\ pauses'[i].resumedAt <= pauses'[j].pausedAt
  <2>1. i \in DOMAIN pauses /\ pauses'[i] = pauses[i]
    BY <1>4, <1>7 DEF IInv, Timed
  <2>2. CASE j \in DOMAIN pauses
    BY <1>4, <1>7, <2>1, <2>2 DEF IInv, Timed, PausesInTurn
  <2>3. CASE j = Len(pauses) + 1
    BY <1>3, <1>4, <1>5, <2>1, <2>3 DEF IInv, Timed
  <2>. QED
    BY <1>4, <2>2, <2>3
<1>8. PausesInTurn'
  BY <1>7 DEF PausesInTurn, IsOpen
<1>. QED
  BY <1>4, <1>6, <1>8 DEF Timed, IsOpen

\* An open pause, which must be the last one, is closed.
LEMMA PauseClosed ==
  ASSUME IInv, NEW i \in OpenPauses, pauses' = [pauses EXCEPT ![i] = Closed(@)], now' = now
  PROVE  Timed'
<1>1. /\ now \in Time /\ now \in Nat
      /\ pauses \in Seq(TaskPause) /\ i \in DOMAIN pauses /\ pauses[i] \in TaskPause
      /\ IsOpen(pauses[i])
  BY BoundsAssumption DEF IInv, Typed, Time, Timed, OpenPauses
<1>2. PICK p : p = Closed(pauses[i])
  OBVIOUS
<1>3. p \in TaskPause /\ p.resumedAt = now /\ p.pausedAt = pauses[i].pausedAt /\ p.pausedAt <= now
  BY <1>1, <1>2 DEF Closed, TaskPause, IInv, Timed
<1>4. /\ pauses' \in Seq(TaskPause) /\ DOMAIN pauses' = DOMAIN pauses
      /\ pauses'[i] = p /\ \A j \in DOMAIN pauses \ {i} : pauses'[j] = pauses[j]
  BY <1>1, <1>2, <1>3
<1>5. \A j \in DOMAIN pauses : j <= i /\ pauses[j].pausedAt \in Int
  <2>1. ASSUME NEW j \in DOMAIN pauses, i < j PROVE FALSE
    BY <1>1, <2>1 DEF IInv, Timed, PausesInTurn
  <2>2. \A j \in DOMAIN pauses : pauses[j] \in TaskPause /\ j \in Int
    BY <1>1
  <2>. QED
    BY <1>1, <2>1, <2>2, BoundsAssumption DEF TaskPause, Time
<1>6. ASSUME NEW j \in DOMAIN pauses'
      PROVE  /\ pauses'[j].pausedAt <= now /\ pauses'[j].resumedAt <= now
             /\ IsOpen(pauses'[j]) \/ pauses'[j].resumedAt >= pauses'[j].pausedAt
  <2>1. CASE j = i
    BY <1>1, <1>3, <1>4, <2>1, BoundsAssumption DEF TaskPause, Time
  <2>2. CASE j # i
    BY <1>4, <2>2 DEF IInv, Timed
  <2>. QED
    BY <2>1, <2>2
<1>7. ASSUME NEW j \in DOMAIN pauses', NEW k \in DOMAIN pauses', j < k
      PROVE  ~IsOpen(pauses'[j]) /\ pauses'[j].resumedAt <= pauses'[k].pausedAt
  <2>1. j # i /\ pauses'[j] = pauses[j] /\ pauses'[k].pausedAt = pauses[k].pausedAt
    BY <1>3, <1>4, <1>5, <1>7
  <2>. QED
    BY <1>4, <1>7, <2>1 DEF IInv, Timed, PausesInTurn
<1>8. PausesInTurn'
  BY <1>7 DEF PausesInTurn, IsOpen
<1>. QED
  BY <1>4, <1>6, <1>8 DEF Timed, IsOpen

\* What the crew and the parts need of a step.
People == Typed /\ Promised /\ Untouched /\ NobodyTwice /\ CustodyIsAssignee

LEMMA CrewPeople == ASSUME IInv, Crew PROVE People'
<1>. USE DEF IInv, Promised, Untouched, NobodyTwice, CustodyIsAssignee, Ready, Done
<1>0. PICK t \in Technicians :
        \/ AssignWorkshopTechnician(t)
        \/ ReassignWorkshopTechnician(t) \/ ReassignSave(t)
        \/ AddCrewHelper(t) \/ RemoveCrewHelper(t) \/ ReleaseParts(t)
  BY DEF Crew
<1>1. t # None /\ "WORKSHOP_ASSIGNED" \in CardStatus /\ 0 \in Time
  BY NoneAssumption, BoundsAssumption DEF CardStatus, Pausable, Assigned, Time
<1>2. CASE AssignWorkshopTechnician(t)
  <2>1. card' \in JobCard /\ card'.status = "WORKSHOP_ASSIGNED" /\ card'.technician = t
    BY <1>1, <1>2, CardWith DEF AssignWorkshopTechnician
  <2>. QED
    BY <1>2, <2>1 DEF AssignWorkshopTechnician, People, Typed
<1>3. CASE ReassignWorkshopTechnician(t)
  <2>1. Typed' /\ card' = card /\ card.status # "SECTION_ASSIGNED"
    BY <1>3, <1>1 DEF ReassignWorkshopTechnician, Typed, Assigned, Steps
  <2>2. custody = {}
    BY <1>3 DEF ReassignWorkshopTechnician, HoldsParts
  <2>3. Promised'
    BY <1>1, <1>3, <2>2, ReqsDiffer DEF ReassignWorkshopTechnician, Steps
  <2>. QED
    BY <1>3, <2>1, <2>2, <2>3 DEF ReassignWorkshopTechnician, People
<1>4. CASE ReassignSave(t)
  <2>1. card' \in JobCard /\ card'.status = card.status /\ card'.technician = t
    BY <1>1, <1>4, CardWith DEF ReassignSave
  <2>2. t \notin helpers /\ custody = {} /\ card.technician # None
    BY <1>4 DEF ReassignSave
  <2>. QED
    BY <1>4, <2>1, <2>2 DEF ReassignSave, People, Typed, Steps
<1>5. CASE AddCrewHelper(t)
  BY <1>5 DEF AddCrewHelper, MayHelp, Assigned, People, Typed
<1>6. CASE RemoveCrewHelper(t)
  BY <1>6 DEF RemoveCrewHelper, People, Typed
<1>7. CASE ReleaseParts(t)
  BY <1>7 DEF ReleaseParts, People, Typed
<1>. QED
  BY <1>0, <1>2, <1>3, <1>4, <1>5, <1>6, <1>7

LEMMA WaitingPeople == ASSUME IInv, Waiting PROVE People'
<1>. USE DEF IInv, Promised, Untouched, NobodyTwice, CustodyIsAssignee, Ready, Done
<1>0. /\ {"SPARE_PENDING", "IN_PROGRESS"} \subseteq CardStatus
      /\ card.technician \in Technicians \union {None} /\ 0 \in Time
  BY CardFields, BoundsAssumption DEF CardStatus, Pausable, Assigned, Time
<1>1. ASSUME NEW b \in BOOLEAN, PauseTask(b) PROVE People'
  BY <1>1 DEF PauseTask, People, Typed
<1>2. ASSUME NEW b \in BOOLEAN, RequestSpare(b) PROVE People'
  <2>1. Typed'
    BY <1>0, <1>2 DEF RequestSpare, Typed, Steps
  <2>2. card' = card /\ helpers' = helpers /\ custody' \subseteq {card.technician}
        /\ card.status # "SECTION_ASSIGNED" /\ req' \in Steps
    BY <1>2 DEF RequestSpare, Steps
  <2>. QED
    BY <2>1, <2>2, ReqsDiffer DEF People
<1>3. CASE ResumeTask
  BY <1>3 DEF ResumeTask, People, Typed
<1>4. CASE SetSparePending \/ ResumeFromSparePending
  <2>1. card' \in JobCard /\ card'.status # "SECTION_ASSIGNED" /\ card'.technician = card.technician
    <3>1. CASE SetSparePending
      BY <1>0, <3>1, CardWith DEF SetSparePending
    <3>2. CASE ResumeFromSparePending
      BY <1>0, <3>2, CardWith DEF ResumeFromSparePending
    <3>. QED
      BY <1>4, <3>1, <3>2
  <2>2. req' \in Steps /\ UNCHANGED <<now, helpers, custody>>
    BY <1>4 DEF SetSparePending, ResumeFromSparePending, Steps
  <2>. QED
    BY <2>1, <2>2, ReqsDiffer DEF People, Typed
<1>5. CASE AutoOpenMaterialShortagePause \/ AutoCloseMaterialShortagePause
  <2>1. req' = <<"idle">> /\ UNCHANGED <<now, card, helpers, custody>>
    BY <1>5 DEF AutoOpenMaterialShortagePause, AutoCloseMaterialShortagePause
  <2>. QED
    BY <2>1 DEF People, Typed, Steps
<1>. QED
  BY <1>1, <1>2, <1>3, <1>4, <1>5 DEF Waiting

LEMMA ProgressPeople == ASSUME IInv, Progress PROVE People'
<1>. USE DEF IInv, Promised, Untouched, NobodyTwice, CustodyIsAssignee, Ready, Done
<1>0. /\ {"IN_PROGRESS", "READY_FOR_QC", "QC_PASSED", "CANCELLED"} \subseteq CardStatus
      /\ card.technician \in Technicians \union {None} /\ now \in Time
  BY CardFields DEF CardStatus, Pausable, Assigned, Typed
<1>1. CASE StartWip \/ CompleteWorkshop \/ CompleteOnSiteRepair \/ QcReject
  <2>1. PICK status \in CardStatus : status # "SECTION_ASSIGNED" /\ card' = [card EXCEPT !.status = status]
    BY <1>0, <1>1 DEF StartWip, CompleteWorkshop, CompleteOnSiteRepair, QcReject, Moves
  <2>2. card' \in JobCard /\ card'.status # "SECTION_ASSIGNED" /\ card'.technician = card.technician
    BY <1>0, <2>1, CardWith
  <2>3. UNCHANGED <<now, helpers, custody, req>> /\ req = <<"idle">>
    BY <1>1 DEF StartWip, CompleteWorkshop, CompleteOnSiteRepair, QcReject, Moves
  <2>. QED
    BY <2>2, <2>3 DEF People, Typed
<1>2. CASE QcApprove
  <2>1. card' \in JobCard /\ card'.status = "QC_PASSED" /\ card'.technician = card.technician
    <3>1. card' = [card EXCEPT !.status = "QC_PASSED", !.qcApprovedAt = now]
      BY <1>2 DEF QcApprove
    <3>. QED
      BY <1>0, <3>1 DEF Typed, JobCard
  <2>. QED
    BY <1>2, <2>1 DEF QcApprove, People, Typed
<1>3. CASE Cancel
  <2>1. card' \in JobCard /\ card'.status = "CANCELLED" /\ card'.technician = card.technician
    BY <1>0, <1>3, CardWith DEF Cancel
  <2>. QED
    BY <1>3, <2>1 DEF Cancel, People, Typed, Steps
<1>4. CASE CancelReservationsForJobCard
  BY <1>4 DEF CancelReservationsForJobCard, People, Typed, Steps
<1>. QED
  BY <1>1, <1>2, <1>3, <1>4 DEF Progress

LEMMA RestPeople == ASSUME IInv, Die \/ Tick PROVE People'
<1>1. now' \in Time
  BY BoundsAssumption DEF IInv, Typed, Time, Die, Tick
<1>2. UNCHANGED <<card, helpers, custody>> /\ req' \in {req, <<"idle">>}
  BY DEF Die, Tick, Done
<1>. QED
  BY <1>1, <1>2 DEF IInv, Typed, Promised, Untouched, NobodyTwice, CustodyIsAssignee, People, Steps

LEMMA TimerNext == ASSUME IInv, Next PROVE Timed'
<1>1. CASE Crew \/ Progress \/ Die
  <2>1. now' = now /\ pauses' = pauses
    BY <1>1 DEF Crew, AssignWorkshopTechnician, ReassignWorkshopTechnician, ReassignSave, AddCrewHelper,
       RemoveCrewHelper, ReleaseParts, Progress, StartWip, CompleteWorkshop, CompleteOnSiteRepair,
       QcReject, Moves, QcApprove, Cancel, CancelReservationsForJobCard, Die
  <2>. QED
    BY <2>1, TimerStill DEF IInv
<1>2. CASE Waiting
  <2>1. ASSUME NEW b \in BOOLEAN, PauseTask(b) PROVE Timed'
    BY <2>1, PauseOpened DEF PauseTask
  <2>2. ASSUME NEW b \in BOOLEAN, RequestSpare(b) PROVE Timed'
    BY <2>2, TimerStill DEF RequestSpare, IInv
  <2>3. CASE ResumeTask
    BY <2>3, PauseClosed DEF ResumeTask
  <2>4. CASE SetSparePending \/ ResumeFromSparePending
    BY <2>4, TimerStill DEF SetSparePending, ResumeFromSparePending, IInv
  <2>5. CASE AutoOpenMaterialShortagePause
    <3>1. CASE MayAutoOpen
      BY <2>5, <3>1, PauseOpened DEF AutoOpenMaterialShortagePause, MayAutoOpen
    <3>2. CASE ~MayAutoOpen
      BY <2>5, <3>2, TimerStill DEF AutoOpenMaterialShortagePause, IInv
    <3>. QED
      BY <3>1, <3>2
  <2>6. CASE AutoCloseMaterialShortagePause
    BY <2>6, PauseClosed, TimerStill DEF AutoCloseMaterialShortagePause, AutoOpened, IInv
  <2>. QED
    BY <1>2, <2>1, <2>2, <2>3, <2>4, <2>5, <2>6 DEF Waiting
<1>. QED
  BY <1>1, <1>2, TickTimed DEF Next

LEMMA InitHolds == Init => IInv
<1>. SUFFICES ASSUME Init PROVE IInv
  OBVIOUS
<1>1. 0 \in Time
  BY BoundsAssumption DEF Time
<1>2. card.status = "SECTION_ASSIGNED" /\ card.technician = None /\ card \in JobCard
  BY <1>1 DEF Init, JobCard, CardStatus, Pausable
<1>3. Typed
  BY <1>1, <1>2 DEF Init, Typed, Steps
<1>4. Timed
  BY DEF Init, Timed, PausesInTurn
<1>. QED
  BY <1>2, <1>3, <1>4 DEF Init, IInv, Promised, Untouched, NobodyTwice, CustodyIsAssignee

LEMMA NextHolds == IInv /\ [Next]_vars => IInv'
<1>1. ASSUME IInv, Next PROVE IInv'
  BY <1>1, TimerNext, CrewPeople, WaitingPeople, ProgressPeople, RestPeople
     DEF Next, People, IInv
<1>2. ASSUME IInv, UNCHANGED vars PROVE IInv'
  BY <1>2 DEF vars, IInv, Typed, Timed, PausesInTurn, IsOpen, Promised, Untouched, NobodyTwice,
     CustodyIsAssignee
<1>. QED
  BY <1>1, <1>2

LEMMA Always == Spec => []IInv
BY InitHolds, NextHolds, PTL DEF Spec

\* The card, the crew, the timer and the request under way are always well formed, and no
\* pause ends before it began.
THEOREM TypeCorrect == Spec => []TypeOK
<1>1. IInv => TypeOK
  BY DEF IInv, Typed, Timed, TypeOK, Steps
<1>. QED
  BY <1>1, Always, PTL

\* The pauses of a job come one after the other, whoever opened and closed them.
THEOREM PausesTakeTurns == Spec => []PausesInTurn
<1>1. IInv => PausesInTurn
  BY DEF IInv, Timed
<1>. QED
  BY <1>1, Always, PTL

-----------------------------------------------------------------------------
(* The sum of the SLA report.                                              *)

\* A set of natural numbers has a least member: what induction comes down to.
LEMMA LeastNat ==
  ASSUME NEW Bad \in SUBSET Nat, Bad # {}
  PROVE  \E n \in Bad : \A m \in Nat : m < n => m \notin Bad
<1>1. PICK n \in Bad : \A m \in Bad : <<m, n>> \notin OpToRel(<, Nat)
  BY NatLessThanWellFounded, WFMin
<1>. QED
  BY <1>1 DEF OpToRel

\* What MaterialShortageExcluded unfolds to, for the first k pauses.
AddsUp(k, g) == g = [n \in 0..k |-> IF n = 0 THEN 0 ELSE g[n - 1] + Waited(pauses[n])]

LEMMA ExcludedUnfolds ==
  MaterialShortageExcluded = (CHOOSE g : AddsUp(Len(pauses), g))[Len(pauses)]
BY DEF MaterialShortageExcluded, AddsUp

\* The recursion has a solution.
LEMMA AddsUpExists == \A k \in Nat : \E g : AddsUp(k, g)
<1>. DEFINE Bad == {k \in Nat : ~\E g : AddsUp(k, g)}
<1>. SUFFICES ASSUME Bad # {} PROVE FALSE
  OBVIOUS
<1>1. PICK k \in Bad : \A m \in Nat : m < k => m \notin Bad
  <2>1. PICK B \in SUBSET Nat : B = Bad
    OBVIOUS
  <2>. HIDE DEF Bad
  <2>. QED
    BY <2>1, LeastNat
<1>2. CASE k = 0
  <2>1. AddsUp(0, [n \in 0..0 |-> 0])
    BY DEF AddsUp
  <2>. QED
    BY <1>1, <1>2, <2>1
<1>3. CASE k # 0
  <2>1. PICK g : AddsUp(k - 1, g)
    BY <1>1, <1>3
  <2>2. AddsUp(k, [n \in 0..k |-> IF n = k THEN g[k - 1] + Waited(pauses[k]) ELSE g[n]])
    BY <1>1, <1>3, <2>1 DEF AddsUp
  <2>. QED
    BY <1>1, <2>2
<1>. QED
  BY <1>2, <1>3

\* The later of 0 and another number, and the earlier of two.
LEMMA MaxMin ==
  ASSUME NEW a \in Int, NEW b \in Int
  PROVE  Max({0, a}) = (IF a > 0 THEN a ELSE 0) /\ Min({a, b}) = (IF a <= b THEN a ELSE b)
BY DEF Max, Min

\* A pause counts for nothing, or from its start up to an end no later than its own
\* and the approval.
LEMMA WaitedFacts ==
  ASSUME NEW p \in TaskPause, card.qcApprovedAt \in Nat
  PROVE  \/ Waited(p) = 0
         \/ \E end \in Nat : /\ Waited(p) = end - p.pausedAt
                             /\ end > p.pausedAt /\ end <= card.qcApprovedAt
                             /\ ~IsOpen(p) => end <= p.resumedAt
<1>1. p.pausedAt \in Nat /\ p.resumedAt \in Int /\ p.resumedAt >= -1
  BY BoundsAssumption DEF TaskPause, Time
<1>2. PICK end : end = IF IsOpen(p) THEN card.qcApprovedAt
                       ELSE Min({p.resumedAt, card.qcApprovedAt})
  OBVIOUS
<1>3. end \in Int /\ end <= card.qcApprovedAt /\ (~IsOpen(p) => end <= p.resumedAt)
  <2>1. CASE IsOpen(p)
    BY <1>2, <2>1
  <2>2. CASE ~IsOpen(p)
    <3>1. Min({p.resumedAt, card.qcApprovedAt})
            = IF p.resumedAt <= card.qcApprovedAt THEN p.resumedAt ELSE card.qcApprovedAt
      <4>1. PICK a, b : a = p.resumedAt /\ b = card.qcApprovedAt
        OBVIOUS
      <4>2. a \in Int /\ b \in Int
        BY <1>1, <4>1
      <4>3. Min({a, b}) = IF a <= b THEN a ELSE b
        BY <4>2, MaxMin
      <4>. QED
        BY <4>1, <4>3
    <3>. QED
      BY <1>1, <1>2, <2>2, <3>1
  <2>. QED
    BY <2>1, <2>2
<1>4. Waited(p) = IF p.shortage THEN Max({0, end - p.pausedAt}) ELSE 0
  BY <1>2 DEF Waited
<1>5. Max({0, end - p.pausedAt}) = IF end - p.pausedAt > 0 THEN end - p.pausedAt ELSE 0
  <2>1. end - p.pausedAt \in Int
    BY <1>1, <1>3
  <2>. QED
    BY <2>1, MaxMin
<1>. QED
  BY <1>1, <1>3, <1>4, <1>5

\* OperationalReportsService.getSlaBreach: the shortage it leaves out is never longer than
\* the job took, because its pauses take turns: what the first of them add up to fits
\* before the next one begins.
THEOREM ReportStaysWithinElapsed == Spec => []ExcludedWithinElapsed
<1>1. ASSUME IInv PROVE MaterialShortageExcluded <= card.qcApprovedAt
  <2>1. Len(pauses) \in Nat /\ DOMAIN pauses = 1..Len(pauses) /\ card.qcApprovedAt \in Nat
    BY <1>1, CardFields, BoundsAssumption DEF IInv, Timed, Time
  <2>2. PICK g : g = CHOOSE h : AddsUp(Len(pauses), h)
    OBVIOUS
  <2>3. /\ AddsUp(Len(pauses), g)
        /\ MaterialShortageExcluded = g[Len(pauses)]
    BY <2>1, <2>2, AddsUpExists, ExcludedUnfolds
  <2>. DEFINE Fits(n) == /\ g[n] \in Nat /\ g[n] <= card.qcApprovedAt
                         /\ \A j \in DOMAIN pauses : j > n => g[n] <= pauses[j].pausedAt
              Bad == {n \in Nat : n <= Len(pauses) /\ ~Fits(n)}
  <2>4. ASSUME NEW n \in Nat, n <= Len(pauses), ~Fits(n),
               \A m \in Nat : m < n => m \notin Bad
        PROVE  FALSE
    <3>1. \A j \in DOMAIN pauses : /\ pauses[j] \in TaskPause
                                   /\ pauses[j].pausedAt \in Nat /\ pauses[j].resumedAt \in Int
      <4>1. \A j \in DOMAIN pauses : pauses[j] \in TaskPause
        BY <1>1 DEF IInv, Timed
      <4>2. \A q \in TaskPause : q.pausedAt \in Nat /\ q.resumedAt \in Int
        BY BoundsAssumption DEF TaskPause, Time
      <4>. QED
        BY <4>1, <4>2
    <3>2. CASE n = 0
      BY <2>1, <2>3, <2>4, <3>1, <3>2 DEF AddsUp
    <3>3. CASE n # 0
      <4>1. n \in DOMAIN pauses /\ n - 1 \in Nat /\ n - 1 < n
        BY <2>1, <2>4, <3>3
      <4>2. Fits(n - 1)
        BY <2>1, <2>4, <4>1
      <4>3. g[n] = g[n - 1] + Waited(pauses[n])
        BY <2>1, <2>3, <2>4, <4>1 DEF AddsUp
      <4>4. \A j \in DOMAIN pauses : j > n =>
              ~IsOpen(pauses[n]) /\ pauses[n].resumedAt <= pauses[j].pausedAt
        BY <1>1, <4>1 DEF IInv, Timed, PausesInTurn
      <4>5. g[n - 1] <= pauses[n].pausedAt
        BY <2>1, <4>1, <4>2
      <4>6. CASE Waited(pauses[n]) = 0
        BY <2>1, <2>4, <4>1, <4>2, <4>3, <4>6
      <4>7. CASE Waited(pauses[n]) # 0
        <5>1. PICK end \in Nat : /\ Waited(pauses[n]) = end - pauses[n].pausedAt
                                 /\ end > pauses[n].pausedAt /\ end <= card.qcApprovedAt
                                 /\ ~IsOpen(pauses[n]) => end <= pauses[n].resumedAt
          BY <2>1, <3>1, <4>1, <4>7, WaitedFacts
        <5>2. g[n] \in Nat /\ g[n] <= end
          BY <3>1, <4>1, <4>2, <4>3, <4>5, <5>1
        <5>3. ASSUME NEW j \in DOMAIN pauses, j > n PROVE g[n] <= pauses[j].pausedAt
          BY <3>1, <4>1, <4>4, <5>1, <5>2, <5>3
        <5>. QED
          BY <2>1, <2>4, <5>1, <5>2, <5>3
      <4>. QED
        BY <4>6, <4>7
    <3>. QED
      BY <3>2, <3>3
  <2>5. Bad = {}
    <3>. SUFFICES ASSUME Bad # {} PROVE FALSE
      OBVIOUS
    <3>1. PICK n \in Bad : \A m \in Nat : m < n => m \notin Bad
      <4>1. PICK B \in SUBSET Nat : B = Bad
        OBVIOUS
      <4>. HIDE DEF Bad
      <4>. QED
        BY <4>1, LeastNat
    <3>. QED
      BY <2>4, <3>1
  <2>. QED
    BY <2>1, <2>3, <2>5
<1>2. IInv => ExcludedWithinElapsed
  BY <1>1 DEF ExcludedWithinElapsed
<1>. QED
  BY <1>2, Always, PTL

-----------------------------------------------------------------------------

\* JobCardsService: nobody is technician and helper of a job at once, for any crew, at any
\* point of a handover, wherever it dies.
THEOREM OneRoleEach == Spec => []NobodyTwice
<1>1. IInv => NobodyTwice
  BY DEF IInv
<1>. QED
  BY <1>1, Always, PTL

\* WorkshopService with InventoryService: a job's open reservations are in the hands of the
\* technician it is assigned to, through handovers, top-ups, rejections and crashes.
THEOREM PartsStayWithTechnician == Spec => []CustodyIsAssignee
<1>1. IInv => CustodyIsAssignee
  BY DEF IInv
<1>. QED
  BY <1>1, Always, PTL
===============================================================================
