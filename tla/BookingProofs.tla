----------------------------- MODULE BookingProofs -----------------------------
(***************************************************************************)
(* Proofs about Booking, for any technicians, clerks and appointments,     *)
(* with requests that overlap in any way: what the booking rules still     *)
(* guarantee although each request checks a day it read before it writes.  *)
(*                                                                         *)
(* A request sent from a grid that no other save has outdated since finds  *)
(* its place still clear (PickInv). The capacity of a centre may be        *)
(* exceeded, because clerks count the same free slot at once; but each of  *)
(* them counted before it wrote, so the visits that are there and those    *)
(* the clerks are about to write are never more than the capacity and one  *)
(* for each clerk but one (RushInv).                                       *)
(***************************************************************************)
EXTENDS Booking, FiniteSetTheorems, TLAPS

-------------------------------------------------------------------------------
(* Types                                                                   *)

\* TypeOK, and a form that changes an appointment holds the entity it loaded.
Typed ==
  /\ TypeOK
  /\ \A k \in Clerks : form[k] # None /\ form[k].op # "create" => form[k].read \in Row

RowColumns == {"centre", "technician", "at", "dur", "status"}

LEMMA RowDomain ==
  ASSUME NEW row \in Row
  PROVE  DOMAIN row = RowColumns
BY DEF Row, RowColumns

\* A row made of columns of two rows.
LEMMA MixedRow ==
  ASSUME NEW now \in Row, NEW want \in Row, NEW kept, NEW row,
         row = [c \in DOMAIN want |-> IF c \in kept THEN now[c] ELSE want[c]]
  PROVE  /\ row \in Row
         /\ \A c \in RowColumns : row[c] = IF c \in kept THEN now[c] ELSE want[c]
<1>1. row = [c \in RowColumns |-> IF c \in kept THEN now[c] ELSE want[c]]
  BY RowDomain
<1>2. row = [centre |-> row.centre, technician |-> row.technician, at |-> row.at,
             dur |-> row.dur, status |-> row.status]
  BY <1>1 DEF RowColumns
<1>3. \A c \in RowColumns : row[c] = IF c \in kept THEN now[c] ELSE want[c]
  BY <1>1
<1>4. /\ row.centre \in Centres
      /\ row.technician \in Technicians \union {None}
      /\ row.at \in Times
      /\ row.dur \in Durations
      /\ row.status \in {"SCHEDULED", "TECHNICIAN_ASSIGNED", "ON_SITE"}
  BY <1>3 DEF RowColumns, Row
<1>. QED
  BY <1>2, <1>3, <1>4 DEF Row

LEMMA CheckedTyped ==
  ASSUME Typed, NEW k \in Clerks, NEW op \in Ops, NEW b \in Bookings,
         NEW want \in Row, NEW picked \in BOOLEAN, op # "create" => Active(b),
         Checked(k, op, b, want, picked), rewrites' \in 0 .. MaxRewrites
  PROVE  Typed'
<1>. DEFINE f == [op |-> op, id |-> b, want |-> want, read |-> book[b], picked |-> picked]
<1>1. f \in Form
  BY DEF Typed, TypeOK, Form
<1>2. form' = [form EXCEPT ![k] = f]
  BY DEF Checked
<1>3. f.op # "create" => f.read \in Row
  BY DEF Typed, TypeOK, Active
<1>. HIDE DEF f
<1>. QED
  BY <1>1, <1>2, <1>3 DEF Typed, TypeOK, Checked

LEMMA OutdatedTyped ==
  ASSUME Typed, NEW k \in Clerks, form' = Outdated(k)
  PROVE  /\ form' \in [Clerks -> Form \union {None}]
         /\ \A l \in Clerks :
              form'[l] # None /\ form'[l].op # "create" => form'[l].read \in Row
<1>1. ASSUME NEW l \in Clerks, form[l] # None
      PROVE  LET f == [form[l] EXCEPT !.picked = FALSE]
             IN f \in Form /\ (f.op # "create" => f.read \in Row)
  BY <1>1 DEF Typed, TypeOK, Form
<1>. QED
  BY <1>1 DEF Outdated

\* What a request may be about to save.
LEMMA FormFacts ==
  ASSUME Typed, NEW k \in Clerks, form[k] # None
  PROVE  /\ form[k].op \in Ops
         /\ form[k].id \in Bookings
         /\ form[k].want \in Row
         /\ form[k].picked \in BOOLEAN
         /\ form[k].op # "create" => form[k].read \in Row
BY DEF Typed, TypeOK, Form

LEMMA CreateTyped ==
  ASSUME Typed, NEW k \in Clerks, NEW b \in Bookings, NEW c \in Centres,
         NEW t \in Technicians \union {None}, NEW at \in Starts, NEW dur \in Durations,
         Create(k, b, c, t, at, dur)
  PROVE  Typed'
<1>. DEFINE want == [centre |-> c, technician |-> t, at |-> at, dur |-> dur,
                     status |-> "SCHEDULED"]
<1>1. want \in Row
  BY DEF Row, Times
<1>2. PICK picked \in BOOLEAN : picked = (t # None /\ RunFree(t, at, dur))
  BY DEF RunFree
<1>3. Checked(k, "create", b, want, picked)
  BY <1>2 DEF Create
<1>4. rewrites' \in 0 .. MaxRewrites /\ "create" \in Ops
  BY DEF Create, Typed, TypeOK, Ops
<1>. HIDE DEF want
<1>. QED
  BY <1>1, <1>3, <1>4, CheckedTyped

\* What each kind of request that changes an appointment is about to save.
LEMMA Changes ==
  ASSUME Typed, NEW k \in Clerks, NEW b \in Bookings,
         \/ \E t \in Technicians, at \in Starts : AssignTechnician(k, b, t, at)
         \/ \E t \in Technicians : AssignOnly(k, b, t)
         \/ \E want \in Row : Update(k, b, want)
  PROVE  /\ Active(b) /\ book[b] \in Row /\ rewrites' \in 0 .. MaxRewrites
         /\ \E op \in {"assign", "assignOnly", "update"}, want \in Row, picked \in BOOLEAN :
              /\ Checked(k, op, b, want, picked)
              /\ picked => /\ op = "assign" /\ book[b].status = "SCHEDULED"
                           /\ want.technician \in Technicians
                           /\ ChipFree(want.technician, want.at)
                           /\ want.dur = book[b].dur /\ want.status = "TECHNICIAN_ASSIGNED"
<1>1. Active(b)
  BY DEF AssignTechnician, AssignOnly, Update
<1>2. book[b] \in Row /\ rewrites \in 0 .. MaxRewrites
  BY <1>1 DEF Typed, TypeOK, Active
<1>3. rewrites' \in 0 .. MaxRewrites
  <2>1. rewrites' = rewrites \/ WritesStatus
    BY DEF AssignTechnician, AssignOnly, Update
  <2>. QED
    BY <1>2, <2>1, SizeAssumption DEF WritesStatus
<1>4. ASSUME NEW t \in Technicians, NEW at \in Times
      PROVE  /\ Assigned(b, t, at) \in Row
             /\ Assigned(b, t, at).technician = t /\ Assigned(b, t, at).at = at
             /\ Assigned(b, t, at).dur = book[b].dur
             /\ Assigned(b, t, at).status = "TECHNICIAN_ASSIGNED"
  BY <1>2 DEF Assigned, Row
<1>5. ASSUME NEW t \in Technicians, NEW at \in Starts, AssignTechnician(k, b, t, at)
      PROVE  \E want \in Row, picked \in BOOLEAN :
               /\ Checked(k, "assign", b, want, picked)
               /\ picked => /\ book[b].status = "SCHEDULED"
                            /\ want.technician \in Technicians
                            /\ ChipFree(want.technician, want.at)
                            /\ want.dur = book[b].dur /\ want.status = "TECHNICIAN_ASSIGNED"
  <2>1. PICK picked \in BOOLEAN : picked = ChipFree(t, at)
    BY DEF ChipFree
  <2>2. PICK want : want = Assigned(b, t, at)
    OBVIOUS
  <2>3. Checked(k, "assign", b, want, picked) /\ book[b].status = "SCHEDULED"
    BY <1>5, <2>1, <2>2 DEF AssignTechnician
  <2>4. at \in Times
    BY DEF Times
  <2>. QED
    BY <1>4, <2>1, <2>2, <2>3, <2>4
<1>6. ASSUME NEW t \in Technicians, AssignOnly(k, b, t)
      PROVE  \E want \in Row : Checked(k, "assignOnly", b, want, FALSE)
  <2>1. book[b].at \in Times
    BY <1>2 DEF Row
  <2>. QED
    BY <1>4, <1>6, <2>1 DEF AssignOnly
<1>7. ASSUME NEW want \in Row, Update(k, b, want)
      PROVE  Checked(k, "update", b, want, FALSE)
  BY <1>7 DEF Update
<1>. QED
  BY <1>1, <1>2, <1>3, <1>5, <1>6, <1>7

LEMMA ChangeTyped ==
  ASSUME Typed, NEW k \in Clerks, NEW b \in Bookings,
         \/ \E t \in Technicians, at \in Starts : AssignTechnician(k, b, t, at)
         \/ \E t \in Technicians : AssignOnly(k, b, t)
         \/ \E want \in Row : Update(k, b, want)
  PROVE  Typed'
<1>1. PICK op \in {"assign", "assignOnly", "update"}, want \in Row, picked \in BOOLEAN :
        Checked(k, op, b, want, picked)
  BY Changes
<1>2. op \in Ops
  BY DEF Ops
<1>. QED
  BY <1>1, <1>2, Changes, CheckedTyped

LEMMA InsertTyped ==
  ASSUME Typed, NEW k \in Clerks, Insert(k)
  PROVE  Typed'
<1>1. form[k].id \in Bookings /\ form[k].want \in Row
  BY FormFacts DEF Insert
<1>2. book' \in [Bookings -> Row \union {None}]
  BY <1>1 DEF Typed, TypeOK, Insert
<1>3. unpicked' \subseteq Bookings /\ unchecked' \subseteq Bookings
  BY <1>1 DEF Typed, TypeOK, Insert
<1>. QED
  BY <1>2, <1>3, OutdatedTyped DEF Insert, Typed, TypeOK

-------------------------------------------------------------------------------
(* What a save writes                                                      *)

\* The row request f saves over cur: columns it did not change are either put
\* back or kept as they are now; None when the appointment stays away.
Saved(f, cur, row) ==
  LET now   == IF cur = None THEN f.read ELSE cur
      since == {c \in DOMAIN f.want : now[c] # f.read[c] /\ f.want[c] = f.read[c]}
  IN \/ row = None /\ cur = None /\ f.want.status = f.read.status
     \/ \E kept \in SUBSET since :
          row = [c \in DOMAIN f.want |-> IF c \in kept THEN now[c] ELSE f.want[c]]

LEMMA SaveWrites ==
  ASSUME NEW k \in Clerks, Save(k)
  PROVE  /\ form[k] # None /\ form[k].op # "create"
         /\ \E row : Saved(form[k], book[form[k].id], row) /\ WriteRow(k, row)
<1>. DEFINE f     == form[k]
            now   == IF book[f.id] = None THEN f.read ELSE book[f.id]
            since == {c \in DOMAIN f.want : now[c] # f.read[c] /\ f.want[c] = f.read[c]}
            row(kept, gone) ==
              IF gone THEN None
              ELSE [c \in DOMAIN f.want |-> IF c \in kept THEN now[c] ELSE f.want[c]]
<1>1. PICK kept \in SUBSET since, gone \in {book[f.id] = None /\ f.want.status = f.read.status, FALSE} :
        WriteRow(k, row(kept, gone))
  BY DEF Save
<1>2. Saved(f, book[f.id], row(kept, gone))
  BY <1>1 DEF Saved
<1>. QED
  BY <1>1, <1>2 DEF Save

LEMMA SavedRow ==
  ASSUME Typed, NEW k \in Clerks, form[k] # None, form[k].op # "create",
         NEW row, Saved(form[k], book[form[k].id], row)
  PROVE  row \in Row \union {None}
<1>1. form[k].want \in Row /\ form[k].read \in Row /\ form[k].id \in Bookings
  BY FormFacts
<1>2. PICK now : now = IF book[form[k].id] = None THEN form[k].read ELSE book[form[k].id]
  OBVIOUS
<1>3. now \in Row
  BY <1>1, <1>2 DEF Typed, TypeOK
<1>4. CASE row = None
  BY <1>4
<1>5. CASE row # None
  <2>1. PICK kept : row = [c \in DOMAIN form[k].want |->
                             IF c \in kept THEN now[c] ELSE form[k].want[c]]
    BY <1>2, <1>5 DEF Saved
  <2>. QED
    BY <1>1, <1>3, <2>1, MixedRow
<1>. QED
  BY <1>4, <1>5

LEMMA SaveTyped ==
  ASSUME Typed, NEW k \in Clerks, Save(k)
  PROVE  Typed'
<1>1. PICK row : Saved(form[k], book[form[k].id], row) /\ WriteRow(k, row)
  BY SaveWrites
<1>2. row \in Row \union {None} /\ form[k].id \in Bookings
  BY <1>1, SaveWrites, SavedRow, FormFacts
<1>3. book' \in [Bookings -> Row \union {None}]
  BY <1>1, <1>2 DEF Typed, TypeOK, WriteRow
<1>4. unpicked' \subseteq Bookings /\ unchecked' \subseteq Bookings
  BY <1>1, <1>2 DEF Typed, TypeOK, WriteRow
<1>. QED
  BY <1>1, <1>3, <1>4, OutdatedTyped DEF WriteRow, Typed, TypeOK

LEMMA AppearsTyped ==
  ASSUME Typed, NEW b \in Bookings, NEW row \in Row, Appears(b, row),
         rewrites' \in 0 .. MaxRewrites
  PROVE  Typed'
<1>1. book' \in [Bookings -> Row \union {None}]
  BY DEF Appears, Typed, TypeOK
<1>2. ASSUME NEW l \in Clerks, form[l] # None
      PROVE  LET f == [form[l] EXCEPT !.picked = FALSE]
             IN f \in Form /\ (f.op # "create" => f.read \in Row)
  BY <1>2 DEF Typed, TypeOK, Form
<1>3. /\ form' \in [Clerks -> Form \union {None}]
      /\ \A l \in Clerks :
           form'[l] # None /\ form'[l].op # "create" => form'[l].read \in Row
  BY <1>2 DEF Appears
<1>. QED
  BY <1>1, <1>3 DEF Appears, Typed, TypeOK

\* A visit of a contract, or an appointment that was over.
LEMMA Newcomer ==
  ASSUME Typed, NEW b \in Bookings,
         \/ \E c \in Centres, t \in BookedFor : AmcVisit(b, c, t)
         \/ \E row \in Row : Reopen(b, row)
  PROVE  rewrites' \in 0 .. MaxRewrites /\ \E row \in Row : Appears(b, row)
<1>1. rewrites' \in 0 .. MaxRewrites
  BY SizeAssumption DEF AmcVisit, Reopen, WritesStatus, Typed, TypeOK
<1>2. ASSUME NEW c \in Centres, NEW t \in BookedFor, AmcVisit(b, c, t)
      PROVE  \E row \in Row : Appears(b, row)
  <2>1. PICK dur \in Durations :
          Appears(b, [centre |-> c, technician |-> t, at |-> Midnight, dur |-> dur,
                      status |-> "SCHEDULED"])
    BY <1>2 DEF AmcVisit
  <2>2. [centre |-> c, technician |-> t, at |-> Midnight, dur |-> dur,
         status |-> "SCHEDULED"] \in Row
    BY BookedForAssumption DEF Row, Times
  <2>. QED
    BY <2>1, <2>2
<1>. QED
  BY <1>1, <1>2 DEF Reopen

LEMMA OthersTyped ==
  ASSUME Typed, NEW b \in Bookings,
         \/ MarkOnSite(b) \/ Leave(b)
         \/ \E c \in Centres, t \in BookedFor : AmcVisit(b, c, t)
         \/ \E row \in Row : Reopen(b, row)
  PROVE  Typed'
<1>1. ASSUME MarkOnSite(b) PROVE Typed'
  <2>1. book[b] \in Row
    BY <1>1 DEF MarkOnSite, Waiting, Active, Typed, TypeOK
  <2>2. [book[b] EXCEPT !.status = "ON_SITE"] \in Row
    BY <2>1 DEF Row
  <2>. QED
    BY <1>1, <2>2 DEF MarkOnSite, Typed, TypeOK
<1>2. ASSUME Leave(b) PROVE Typed'
  BY <1>2 DEF Leave, Typed, TypeOK
<1>. QED
  BY <1>1, <1>2, Newcomer, AppearsTyped

LEMMA ClerkTyped ==
  ASSUME Typed, NEW k \in Clerks, Clerk(k)
  PROVE  Typed'
BY CreateTyped, ChangeTyped, InsertTyped, SaveTyped, BookedForAssumption DEF Clerk

LEMMA StepTyped == Typed /\ [Next]_vars => Typed'
<1>. SUFFICES ASSUME Typed, [Next]_vars PROVE Typed'
  OBVIOUS
<1>1. CASE Next
  BY <1>1, ClerkTyped, OthersTyped DEF Next
<1>2. CASE UNCHANGED vars
  BY <1>2 DEF vars, Typed, TypeOK
<1>. QED
  BY <1>1, <1>2

LEMMA InitTyped == Init => Typed
BY SizeAssumption DEF Init, Typed, TypeOK

LEMMA AlwaysTyped == Spec => []Typed
BY InitTyped, StepTyped, PTL DEF Spec

(***************************************************************************)
(* Appointments, requests and the two histories keep their types: above    *)
(* all, whatever mix of columns a save writes is an appointment.           *)
(***************************************************************************)
THEOREM TypeCorrect == Spec => []TypeOK
<1>1. Typed => TypeOK
  BY DEF Typed
<1>. QED
  BY <1>1, AlwaysTyped, PTL

-------------------------------------------------------------------------------
(* Two visits placed from a current grid do not overlap                    *)

\* Nothing of the technician's day is in the way of row, placed as own.
Clear(row, own) ==
  \A d \in Bookings \ {own} :
    Active(d) /\ book[d].technician = row.technician => ~Overlap(row, book[d])

PlaceColumns == {"centre", "technician", "at", "dur"}

\* A request from a grid that is still current: its place is still clear, and
\* nobody has moved the appointment it changes.
PickHolds(f) ==
  f.picked => /\ Clear(f.want, f.id)
              /\ Active(f.id) =>
                   \A c \in PlaceColumns : f.op # "create" => book[f.id][c] = f.read[c]
              /\ f.op # "create" => f.want.dur = f.read.dur /\ f.want.status # f.read.status

\* The inductive invariant of the grid.
PickInv ==
  /\ Typed
  /\ PickedNeverClash
  /\ \A k \in Clerks : form[k] # None => PickHolds(form[k])

LEMMA RowTimes ==
  ASSUME NEW row \in Row
  PROVE  row.at \in Int /\ row.dur \in Nat \ {0}
<1>1. row.at \in Times /\ row.dur \in Durations
  BY DEF Row
<1>2. Times \subseteq Int /\ Durations \subseteq Nat \ {0}
  BY SizeAssumption DEF Times
<1>. QED
  BY <1>1, <1>2

\* A run of green chips is clear.
LEMMA GreenRunIsClear ==
  ASSUME Typed, NEW t \in Technicians, NEW at \in Starts, NEW dur \in Durations,
         RunFree(t, at, dur), NEW row \in Row,
         row.technician = t, row.at = at, row.dur = dur, NEW own
  PROVE  Clear(row, own)
<1>. SUFFICES ASSUME NEW d \in Bookings, Active(d), book[d].technician = t,
                     Overlap(row, book[d])
              PROVE  FALSE
  BY DEF Clear
<1>1. book[d] \in Row /\ d \in DayOf(t)
  BY DEF Typed, TypeOK, Active, DayOf
<1>2. book[d].at \in Int /\ book[d].dur \in Nat \ {0} /\ at \in Int /\ dur \in Nat \ {0}
  BY <1>1, RowTimes
<1>3. PICK chip : chip = IF at < book[d].at THEN book[d].at ELSE at
  OBVIOUS
<1>4. chip \in at .. at + dur - 1 /\ Covers(book[d], chip)
  BY <1>2, <1>3 DEF Overlap, Covers
<1>. QED
  BY <1>1, <1>4 DEF RunFree, ChipFree

\* So is a place whose first chip is green and in whose window nobody starts.
LEMMA GreenChipIsClear ==
  ASSUME Typed, NEW row \in Row, NEW own, row.technician \in Technicians,
         ChipFree(row.technician, row.at), TechnicianFree(row, own)
  PROVE  Clear(row, own)
<1>. SUFFICES ASSUME NEW d \in Bookings \ {own}, Active(d), book[d].technician = row.technician,
                     Overlap(row, book[d])
              PROVE  FALSE
  BY DEF Clear
<1>1. book[d] \in Row /\ d \in DayOf(row.technician)
  BY DEF Typed, TypeOK, Active, DayOf
<1>2. book[d].at \in Int /\ row.at \in Int /\ row.dur \in Nat \ {0} /\ book[d].dur \in Nat \ {0}
  BY <1>1, RowTimes
<1>3. ~Covers(book[d], row.at)
  BY <1>1 DEF ChipFree
<1>4. book[d].at \in Window(row)
  BY <1>2, <1>3 DEF Overlap, Covers, Window
<1>. QED
  BY <1>4 DEF TechnicianFree

LEMMA CheckedPicks ==
  ASSUME PickInv, NEW k \in Clerks, NEW op \in Ops,
         NEW b \in Bookings, NEW want \in Row, NEW picked \in BOOLEAN, op # "create" => Active(b),
         Checked(k, op, b, want, picked), rewrites' \in 0 .. MaxRewrites,
         picked => /\ op \in {"create", "assign"} /\ Clear(want, b)
                   /\ op = "assign" => /\ want.dur = book[b].dur
                                       /\ want.status # book[b].status
                   /\ op = "create" => ~Active(b)
  PROVE  PickInv'
<1>. DEFINE f == [op |-> op, id |-> b, want |-> want, read |-> book[b], picked |-> picked]
<1>1. Typed'
  BY CheckedTyped DEF PickInv
<1>2. form' = [form EXCEPT ![k] = f] /\ book' = book /\ unpicked' = unpicked
  BY DEF Checked
<1>3. PickHolds(f)
  BY DEF PickHolds
<1>4. PickedNeverClash'
  BY <1>2 DEF PickInv, PickedNeverClash, Clash, Active
<1>. HIDE DEF f
<1>5. ASSUME NEW l \in Clerks, form'[l] # None PROVE PickHolds(form[l])'
  <2>1. PickHolds(form'[l])
    BY <1>2, <1>3, <1>5 DEF PickInv, Typed, TypeOK
  <2>. QED
    BY <1>2, <2>1 DEF PickHolds, Clear, Active
<1>. QED
  BY <1>1, <1>4, <1>5 DEF PickInv

LEMMA CreatePicks ==
  ASSUME PickInv, NEW k \in Clerks, NEW b \in Bookings, NEW c \in Centres,
         NEW t \in Technicians \union {None}, NEW at \in Starts, NEW dur \in Durations,
         Create(k, b, c, t, at, dur)
  PROVE  PickInv'
<1>. DEFINE want == [centre |-> c, technician |-> t, at |-> at, dur |-> dur,
                     status |-> "SCHEDULED"]
<1>1. want \in Row /\ want.technician = t /\ want.at = at /\ want.dur = dur
  BY DEF Row, Times
<1>2. PICK picked \in BOOLEAN : picked = (t # None /\ RunFree(t, at, dur))
  BY DEF RunFree
<1>3. Checked(k, "create", b, want, picked)
  BY <1>2 DEF Create
<1>. HIDE DEF want
<1>4. picked => Clear(want, b)
  BY <1>1, <1>2, GreenRunIsClear DEF PickInv
<1>5. ~Active(b) /\ rewrites' \in 0 .. MaxRewrites /\ "create" \in Ops
  BY DEF Create, Unused, PickInv, Typed, TypeOK, Ops
<1>. QED
  BY <1>1, <1>3, <1>4, <1>5, CheckedPicks

LEMMA ChangePicks ==
  ASSUME PickInv, NEW k \in Clerks, NEW b \in Bookings,
         \/ \E t \in Technicians, at \in Starts : AssignTechnician(k, b, t, at)
         \/ \E t \in Technicians : AssignOnly(k, b, t)
         \/ \E want \in Row : Update(k, b, want)
  PROVE  PickInv'
<1>1. Active(b) /\ rewrites' \in 0 .. MaxRewrites
  BY Changes DEF PickInv
<1>2. PICK op \in {"assign", "assignOnly", "update"}, want \in Row, picked \in BOOLEAN :
        /\ Checked(k, op, b, want, picked)
        /\ picked => /\ op = "assign" /\ book[b].status = "SCHEDULED"
                     /\ want.technician \in Technicians
                     /\ ChipFree(want.technician, want.at)
                     /\ want.dur = book[b].dur /\ want.status = "TECHNICIAN_ASSIGNED"
  BY Changes DEF PickInv
<1>3. op \in Ops
  BY DEF Ops
<1>4. picked => TechnicianFree(want, b)
  BY <1>2, NoneAssumption DEF Checked, AsksTechnician
<1>5. picked => Clear(want, b)
  BY <1>2, <1>4, GreenChipIsClear DEF PickInv
<1>. QED
  BY <1>1, <1>2, <1>3, <1>5, CheckedPicks

\* Once something is saved, no other request is from a current grid.
LEMMA OutdatedPicks ==
  ASSUME Typed, NEW k \in Clerks, form' = Outdated(k)
  PROVE  \A l \in Clerks : form'[l] # None => PickHolds(form[l])'
<1>1. ASSUME NEW l \in Clerks, form'[l] # None PROVE form'[l].picked = FALSE
  BY <1>1 DEF Outdated, Typed, TypeOK, Form
<1>. QED
  BY <1>1 DEF PickHolds

\* The appointment b is placed as row, clear of the others or counted as unpicked.
LEMMA PlacedOK ==
  ASSUME PickInv, NEW b \in Bookings, NEW row \in Row \union {None},
         book' = [book EXCEPT ![b] = row], unpicked' \subseteq Bookings,
         unpicked \ {b} \subseteq unpicked',
         b \notin unpicked' => \/ row = None
                               \/ row = book[b] /\ b \notin unpicked
                               \/ Clear(row, b)
  PROVE  PickedNeverClash'
<1>1. book'[b] = row /\ \A d \in Bookings \ {b} : book'[d] = book[d]
  BY DEF PickInv, Typed, TypeOK
<1>2. ASSUME NEW d \in Bookings \ unpicked', d # b, b \notin unpicked',
             row # None, book[d] # None, row.technician = book[d].technician,
             row.technician # None, Overlap(row, book[d]) \/ Overlap(book[d], row)
      PROVE  FALSE
  <2>1. Overlap(row, book[d]) /\ Overlap(book[d], row)
    BY <1>2 DEF Overlap
  <2>2. CASE row = book[b] /\ b \notin unpicked
    BY <1>2, <2>1, <2>2 DEF PickInv, PickedNeverClash, Clash, Active
  <2>3. CASE Clear(row, b)
    BY <1>2, <2>1, <2>3 DEF Clear, Active
  <2>. QED
    BY <1>2, <2>2, <2>3
<1>3. ASSUME NEW c \in Bookings \ unpicked', NEW d \in Bookings \ unpicked', Clash(c, d)'
      PROVE  FALSE
  <2>1. CASE c = b
    BY <1>1, <1>2, <1>3, <2>1 DEF Clash, Active
  <2>2. CASE d = b
    BY <1>1, <1>2, <1>3, <2>2 DEF Clash, Active
  <2>3. CASE c # b /\ d # b
    <3>1. Clash(c, d) /\ c \notin unpicked /\ d \notin unpicked
      BY <1>1, <1>3, <2>3 DEF Clash, Active
    <3>. QED
      BY <3>1 DEF PickInv, PickedNeverClash
  <2>. QED
    BY <2>1, <2>2, <2>3
<1>. QED
  BY <1>3 DEF PickedNeverClash

LEMMA InsertPicks ==
  ASSUME PickInv, NEW k \in Clerks, Insert(k)
  PROVE  PickInv'
<1>. DEFINE f == form[k]
<1>1. Typed'
  BY InsertTyped DEF PickInv
<1>2. f # None /\ f.id \in Bookings /\ f.want \in Row /\ PickHolds(f)
  BY FormFacts DEF PickInv, Insert
<1>3. book' = [book EXCEPT ![f.id] = f.want]
  BY DEF Insert
<1>4. f.id \notin unpicked' => Clear(f.want, f.id)
  BY <1>2 DEF Insert, PickHolds
<1>5. unpicked \ {f.id} \subseteq unpicked' /\ unpicked' \subseteq Bookings
  BY <1>1 DEF Insert, Typed, TypeOK
<1>6. PickedNeverClash'
  BY <1>2, <1>3, <1>4, <1>5, PlacedOK
<1>7. \A l \in Clerks : form'[l] # None => PickHolds(form[l])'
  BY OutdatedPicks DEF PickInv, Insert
<1>. QED
  BY <1>1, <1>6, <1>7 DEF PickInv

\* What is saved for a request from a current grid is in the place it picked.
LEMMA SavedPlace ==
  ASSUME Typed, NEW k \in Clerks, form[k] # None, form[k].op # "create",
         form[k].picked, PickHolds(form[k]),
         NEW row, Saved(form[k], book[form[k].id], row)
  PROVE  /\ row \in Row
         /\ \A c \in PlaceColumns : row[c] = form[k].want[c]
<1>. DEFINE f == form[k]
<1>1. f.want \in Row /\ f.read \in Row /\ f.id \in Bookings
  BY FormFacts
<1>2. PICK now : now = IF book[f.id] = None THEN f.read ELSE book[f.id]
  OBVIOUS
<1>3. now \in Row
  BY <1>1, <1>2 DEF Typed, TypeOK
<1>4. \A c \in PlaceColumns : now[c] = f.read[c]
  BY <1>2 DEF PickHolds, Active
<1>5. PICK kept : /\ \A c \in kept : now[c] # f.read[c]
                  /\ row = [c \in DOMAIN f.want |-> IF c \in kept THEN now[c] ELSE f.want[c]]
  BY <1>2 DEF Saved, PickHolds
<1>6. row \in Row /\ \A c \in RowColumns : row[c] = IF c \in kept THEN now[c] ELSE f.want[c]
  <2>1. row = [c \in RowColumns |-> IF c \in kept THEN now[c] ELSE f.want[c]]
    BY <1>1, <1>5, RowDomain
  <2>2. row \in Row
    BY <1>1, <1>3, <1>5, MixedRow
  <2>. QED
    BY <2>1, <2>2
<1>7. \A c \in PlaceColumns : c \in RowColumns /\ c \notin kept
  BY <1>4, <1>5 DEF PlaceColumns, RowColumns
<1>. QED
  BY <1>6, <1>7

LEMMA SavePicks ==
  ASSUME PickInv, NEW k \in Clerks, Save(k)
  PROVE  PickInv'
<1>. DEFINE f == form[k]
<1>1. Typed'
  BY SaveTyped DEF PickInv
<1>2. f # None /\ f.op # "create"
  BY SaveWrites
<1>3. PICK row : Saved(f, book[f.id], row) /\ WriteRow(k, row)
  BY SaveWrites
<1>4. f.id \in Bookings /\ f.want \in Row /\ PickHolds(f)
  BY <1>2, FormFacts DEF PickInv
<1>5. row \in Row \union {None}
  BY <1>2, <1>3, SavedRow DEF PickInv
<1>6. book' = [book EXCEPT ![f.id] = row]
  BY <1>3 DEF WriteRow
<1>7. unpicked \ {f.id} \subseteq unpicked' /\ unpicked' \subseteq Bookings
  BY <1>1, <1>3 DEF WriteRow, Typed, TypeOK
<1>8. f.id \notin unpicked' => \/ row = None
                               \/ row = book[f.id] /\ f.id \notin unpicked
                               \/ Clear(row, f.id)
  <2>1. CASE f.picked
    <3>1. \A c \in PlaceColumns : row[c] = f.want[c]
      BY <1>2, <1>3, <1>4, <2>1, SavedPlace DEF PickInv
    <3>2. row.technician = f.want.technician /\ row.at = f.want.at /\ row.dur = f.want.dur
      BY <3>1 DEF PlaceColumns
    <3>. QED
      BY <1>4, <2>1, <3>2 DEF PickHolds, Clear, Overlap
  <2>2. CASE ~f.picked
    BY <1>3, <2>2 DEF WriteRow
  <2>. QED
    BY <2>1, <2>2
<1>9. PickedNeverClash'
  BY <1>4, <1>5, <1>6, <1>7, <1>8, PlacedOK
<1>10. \A l \in Clerks : form'[l] # None => PickHolds(form[l])'
  BY <1>3, OutdatedPicks DEF PickInv, WriteRow
<1>. QED
  BY <1>1, <1>9, <1>10 DEF PickInv

LEMMA NewcomerPicks ==
  ASSUME PickInv, NEW b \in Bookings,
         \/ \E c \in Centres, t \in BookedFor : AmcVisit(b, c, t)
         \/ \E row \in Row : Reopen(b, row)
  PROVE  PickInv'
<1>1. Typed'
  BY OthersTyped DEF PickInv
<1>2. PICK row \in Row : Appears(b, row)
  BY Newcomer DEF PickInv
<1>3. book' = [book EXCEPT ![b] = row]
  BY <1>2 DEF Appears
<1>4. unpicked' = unpicked \union {b} /\ unpicked' \subseteq Bookings
  BY <1>1, <1>2 DEF Appears, Typed, TypeOK
<1>5. PickedNeverClash'
  BY <1>3, <1>4, PlacedOK
<1>6. ASSUME NEW l \in Clerks, form'[l] # None PROVE form'[l].picked = FALSE
  BY <1>2, <1>6 DEF PickInv, Appears, Typed, TypeOK, Form
<1>7. \A l \in Clerks : form'[l] # None => PickHolds(form[l])'
  BY <1>6 DEF PickHolds
<1>. QED
  BY <1>1, <1>5, <1>7 DEF PickInv

LEMMA MarkOnSitePicks ==
  ASSUME PickInv, NEW b \in Bookings, MarkOnSite(b)
  PROVE  PickInv'
<1>1. Typed'
  BY OthersTyped DEF PickInv
<1>2. book[b] \in Row /\ Active(b)
  BY DEF PickInv, MarkOnSite, Waiting, Active, Typed, TypeOK
<1>3. PICK row : row = [book[b] EXCEPT !.status = "ON_SITE"]
  OBVIOUS
<1>4. /\ row \in Row
      /\ \A c \in PlaceColumns : row[c] = book[b][c]
  BY <1>2, <1>3 DEF Row, PlaceColumns
<1>5. book' = [book EXCEPT ![b] = row] /\ form' = form /\ unpicked' = unpicked
  BY <1>2, <1>3 DEF MarkOnSite, PickInv, Typed, TypeOK
<1>6. book'[b] = row /\ \A d \in Bookings \ {b} : book'[d] = book[d]
  BY <1>5 DEF PickInv, Typed, TypeOK
<1>7. \A d \in Bookings :
        Active(d)' => /\ Active(d)
                      /\ \A c \in PlaceColumns : book'[d][c] = book[d][c]
  BY <1>2, <1>4, <1>6 DEF Active
<1>8. \A d \in Bookings :
        Active(d)' => /\ Active(d)
                      /\ book'[d].technician = book[d].technician
                      /\ book'[d].at = book[d].at
                      /\ book'[d].dur = book[d].dur
  BY <1>7 DEF PlaceColumns
<1>9. PickedNeverClash'
  BY <1>5, <1>8 DEF PickInv, PickedNeverClash, Clash, Overlap
<1>10. ASSUME NEW l \in Clerks, form'[l] # None PROVE PickHolds(form[l])'
  <2>1. PickHolds(form[l]) /\ form'[l] = form[l] /\ form[l].id \in Bookings
    BY <1>5, <1>10, FormFacts DEF PickInv
  <2>. QED
    BY <1>7, <1>8, <2>1 DEF PickHolds, Clear, Overlap
<1>. QED
  BY <1>1, <1>9, <1>10 DEF PickInv

LEMMA LeavePicks ==
  ASSUME PickInv, NEW b \in Bookings, Leave(b)
  PROVE  PickInv'
<1>1. Typed'
  BY OthersTyped DEF PickInv
<1>2. book' = [book EXCEPT ![b] = None] /\ form' = form /\ unpicked' = unpicked \ {b}
  BY DEF Leave
<1>3. book'[b] = None /\ \A d \in Bookings \ {b} : book'[d] = book[d]
  BY <1>2 DEF PickInv, Typed, TypeOK
<1>4. PickedNeverClash'
  <2>1. unpicked' \subseteq Bookings
    BY <1>2 DEF PickInv, Typed, TypeOK
  <2>. QED
    BY <1>2, <2>1, PlacedOK
<1>5. ASSUME NEW l \in Clerks, form'[l] # None PROVE PickHolds(form[l])'
  <2>1. PickHolds(form[l]) /\ form'[l] = form[l] /\ form[l].id \in Bookings
    BY <1>2, <1>5, FormFacts DEF PickInv
  <2>. QED
    BY <1>3, <2>1 DEF PickHolds, Clear, Active
<1>. QED
  BY <1>1, <1>4, <1>5 DEF PickInv

LEMMA StepPicks == PickInv /\ [Next]_vars => PickInv'
<1>. SUFFICES ASSUME PickInv, [Next]_vars PROVE PickInv'
  OBVIOUS
<1>1. ASSUME NEW k \in Clerks, Clerk(k) PROVE PickInv'
  BY <1>1, CreatePicks, ChangePicks, InsertPicks, SavePicks, BookedForAssumption DEF Clerk
<1>2. CASE Next
  BY <1>1, <1>2, NewcomerPicks, MarkOnSitePicks, LeavePicks DEF Next
<1>3. CASE UNCHANGED vars
  <2>1. Typed'
    BY <1>3, StepTyped DEF PickInv
  <2>2. book' = book /\ form' = form /\ unpicked' = unpicked
    BY <1>3 DEF vars
  <2>. QED
    BY <2>1, <2>2 DEF PickInv, PickedNeverClash, Clash, Active, PickHolds, Clear
<1>. QED
  BY <1>2, <1>3

LEMMA InitPicks == Init => PickInv
<1>1. Init => Typed
  BY InitTyped
<1>. QED
  BY <1>1 DEF Init, PickInv, PickedNeverClash, Clash, Active

(***************************************************************************)
(* However requests overlap, two visits that were each placed from a grid  *)
(* that was current do not overlap for one technician.                     *)
(***************************************************************************)
THEOREM GridPreventsClashes == Spec => []PickedNeverClash
<1>1. PickInv => PickedNeverClash
  BY DEF PickInv
<1>. QED
  BY <1>1, InitPicks, StepPicks, PTL DEF Spec

-------------------------------------------------------------------------------
(* How far overlapping requests exceed the capacity                        *)

InRush(row, c, at) == row.centre = c /\ row.at \in at .. at + 2

Placed(c, at) == {b \in Bookings \ unchecked : Waiting(b) /\ InRush(book[b], c, at)}

\* The clerks whose request counted a slot at this time and has not written yet.
HeadingClerks(c, at) ==
  {k \in Clerks : /\ form[k] # None
                  /\ CountsSlot(form[k].op, form[k].read, form[k].want)
                  /\ InRush(form[k].want, c, at)}

\* The visits they are about to place.
Heading(c, at) == {b \in Bookings : \E k \in HeadingClerks(c, at) : b = form[k].id}

\* What a slot may be filled to when every clerk counted before any wrote.
Bound == Capacity + Cardinality(Clerks) - 1

\* The inductive invariant of the capacity: requests under way are counted with the
\* visits that are there.
RushInv ==
  /\ Typed
  /\ \A c \in Centres, at \in Times : Cardinality(Placed(c, at) \union Heading(c, at)) <= Bound

LEMMA FewClerks == Cardinality(Clerks) \in Nat \ {0} /\ Bound \in Nat
<1>1. Cardinality(Clerks) \in Nat
  BY FiniteAssumption, FS_CardinalityType
<1>2. Cardinality(Clerks) # 0
  BY FiniteAssumption, FS_EmptySet
<1>. QED
  BY <1>1, <1>2, SizeAssumption DEF Bound

\* Sets of appointments are finite, and no larger than those around them.
LEMMA Smaller ==
  ASSUME NEW S \in SUBSET Bookings, NEW T \in SUBSET S, NEW n \in Int, Cardinality(S) <= n
  PROVE  /\ IsFiniteSet(T)
         /\ Cardinality(T) \in Nat
         /\ Cardinality(T) <= n
<1>1. IsFiniteSet(S)
  BY FiniteAssumption, FS_Subset
<1>2. IsFiniteSet(T) /\ Cardinality(T) <= Cardinality(S)
  BY <1>1, FS_Subset
<1>3. Cardinality(S) \in Nat /\ Cardinality(T) \in Nat
  BY <1>1, <1>2, FS_CardinalityType
<1>. QED
  BY <1>2, <1>3

LEMMA UnionBound ==
  ASSUME NEW S, NEW T, IsFiniteSet(S), IsFiniteSet(T), NEW m \in Int, NEW n \in Int,
         Cardinality(S) <= m, Cardinality(T) <= n
  PROVE  IsFiniteSet(S \union T) /\ Cardinality(S \union T) <= m + n
<1>1. IsFiniteSet(S \intersect T)
  BY FS_Intersection
<1>2. /\ Cardinality(S) \in Nat /\ Cardinality(T) \in Nat
      /\ Cardinality(S \intersect T) \in Nat
  BY <1>1, FS_CardinalityType
<1>3. /\ IsFiniteSet(S \union T)
      /\ Cardinality(S \union T) = Cardinality(S) + Cardinality(T) - Cardinality(S \intersect T)
  BY FS_Union
<1>. QED
  BY <1>2, <1>3

\* Clerks have one request each.
LEMMA OneRequestEach ==
  ASSUME NEW S, IsFiniteSet(S), NEW ids, NEW T, T = {b \in Bookings : \E k \in S : b = ids[k]}
  PROVE  IsFiniteSet(T) /\ Cardinality(T) <= Cardinality(S)
<1>. DEFINE U == {k \in S : ids[k] \in Bookings}
            g == [k \in U |-> ids[k]]
<1>1. U \in SUBSET S
  OBVIOUS
<1>2. IsFiniteSet(U) /\ Cardinality(U) <= Cardinality(S)
  BY <1>1, FS_Subset
<1>3. g \in Surjection(U, T)
  BY DEF Surjection
<1>4. IsFiniteSet(T) /\ Cardinality(T) <= Cardinality(U)
  BY <1>2, <1>3, FS_Surjection
<1>5. Cardinality(S) \in Nat /\ Cardinality(U) \in Nat /\ Cardinality(T) \in Nat
  BY <1>2, <1>4, FS_CardinalityType
<1>. QED
  BY <1>2, <1>4, <1>5

\* A step that adds neither a visit nor a request to any slot.
LEMMA NoNewRush ==
  ASSUME RushInv, Typed',
         \A c \in Centres, at \in Times :
           Placed(c, at)' \union Heading(c, at)' \subseteq Placed(c, at) \union Heading(c, at)
  PROVE  RushInv'
<1>1. ASSUME NEW c \in Centres, NEW at \in Times
      PROVE  Cardinality(Placed(c, at)' \union Heading(c, at)') <= Bound
  <2>1. Placed(c, at) \union Heading(c, at) \subseteq Bookings
    BY DEF Placed, Heading
  <2>2. Cardinality(Placed(c, at) \union Heading(c, at)) <= Bound
    BY DEF RushInv
  <2>. QED
    BY <2>1, <2>2, FewClerks, Smaller
<1>. QED
  BY <1>1 DEF RushInv

\* The count, and at most one request of every other clerk.
LEMMA RoomForOne ==
  ASSUME Typed, NEW k \in Clerks, form[k] = None, NEW b \in Bookings, NEW want \in Row,
         HasRoom(want, b), NEW c \in Centres, NEW at \in Times, InRush(want, c, at)
  PROVE  Cardinality(Placed(c, at) \union Heading(c, at) \union {b}) <= Bound
<1>. DEFINE counted == {d \in Bookings \ {b} :
                          /\ CapacityCounts(d)
                          /\ book[d].centre = want.centre
                          /\ book[d].at \in want.at - 2 .. want.at + want.dur + 2}
            others == {d \in Bookings : \E l \in Clerks \ {k} : d = form[l].id}
<1>1. IsFiniteSet(counted) /\ Cardinality(counted) <= Capacity - 1
  <2>1. counted \subseteq Bookings
    OBVIOUS
  <2>2. IsFiniteSet(counted)
    BY <2>1, FiniteAssumption, FS_Subset
  <2>3. Cardinality(counted) \in Nat
    BY <2>2, FS_CardinalityType
  <2>4. Cardinality(counted) < Capacity
    BY DEF HasRoom
  <2>. QED
    BY <2>2, <2>3, <2>4, SizeAssumption
<1>2. IsFiniteSet(others) /\ Cardinality(others) <= Cardinality(Clerks) - 1
  <2>1. IsFiniteSet(Clerks \ {k}) /\ Cardinality(Clerks \ {k}) = Cardinality(Clerks) - 1
    BY FiniteAssumption, FS_RemoveElement
  <2>2. PICK ids : ids = [l \in Clerks \ {k} |-> form[l].id]
    OBVIOUS
  <2>3. others = {d \in Bookings : \E l \in Clerks \ {k} : d = ids[l]}
    BY <2>2
  <2>. HIDE DEF others
  <2>. QED
    BY <2>1, <2>3, OneRequestEach
<1>3. IsFiniteSet({b}) /\ Cardinality({b}) = 1
  BY ONLY FS_Singleton
<1>4. Placed(c, at) \subseteq counted \union {b}
  <2>. SUFFICES ASSUME NEW d \in Placed(c, at), d # b PROVE d \in counted
    OBVIOUS
  <2>1. d \in Bookings /\ Waiting(d) /\ book[d] \in Row
    BY DEF Placed, Waiting, Active, Typed, TypeOK
  <2>2. book[d].centre = want.centre /\ book[d].at \in at .. at + 2 /\ want.at \in at .. at + 2
    BY DEF Placed, InRush
  <2>3. book[d].at \in Int /\ want.at \in Int /\ want.dur \in Nat /\ at \in Int
    BY <2>1, RowTimes, SizeAssumption DEF Times
  <2>. QED
    BY <2>1, <2>2, <2>3 DEF CapacityCounts
<1>5. Heading(c, at) \subseteq others
  BY DEF Heading, HeadingClerks
<1>6. Cardinality(Clerks) \in Nat /\ Capacity \in Nat
  BY FewClerks, SizeAssumption
<1>7. PICK A, B, own : A = counted /\ B = others /\ own = {b}
  OBVIOUS
<1>7a. PICK m \in Int, n \in Int : m = Capacity - 1 /\ n = Cardinality(Clerks) - 1
  BY <1>6
<1>. HIDE DEF counted, others
<1>8. IsFiniteSet(A \union own) /\ Cardinality(A \union own) <= m + 1
  <2>1. IsFiniteSet(A) /\ IsFiniteSet(own) /\ Cardinality(A) <= m /\ Cardinality(own) <= 1
    BY <1>1, <1>3, <1>7, <1>7a
  <2>2. PICK one \in Int : one = 1
    OBVIOUS
  <2>3. IsFiniteSet(A \union own) /\ Cardinality(A \union own) <= m + one
    BY <2>1, <2>2, UnionBound
  <2>. QED
    BY <2>2, <2>3
<1>9. PICK C : C = A \union own
  OBVIOUS
<1>9a. PICK r \in Int : r = m + 1
  OBVIOUS
<1>10. IsFiniteSet(C \union B) /\ Cardinality(C \union B) <= r + n
  BY <1>2, <1>7, <1>7a, <1>8, <1>9, <1>9a, UnionBound
<1>11. Placed(c, at) \union Heading(c, at) \union {b} \subseteq C \union B
  BY <1>4, <1>5, <1>7, <1>9
<1>12. PICK D : D = Placed(c, at) \union Heading(c, at) \union {b}
  OBVIOUS
<1>13. IsFiniteSet(D) /\ Cardinality(D) <= Cardinality(C \union B)
  BY <1>10, <1>11, <1>12, FS_Subset
<1>14. Cardinality(D) \in Nat /\ Cardinality(C \union B) \in Nat
  BY <1>10, <1>13, FS_CardinalityType
<1>. QED
  BY <1>6, <1>7a, <1>9a, <1>10, <1>12, <1>13, <1>14 DEF Bound

LEMMA CheckedRush ==
  ASSUME RushInv, NEW k \in Clerks, NEW op \in Ops, NEW b \in Bookings,
         NEW want \in Row, NEW picked \in BOOLEAN, op # "create" => Active(b),
         Checked(k, op, b, want, picked), rewrites' \in 0 .. MaxRewrites
  PROVE  RushInv'
<1>. DEFINE f == [op |-> op, id |-> b, want |-> want, read |-> book[b], picked |-> picked]
<1>1. Typed'
  BY CheckedTyped DEF RushInv
<1>2. /\ form[k] = None /\ form' = [form EXCEPT ![k] = f]
      /\ book' = book /\ unchecked' = unchecked
      /\ CountsSlot(op, book[b], want) => HasRoom(want, b)
  BY DEF Checked
<1>3. f.op = op /\ f.id = b /\ f.want = want /\ f.read = book[b]
  OBVIOUS
<1>. HIDE DEF f
<1>4. form'[k] = f /\ \A l \in Clerks \ {k} : form'[l] = form[l]
  BY <1>2 DEF RushInv, Typed, TypeOK
<1>5. ASSUME NEW c \in Centres, NEW at \in Times
      PROVE  Cardinality(Placed(c, at)' \union Heading(c, at)') <= Bound
  <2>1. Placed(c, at)' = Placed(c, at)
    BY <1>2 DEF Placed, Waiting, Active
  <2>2. CASE CountsSlot(op, book[b], want) /\ InRush(want, c, at)
    <3>1. Cardinality(Placed(c, at) \union Heading(c, at) \union {b}) <= Bound
      BY <1>2, <2>2, RoomForOne DEF RushInv
    <3>2. Heading(c, at)' \subseteq Heading(c, at) \union {b}
      BY <1>3, <1>4 DEF Heading, HeadingClerks
    <3>3. Placed(c, at) \union Heading(c, at) \union {b} \subseteq Bookings
      BY DEF Placed, Heading
    <3>4. Placed(c, at)' \union Heading(c, at)' \subseteq Placed(c, at) \union Heading(c, at) \union {b}
      BY <2>1, <3>2
    <3>. QED
      BY <3>1, <3>3, <3>4, FewClerks, Smaller
  <2>3. CASE ~(CountsSlot(op, book[b], want) /\ InRush(want, c, at))
    <3>1. Heading(c, at)' \subseteq Heading(c, at)
      BY <1>3, <1>4, <2>3 DEF Heading, HeadingClerks
    <3>2. Placed(c, at) \union Heading(c, at) \subseteq Bookings
      BY DEF Placed, Heading
    <3>3. Placed(c, at)' \union Heading(c, at)' \subseteq Placed(c, at) \union Heading(c, at)
      BY <2>1, <3>1
    <3>4. Cardinality(Placed(c, at) \union Heading(c, at)) <= Bound
      BY DEF RushInv
    <3>. QED
      BY <3>2, <3>3, <3>4, FewClerks, Smaller
  <2>. QED
    BY <2>2, <2>3
<1>. QED
  BY <1>1, <1>5 DEF RushInv

LEMMA CreateRush ==
  ASSUME RushInv, NEW k \in Clerks, NEW b \in Bookings, NEW c \in Centres,
         NEW t \in Technicians \union {None}, NEW at \in Starts, NEW dur \in Durations,
         Create(k, b, c, t, at, dur)
  PROVE  RushInv'
<1>. DEFINE want == [centre |-> c, technician |-> t, at |-> at, dur |-> dur,
                     status |-> "SCHEDULED"]
<1>1. want \in Row
  BY DEF Row, Times
<1>2. PICK picked \in BOOLEAN : picked = (t # None /\ RunFree(t, at, dur))
  BY DEF RunFree
<1>3. Checked(k, "create", b, want, picked)
  BY <1>2 DEF Create
<1>4. rewrites' \in 0 .. MaxRewrites /\ "create" \in Ops
  BY DEF Create, RushInv, Typed, TypeOK, Ops
<1>. HIDE DEF want
<1>. QED
  BY <1>1, <1>3, <1>4, CheckedRush

LEMMA ChangeRush ==
  ASSUME RushInv, NEW k \in Clerks, NEW b \in Bookings,
         \/ \E t \in Technicians, at \in Starts : AssignTechnician(k, b, t, at)
         \/ \E t \in Technicians : AssignOnly(k, b, t)
         \/ \E want \in Row : Update(k, b, want)
  PROVE  RushInv'
<1>1. Active(b) /\ rewrites' \in 0 .. MaxRewrites
  BY Changes DEF RushInv
<1>2. PICK op \in {"assign", "assignOnly", "update"}, want \in Row, picked \in BOOLEAN :
        Checked(k, op, b, want, picked)
  BY Changes DEF RushInv
<1>3. op \in Ops
  BY DEF Ops
<1>. QED
  BY <1>1, <1>2, <1>3, CheckedRush

\* A request that has saved is gone, the others go where they went.
LEMMA OutdatedHeads ==
  ASSUME Typed, NEW k \in Clerks, form' = Outdated(k), NEW c, NEW at
  PROVE  Heading(c, at)' \subseteq Heading(c, at)
<1>1. ASSUME NEW l \in Clerks, form'[l] # None
      PROVE  /\ form[l] # None
             /\ form'[l].op = form[l].op /\ form'[l].id = form[l].id
             /\ form'[l].want = form[l].want /\ form'[l].read = form[l].read
  <2>1. form'[l] = [form[l] EXCEPT !.picked = FALSE] /\ form[l] # None
    BY <1>1 DEF Outdated
  <2>. QED
    BY <2>1, FormFacts DEF Typed, TypeOK, Form
<1>. QED
  BY <1>1 DEF Heading, HeadingClerks

LEMMA InsertRush ==
  ASSUME RushInv, NEW k \in Clerks, Insert(k)
  PROVE  RushInv'
<1>. DEFINE f == form[k]
<1>1. Typed'
  BY InsertTyped DEF RushInv
<1>2. f # None /\ f.op = "create" /\ f.id \in Bookings /\ f.want \in Row
  BY FormFacts DEF RushInv, Insert
<1>3. book' = [book EXCEPT ![f.id] = f.want] /\ unchecked' = unchecked \ {f.id}
  BY DEF Insert
<1>4. book'[f.id] = f.want /\ \A b \in Bookings \ {f.id} : book'[b] = book[b]
  BY <1>2, <1>3 DEF RushInv, Typed, TypeOK
<1>5. ASSUME NEW c \in Centres, NEW at \in Times
      PROVE  Placed(c, at)' \union Heading(c, at)' \subseteq Placed(c, at) \union Heading(c, at)
  <2>1. Heading(c, at)' \subseteq Heading(c, at)
    BY OutdatedHeads DEF Insert, RushInv
  <2>2. InRush(f.want, c, at) => f.id \in Heading(c, at)
    BY <1>2 DEF Heading, HeadingClerks, CountsSlot
  <2>3. Placed(c, at)' \subseteq Placed(c, at) \union Heading(c, at)
    BY <1>2, <1>3, <1>4, <2>2 DEF Placed, Waiting, Active
  <2>. QED
    BY <2>1, <2>3
<1>. QED
  BY <1>1, <1>5, NoNewRush

LEMMA SaveRush ==
  ASSUME RushInv, NEW k \in Clerks, Save(k)
  PROVE  RushInv'
<1>. DEFINE f == form[k]
<1>1. Typed'
  BY SaveTyped DEF RushInv
<1>2. f # None /\ f.op # "create" /\ f.id \in Bookings /\ f.want \in Row
  BY SaveWrites, FormFacts DEF RushInv
<1>3. PICK row : WriteRow(k, row)
  BY SaveWrites
<1>4. book' = [book EXCEPT ![f.id] = row]
  BY <1>3 DEF WriteRow
<1>5. book'[f.id] = row /\ \A b \in Bookings \ {f.id} : book'[b] = book[b]
  BY <1>2, <1>4 DEF RushInv, Typed, TypeOK
<1>6. unchecked \ {f.id} \subseteq unchecked'
  BY <1>3 DEF WriteRow
<1>7. f.id \in unchecked' \/ row = None
        \/ (/\ f.id \notin unchecked /\ Waiting(f.id)
            /\ row.at = book[f.id].at /\ row.centre = book[f.id].centre)
        \/ (/\ CountsSlot(f.op, f.read, f.want)
            /\ row.at = f.want.at /\ row.centre = f.want.centre)
  BY <1>3 DEF WriteRow
<1>8. ASSUME NEW c \in Centres, NEW at \in Times
      PROVE  Placed(c, at)' \union Heading(c, at)' \subseteq Placed(c, at) \union Heading(c, at)
  <2>1. Heading(c, at)' \subseteq Heading(c, at)
    BY <1>3, OutdatedHeads DEF WriteRow, RushInv
  <2>2. CountsSlot(f.op, f.read, f.want) /\ InRush(f.want, c, at) => f.id \in Heading(c, at)
    BY <1>2 DEF Heading, HeadingClerks
  <2>3. ASSUME NEW b \in Placed(c, at)' PROVE b \in Placed(c, at) \union Heading(c, at)
    <3>1. CASE b # f.id
      BY <1>5, <1>6, <3>1 DEF Placed, Waiting, Active
    <3>2. CASE b = f.id
      <4>1. f.id \notin unchecked' /\ row # None /\ InRush(row, c, at) /\ row.status # "ON_SITE"
        BY <1>5, <3>2 DEF Placed, Waiting, Active
      <4>. QED
        BY <1>2, <1>7, <2>2, <3>2, <4>1 DEF Placed, Waiting, Active, InRush
    <3>. QED
      BY <3>1, <3>2
  <2>. QED
    BY <2>1, <2>3
<1>. QED
  BY <1>1, <1>8, NoNewRush

LEMMA OthersRush ==
  ASSUME RushInv, NEW b \in Bookings,
         \/ MarkOnSite(b) \/ Leave(b)
         \/ \E c \in Centres, t \in BookedFor : AmcVisit(b, c, t)
         \/ \E row \in Row : Reopen(b, row)
  PROVE  RushInv'
<1>1. Typed'
  BY OthersTyped DEF RushInv
<1>2. \A d \in Bookings \ {b} : book'[d] = book[d]
  BY DEF RushInv, Typed, TypeOK, MarkOnSite, Leave, AmcVisit, Reopen, Appears
<1>3. unchecked \ {b} \subseteq unchecked'
  BY DEF MarkOnSite, Leave, AmcVisit, Reopen, Appears
<1>4. b \notin unchecked' => ~Waiting(b)'
  <2>1. CASE MarkOnSite(b)
    <3>1. book[b] \in Row
      BY <2>1 DEF MarkOnSite, Waiting, Active, RushInv, Typed, TypeOK
    <3>2. book'[b] = [book[b] EXCEPT !.status = "ON_SITE"]
      BY <2>1 DEF MarkOnSite, RushInv, Typed, TypeOK
    <3>3. book'[b].status = "ON_SITE"
      BY <3>1, <3>2 DEF Row
    <3>. QED
      BY <3>3 DEF Waiting
  <2>2. CASE Leave(b)
    BY <2>2 DEF Leave, Waiting, Active, RushInv, Typed, TypeOK
  <2>3. CASE \/ \E c \in Centres, t \in BookedFor : AmcVisit(b, c, t)
             \/ \E row \in Row : Reopen(b, row)
    BY <2>3 DEF AmcVisit, Reopen, Appears
  <2>. QED
    BY <2>1, <2>2, <2>3
<1>5. ASSUME NEW c \in Centres, NEW at \in Times
      PROVE  Placed(c, at)' \union Heading(c, at)' \subseteq Placed(c, at) \union Heading(c, at)
  <2>1. Placed(c, at)' \subseteq Placed(c, at)
    BY <1>2, <1>3, <1>4 DEF Placed, Waiting, Active
  <2>2. ASSUME NEW l \in Clerks, form'[l] # None
        PROVE  /\ form[l] # None
               /\ form'[l].op = form[l].op /\ form'[l].id = form[l].id
               /\ form'[l].want = form[l].want /\ form'[l].read = form[l].read
    <3>1. form'[l] \in {form[l], [form[l] EXCEPT !.picked = FALSE]} /\ form[l] # None
      BY <2>2 DEF MarkOnSite, Leave, AmcVisit, Reopen, Appears
    <3>. QED
      BY <3>1 DEF RushInv, Typed, TypeOK, Form
  <2>3. Heading(c, at)' \subseteq Heading(c, at)
    BY <2>2 DEF Heading, HeadingClerks
  <2>. QED
    BY <2>1, <2>3
<1>. QED
  BY <1>1, <1>5, NoNewRush

LEMMA StepRush == RushInv /\ [Next]_vars => RushInv'
<1>. SUFFICES ASSUME RushInv, [Next]_vars PROVE RushInv'
  OBVIOUS
<1>1. ASSUME NEW k \in Clerks, Clerk(k) PROVE RushInv'
  BY <1>1, CreateRush, ChangeRush, InsertRush, SaveRush, BookedForAssumption DEF Clerk
<1>2. CASE Next
  BY <1>1, <1>2, OthersRush DEF Next
<1>3. CASE UNCHANGED vars
  <2>1. Typed'
    BY <1>3, StepTyped DEF RushInv
  <2>2. \A c \in Centres, at \in Times :
          Placed(c, at)' \union Heading(c, at)' \subseteq Placed(c, at) \union Heading(c, at)
    BY <1>3 DEF vars, Placed, Waiting, Active, Heading, HeadingClerks
  <2>. QED
    BY <2>1, <2>2, NoNewRush
<1>. QED
  BY <1>2, <1>3

LEMMA InitRush == Init => RushInv
<1>. SUFFICES ASSUME Init PROVE RushInv
  OBVIOUS
<1>1. Typed
  BY InitTyped
<1>2. ASSUME NEW c \in Centres, NEW at \in Times
      PROVE  Cardinality(Placed(c, at) \union Heading(c, at)) <= Bound
  <2>1. Placed(c, at) \union Heading(c, at) = {}
    BY DEF Init, Placed, Waiting, Active, Heading, HeadingClerks
  <2>. QED
    BY <2>1, FewClerks, FS_EmptySet
<1>. QED
  BY <1>1, <1>2 DEF RushInv

(***************************************************************************)
(* The capacity of a centre is exceeded by at most one visit for each      *)
(* other request under way, however often requests overlap: the excess     *)
(* does not add up.                                                        *)
(***************************************************************************)
THEOREM RushStaysBounded == Spec => []RushIsBounded
<1>1. RushInv => RushIsBounded
  <2>. SUFFICES ASSUME RushInv, NEW c \in Centres, NEW at \in Times
                PROVE  Cardinality(Placed(c, at)) <= Bound
    BY DEF RushIsBounded, Placed, InRush, Bound
  <2>1. Cardinality(Placed(c, at) \union Heading(c, at)) <= Bound
    BY DEF RushInv
  <2>2. Placed(c, at) \union Heading(c, at) \subseteq Bookings
    BY DEF Placed, Heading
  <2>. QED
    BY <2>1, <2>2, FewClerks, Smaller
<1>. QED
  BY <1>1, InitRush, StepRush, PTL DEF Spec
===============================================================================
