-------------------------------- MODULE Booking --------------------------------
(***************************************************************************)
(* Where and when a visit is booked: the scheduling grid in which a clerk  *)
(* picks a technician and a run of 15-minute chips, the board on which     *)
(* visits are dragged, and the checks the service makes before it saves.   *)
(*                                                                         *)
(* A handler checks and, later, saves; others save in between.  A request  *)
(* from a grid that was old by the time of the check may ask for any       *)
(* place, like one from the board.  Times are counted in chips of a day.   *)
(***************************************************************************)
EXTENDS Integers, FiniteSets

CONSTANTS
  Clerks,       (* each has one request under way                          *)
  Bookings,     (* appointments that can be active at a time               *)
  Centres,
  Technicians,
  MaxTime,      (* the last chip of the opening hours                      *)
  Starts,       (* the chips requests ask for, all of them in the code     *)
  Durations,    (* lengths in chips                                        *)
  Break,        (* chips in the break                                      *)
  Capacity,     (* maxJobsPerDay                                           *)
  Midnight,     (* where a date without a time falls, in chips from opening *)
  MaxRewrites,  (* bound: edits that write the status of an appointment    *)
  DailyCap,     (* DAILY_TECHNICIAN_APPOINTMENT_CAP                        *)
  BookedFor,    (* whom a new appointment may be for, None for nobody yet  *)
  None

ASSUME SizeAssumption == /\ MaxTime \in Nat
                         /\ Capacity \in Nat
                         /\ DailyCap \in Nat
                         /\ MaxRewrites \in Nat
                         /\ Midnight \in Int
                         /\ Durations \subseteq Nat \ {0}
                         /\ Starts \subseteq 0 .. MaxTime
ASSUME FiniteAssumption == /\ IsFiniteSet(Clerks) /\ Clerks # {}
                           /\ IsFiniteSet(Bookings)
ASSUME NoneAssumption == None \notin Technicians \union Bookings
ASSUME BookedForAssumption == BookedFor \subseteq Technicians \union {None}

VARIABLES
  book,         (* the active appointments                                 *)
  form,         (* the request of each clerk                               *)
  unpicked,     (* history: bookings not placed from a grid still current  *)
  unchecked,    (* history: bookings placed without a count of the slot    *)
  rewrites      (* history: how many edits wrote a status                  *)

vars == <<book, form, unpicked, unchecked, rewrites>>

Chips == 0 .. MaxTime

Times == Starts \union {Midnight}

\* CONFIRMED is treated like SCHEDULED everywhere below.
Row == [centre : Centres, technician : Technicians \union {None}, at : Times,
        dur : Durations, status : {"SCHEDULED", "TECHNICIAN_ASSIGNED", "ON_SITE"}]

\* What a request asks for: assignTechnician may come with a time or without one.
Ops == {"create", "assign", "assignOnly", "update"}

\* read is the entity the handler loaded, want what it is about to save.
Form == [op : Ops, id : Bookings, want : Row,
         read : Row \union {None}, picked : BOOLEAN]

TypeOK ==
  /\ book \in [Bookings -> Row \union {None}]
  /\ form \in [Clerks -> Form \union {None}]
  /\ unpicked \subseteq Bookings
  /\ unchecked \subseteq Bookings
  /\ rewrites \in 0 .. MaxRewrites

Init ==
  /\ book = [b \in Bookings |-> None]
  /\ form = [k \in Clerks |-> None]
  /\ unpicked = {}
  /\ unchecked = {}
  /\ rewrites = 0

-------------------------------------------------------------------------------
(* The checks                                                              *)

Active(b) == book[b] # None
Waiting(b) == Active(b) /\ book[b].status # "ON_SITE"

\* Fault: visits that have a technician are forgotten.
CapacityCountsUnassigned(b) == Active(b) /\ book[b].status = "SCHEDULED"

CapacityCounts(b) == Waiting(b)

\* checkCapacity: visits of the centre that start from half an hour before to
\* half an hour after.
HasRoom(want, own) ==
  Cardinality({b \in Bookings \ {own} :
                 /\ CapacityCounts(b)
                 /\ book[b].centre = want.centre
                 /\ book[b].at \in want.at - 2 .. want.at + want.dur + 2}) < Capacity

\* Fault: the visit's own length is left out.
WindowWithoutLength(want) == want.at - 1 .. want.at + 1

\* The starts checkTechnicianAvailability looks for.
Window(want) == want.at - 1 .. want.at + want.dur + 1

TechnicianFree(want, own) ==
  \A b \in Bookings \ {own} :
    Active(b) /\ book[b].technician = want.technician => book[b].at \notin Window(want)

Covers(row, chip) == row.at <= chip /\ chip < row.at + row.dur

DayOf(t) == {b \in Bookings : Active(b) /\ book[b].technician = t}

\* buildSchedulingGrid: the green chips of a technician.
ChipFree(t, chip) ==
  /\ Cardinality(DayOf(t)) < DailyCap
  /\ chip \in Chips \ Break
  /\ \A b \in DayOf(t) : ~Covers(book[b], chip)

\* SchedulingGridPicker: a run of green chips of one technician.
RunFree(t, at, dur) == \A chip \in at .. at + dur - 1 : ChipFree(t, chip)

-------------------------------------------------------------------------------
(* The clerks' requests, up to the save                                   *)

\* create counts, assignTechnician does if it is sent a time, update if the time changes.
CountsSlot(op, row, want) == op \in {"create", "assign"} \/ want.at # row.at

AsksTechnician(op, row, want) ==
  want.technician # None /\ (op = "update" => want.technician # row.technician)

Checked(k, op, b, want, picked) ==
  /\ form[k] = None
  /\ CountsSlot(op, book[b], want) => HasRoom(want, b)
  /\ AsksTechnician(op, book[b], want) => TechnicianFree(want, b)
  /\ form' = [form EXCEPT ![k] = [op |-> op, id |-> b, want |-> want, read |-> book[b],
                                  picked |-> picked]]
  /\ UNCHANGED <<book, unpicked, unchecked>>

Unused(b) == ~Active(b) /\ \A k \in Clerks : form[k] # None => form[k].id # b

\* The New Appointment form takes technician, start and length from the grid.
Create(k, b, c, t, at, dur) ==
  /\ Unused(b)
  /\ Checked(k, "create", b, [centre |-> c, technician |-> t, at |-> at, dur |-> dur,
                              status |-> "SCHEDULED"],
             t # None /\ RunFree(t, at, dur))
  /\ UNCHANGED rewrites

Assigned(b, t, at) ==
  [book[b] EXCEPT !.technician = t, !.at = at, !.status = "TECHNICIAN_ASSIGNED"]

\* The edit form's grid, whose chosen length is not sent; or an appointment
\* without technician is dropped on the board.
AssignTechnician(k, b, t, at) ==
  /\ Active(b) /\ book[b].status = "SCHEDULED"
  /\ Checked(k, "assign", b, Assigned(b, t, at), ChipFree(t, at))
  /\ UNCHANGED rewrites

\* The time may be left out (no form does): the appointment keeps its own.
AssignOnly(k, b, t) ==
  /\ Active(b) /\ book[b].status = "SCHEDULED"
  /\ Checked(k, "assignOnly", b, Assigned(b, t, book[b].at), FALSE)
  /\ UNCHANGED rewrites

WritesStatus == rewrites < MaxRewrites /\ rewrites' = rewrites + 1

\* The board sends another technician and time, the edit form the other fields; a
\* request may write any of them, the length and the status included.  (Leave has the
\* statuses in which it takes no place, Reopen the way back from them.)
Update(k, b, want) ==
  /\ Active(b)
  /\ want.at # book[b].at \/ want.technician # book[b].technician => Waiting(b)
  /\ want.technician = None => book[b].technician = None
  /\ Checked(k, "update", b, want, FALSE)
  /\ IF want.status = book[b].status THEN UNCHANGED rewrites ELSE WritesStatus

-------------------------------------------------------------------------------
(* The saves                                                               *)

\* What was picked before this save was picked from a grid that is now old.
Outdated(k) == [l \in Clerks |-> IF l = k THEN None
                                 ELSE IF form[l] = None THEN None
                                 ELSE [form[l] EXCEPT !.picked = FALSE]]

Insert(k) ==
  LET f == form[k] IN
    /\ f # None /\ f.op = "create"
    /\ book' = [book EXCEPT ![f.id] = f.want]
    /\ unpicked' = IF f.picked THEN unpicked \ {f.id} ELSE unpicked \union {f.id}
    /\ unchecked' = unchecked \ {f.id}
    /\ form' = Outdated(k)
    /\ UNCHANGED rewrites

\* row is written for the appointment of the request; it was counted if the
\* handler counted the slot it now has, and need not be if it stays in its own.
WriteRow(k, row) ==
  LET f       == form[k]
      moved   == row # None /\ book[f.id] # row
      counted == /\ row # None /\ CountsSlot(f.op, f.read, f.want)
                 /\ row.at = f.want.at /\ row.centre = f.want.centre
      stays   == /\ row # None /\ Waiting(f.id)
                 /\ row.at = book[f.id].at /\ row.centre = book[f.id].centre
  IN
    /\ book' = [book EXCEPT ![f.id] = row]
    /\ unpicked' = CASE row # None /\ f.picked -> unpicked \ {f.id}
                     [] moved /\ ~f.picked      -> unpicked \union {f.id}
                     [] OTHER                   -> unpicked
    /\ unchecked' = CASE counted                          -> unchecked \ {f.id}
                      [] row # None /\ ~counted /\ ~stays -> unchecked \union {f.id}
                      [] OTHER                            -> unchecked
    /\ form' = Outdated(k)
    /\ UNCHANGED rewrites

\* TypeORM save: what the handler changed is written; of the rest, a change made
\* since the read survives (kept) or is put back.  An appointment that was
\* cancelled or completed meanwhile comes back if its status is written.
Save(k) ==
  LET f     == form[k]
      now   == IF book[f.id] = None THEN f.read ELSE book[f.id]
      since == {c \in DOMAIN f.want : now[c] # f.read[c] /\ f.want[c] = f.read[c]}
  IN
    /\ f # None /\ f.op # "create"
    /\ \E kept \in SUBSET since,
          gone \in {book[f.id] = None /\ f.want.status = f.read.status, FALSE} :
         WriteRow(k, IF gone THEN None
                     ELSE [c \in DOMAIN f.want |-> IF c \in kept THEN now[c] ELSE f.want[c]])

-------------------------------------------------------------------------------
(* The others                                                              *)

\* An appointment is there again or anew, and nothing was checked.
Appears(b, row) ==
  /\ book' = [book EXCEPT ![b] = row]
  /\ unpicked' = unpicked \union {b}
  /\ unchecked' = unchecked \union {b}
  /\ form' = [l \in Clerks |-> IF form[l] = None THEN None
                               ELSE [form[l] EXCEPT !.picked = FALSE]]

\* AmcService.generateVisitSchedule inserts its visits without any check.
AmcVisit(b, c, t) ==
  /\ Unused(b)
  /\ \E dur \in Durations : Appears(b, [centre |-> c, technician |-> t, at |-> Midnight,
                                        dur |-> dur, status |-> "SCHEDULED"])
  /\ UNCHANGED rewrites

\* An update that writes the status of an appointment that was over.
Reopen(b, row) ==
  /\ ~Active(b)
  /\ row.technician = None => None \in BookedFor
  /\ \A k \in Clerks : form[k] # None /\ form[k].id = b => form[k].op # "create"
  /\ Appears(b, row)
  /\ WritesStatus

MarkOnSite(b) ==
  /\ Waiting(b) /\ book[b].technician # None
  /\ book' = [book EXCEPT ![b].status = "ON_SITE"]
  /\ UNCHANGED <<form, unpicked, unchecked, rewrites>>

\* Cancelled, completed or collected: the appointment takes no place any more.
Leave(b) ==
  /\ Active(b)
  /\ book' = [book EXCEPT ![b] = None]
  /\ unpicked' = unpicked \ {b}
  /\ unchecked' = unchecked \ {b}
  /\ UNCHANGED <<form, rewrites>>

Clerk(k) ==
  \/ \E b \in Bookings, t \in BookedFor, at \in Starts :
       \E c \in Centres, dur \in Durations : Create(k, b, c, t, at, dur)
  \/ \E b \in Bookings, t \in Technicians :
       AssignOnly(k, b, t) \/ \E at \in Starts : AssignTechnician(k, b, t, at)
  \/ \E b \in Bookings, want \in Row : Update(k, b, want)
  \/ Insert(k)
  \/ Save(k)

Next ==
  \/ \E k \in Clerks : Clerk(k)
  \/ \E b \in Bookings, c \in Centres, t \in BookedFor : AmcVisit(b, c, t)
  \/ \E b \in Bookings, row \in Row : Reopen(b, row)
  \/ \E b \in Bookings : MarkOnSite(b) \/ Leave(b)

Spec == Init /\ [][Next]_vars

-------------------------------------------------------------------------------
(* Properties                                                              *)

\* The count of a slot and the save are apart, so requests that overlap may go
\* over the capacity of a centre; but only by one for each other request under
\* way, whatever they do: any half hour keeps within that, apart from visits
\* that were placed without a count.
RushIsBounded ==
  \A c \in Centres, at \in Times :
    Cardinality({b \in Bookings \ unchecked : /\ Waiting(b)
                                              /\ book[b].centre = c
                                              /\ book[b].at \in at .. at + 2})
      <= Capacity + Cardinality(Clerks) - 1

Overlap(p, r) == p.at < r.at + r.dur /\ r.at < p.at + p.dur

Clash(b, d) ==
  /\ b # d /\ Active(b) /\ Active(d)
  /\ book[b].technician = book[d].technician /\ book[b].technician # None
  /\ Overlap(book[b], book[d])

\* The service looks only for visits that start near the new one, the edit form's
\* grid only at the chip that was tapped.  Neither is enough, and together they
\* are: two visits placed from a grid that was still current when they were
\* saved do not overlap for one technician.
PickedNeverClash ==
  \A b, d \in Bookings \ unpicked : ~Clash(b, d)

\* job-card-crew-helper.entity.ts:15 counts on the "existing double-booking
\* prevention" of checkTechnicianAvailability.  Not so: it asks for visits that
\* start in the window, and one that started earlier and is still going on does
\* not.
NoDoubleBooking == \A b, d \in Bookings : ~Clash(b, d)
===============================================================================
