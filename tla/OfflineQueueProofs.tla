-------------------------- MODULE OfflineQueueProofs --------------------------
(***************************************************************************)
(* Proofs about OfflineQueue, for any kinds and any number of actions.     *)
(* Types, and that no copy of the queue has two actions of a kind, hold    *)
(* however the operations overlap (TypeInv).  That nothing queued is lost  *)
(* and no action is written over a later one, holds when they do not       *)
(* (SerialInv); the app may die at any of their steps.                     *)
(*                                                                         *)
(* A replay works on a copy.  What the second invariant says of it is how  *)
(* the copy came about: the store, less what the server has accepted, with *)
(* what it has refused marked (Copied).                                    *)
(***************************************************************************)
EXTENDS OfflineQueue, FiniteSetTheorems, WellFoundedInduction, TLAPS

Tap == [op : {"none", "enqueue", "retry", "dismiss"},
        id : Kinds \union Actions \union {0},
        items : SUBSET QueuedAction]

Sync == [phase : {"idle", "load", "send", "reply", "save"},
         items : SUBSET QueuedAction, todo : SUBSET QueuedAction,
         answer : {"none", "ok", "rejected", "lost"}]

\* A queue of actions that were taken.
Known(q, n) == IsQueue(q) /\ \A i \in q : i.id <= n

Enqueuing == {t \in Taps : tap[t].op = "enqueue"}

\* A replay and a tap, when n actions were taken.
SyncOK(x, n) ==
  /\ x \in Sync
  /\ Known(x.items, n) /\ Known(x.todo, n)
  /\ x.todo = {} <=> x.phase \notin {"send", "reply"}

TapOK(x, n) ==
  /\ x \in Tap
  /\ Known(x.items, n)
  /\ x.op = "enqueue" => x.id \in Kinds

\* The app and the link; the banner and the server.
Facts ==
  /\ up \in BOOLEAN /\ online \in BOOLEAN /\ isOnline \in BOOLEAN /\ fetching \in BOOLEAN
  /\ shown \subseteq Actions
  /\ accepted \subseteq Actions
  /\ written \in [Kinds -> {0} \union Actions]

\* No more are taken, or about to be, than there are identifiers.
Room == taken \in Nat /\ taken + Cardinality(Enqueuing) <= MaxActions

\* The inductive invariant under any overlap.
TypeInv ==
  /\ Known(store, taken)
  /\ SyncOK(sync, taken)
  /\ tap \in [Taps -> Tap]
  /\ \A t \in Taps : TapOK(tap[t], taken)
  /\ Room
  /\ Facts

-----------------------------------------------------------------------------
(* The operators on queues.                                                *)

\* A set of natural numbers has a least member.
LEMMA LeastNat ==
  ASSUME NEW N \in SUBSET Nat, N # {}
  PROVE  \E n \in N : \A m \in N : n <= m
<1>1. PICK n \in N : \A m \in N : <<m, n>> \notin OpToRel(<, Nat)
  BY NatLessThanWellFounded, WFMin
<1>2. \A m \in N : ~(m < n)
  BY <1>1 DEF OpToRel
<1>. QED
  BY <1>2

LEMMA OldestIn ==
  ASSUME NEW q \in SUBSET QueuedAction, q # {}
  PROVE  Oldest(q) \in q
<1>1. PICK N : N = {i.id : i \in q}
  OBVIOUS
<1>2. N \in SUBSET Nat /\ N # {}
  BY <1>1, BoundAssumption DEF QueuedAction, Actions
<1>3. PICK n \in N : \A m \in N : n <= m
  BY <1>2, LeastNat
<1>4. \E i \in q : \A j \in q : i.id <= j.id
  BY <1>1, <1>3
<1>. QED
  BY <1>4 DEF Oldest

LEMMA FewerKnown ==
  ASSUME NEW q, NEW n, Known(q, n), NEW r \in SUBSET q
  PROVE  Known(r, n)
BY DEF Known, IsQueue

LEMMA LaterKnown ==
  ASSUME NEW q, NEW n \in Nat, Known(q, n)
  PROVE  Known(q, n + 1)
<1>1. \A i \in q : i.id \in Nat
  BY BoundAssumption DEF Known, IsQueue, QueuedAction, Actions
<1>. QED
  BY <1>1 DEF Known

LEMMA WithStatus ==
  ASSUME NEW i \in QueuedAction, NEW s \in {"pending", "failed"}
  PROVE  /\ [i EXCEPT !.status = s] \in QueuedAction
         /\ [i EXCEPT !.status = s].id = i.id
         /\ [i EXCEPT !.status = s].kind = i.kind
         /\ [i EXCEPT !.status = s].status = s
BY DEF QueuedAction

LEMMA StatusKnown ==
  ASSUME NEW q, NEW n, Known(q, n), NEW id, NEW s \in {"pending", "failed"}
  PROVE  Known(SetStatus(q, id, s), n)
<1>1. PICK f : f = [i \in q |-> IF i.id = id THEN [i EXCEPT !.status = s] ELSE i]
  OBVIOUS
<1>2. SetStatus(q, id, s) = {f[i] : i \in q}
  BY <1>1 DEF SetStatus
<1>3. \A i \in q : f[i] \in QueuedAction /\ f[i].id = i.id /\ f[i].kind = i.kind
  BY <1>1, WithStatus DEF Known, IsQueue
<1>. QED
  BY <1>2, <1>3 DEF Known, IsQueue

LEMMA EnqueuedKnown ==
  ASSUME NEW q, Known(q, taken), taken \in Nat, taken < MaxActions, NEW k \in Kinds
  PROVE  Known(Enqueued(q, k), taken + 1)
<1>1. PICK new : new = [id |-> taken + 1, kind |-> k, status |-> "pending"]
  OBVIOUS
<1>2. new \in QueuedAction /\ new.id = taken + 1 /\ new.kind = k
  BY <1>1, BoundAssumption DEF QueuedAction, Actions
<1>3. PICK r : r = {i \in q : i.kind # k}
  OBVIOUS
<1>4. Known(r, taken) /\ \A i \in r : i.kind # k /\ i.id \in Nat /\ i.id <= taken
  BY <1>3, FewerKnown, BoundAssumption DEF Known, IsQueue, QueuedAction, Actions
<1>5. Enqueued(q, k) = r \union {new}
  BY <1>1, <1>3 DEF Enqueued, WithoutDuplicate
<1>. QED
  BY <1>2, <1>4, <1>5 DEF Known, IsQueue

-----------------------------------------------------------------------------
(* Types.                                                                  *)

LEMMA NothingKnown == \A n : Known({}, n)
BY DEF Known, IsQueue

LEMMA IdleSync ==
  /\ Idle \in Sync /\ Idle.phase = "idle" /\ Idle.items = {} /\ Idle.todo = {}
  /\ Idle.answer = "none"
BY DEF Idle, Sync

LEMMA IdleTap == NoTap \in Tap /\ NoTap.op = "none" /\ NoTap.items = {}
BY DEF NoTap, Tap

LEMMA EnqueuingFinite == IsFiniteSet(Enqueuing) /\ Cardinality(Enqueuing) \in Nat
BY TapsAssumption, FS_Subset, FS_CardinalityType DEF Enqueuing

LEMMA IdleOK == \A n : SyncOK(Idle, n) /\ TapOK(NoTap, n)
BY IdleSync, IdleTap, NothingKnown DEF SyncOK, TapOK

LEMMA InitTypes == Init => TypeInv
<1>. SUFFICES ASSUME Init PROVE TypeInv
  OBVIOUS
<1>1. tap \in [Taps -> Tap] /\ \A t \in Taps : tap[t] = NoTap
  BY IdleTap DEF Init
<1>2. Enqueuing = {}
  BY <1>1, IdleTap DEF Enqueuing
<1>3. Room
  BY <1>2, FS_EmptySet, BoundAssumption DEF Init, Room
<1>4. Facts
  BY DEF Init, Facts
<1>5. Known(store, taken) /\ SyncOK(sync, taken) /\ \A t \in Taps : TapOK(tap[t], taken)
  BY <1>1, NothingKnown, IdleOK DEF Init
<1>. QED
  BY <1>1, <1>3, <1>4, <1>5 DEF TypeInv

\* A replay is begun or goes on.
LEMMA RunSyncOK ==
  ASSUME NEW n, SyncOK(sync, n)
  PROVE  SyncOK(RunSync, n)
<1>1. CASE sync.phase = "idle"
  <2>1. PICK x : x = [Idle EXCEPT !.phase = "load"]
    OBVIOUS
  <2>2. x \in Sync /\ x.phase = "load" /\ x.items = {} /\ x.todo = {}
    BY <2>1 DEF Idle, Sync
  <2>. QED
    BY <1>1, <2>1, <2>2, NothingKnown DEF RunSync, SyncOK
<1>. QED
  BY <1>1 DEF RunSync

\* A request of the screens begins or ends.
LEMMA TapSet ==
  ASSUME TypeInv, NEW t \in Taps, NEW x, TapOK(x, taken), tap' = [tap EXCEPT ![t] = x]
  PROVE  /\ tap' \in [Taps -> Tap]
         /\ tap'[t] = x
         /\ \A u \in Taps : u # t => tap'[u] = tap[u]
         /\ \A u \in Taps : TapOK(tap'[u], taken)
         /\ x.op # "enqueue" => Enqueuing' = Enqueuing \ {t}
         /\ x.op = "enqueue" => Enqueuing' = Enqueuing \union {t}
<1>1. x \in Tap
  BY DEF TapOK
<1>2. /\ tap' \in [Taps -> Tap] /\ tap'[t] = x
      /\ \A u \in Taps : u # t => tap'[u] = tap[u]
  BY <1>1 DEF TypeInv
<1>3. \A u \in Taps : TapOK(tap'[u], taken)
  BY <1>2 DEF TypeInv
<1>4. \A u \in Taps : u \in Enqueuing' <=> tap'[u].op = "enqueue"
  BY DEF Enqueuing
<1>. QED
  BY <1>2, <1>3, <1>4 DEF Enqueuing

LEMMA RoomLeft ==
  ASSUME Room, taken' = taken, NEW t \in Taps, Enqueuing' = Enqueuing \ {t}
  PROVE  Room'
<1>1. Cardinality(Enqueuing') \in Nat /\ Cardinality(Enqueuing') <= Cardinality(Enqueuing)
  BY EnqueuingFinite, FS_Subset, FS_CardinalityType
<1>. QED
  BY <1>1, EnqueuingFinite, BoundAssumption DEF Room

\* The same, when nothing else changes.
LEMMA LoadTypes ==
  ASSUME TypeInv, NEW t \in Taps, NEW op \in {"none", "enqueue", "retry", "dismiss"}, NEW x,
         Load(t, op, x), x \in Kinds \union Actions, op = "enqueue" => x \in Kinds,
         op = "enqueue" => taken + Cardinality(Enqueuing) < MaxActions
  PROVE  TypeInv'
<1>1. PICK y : y = [op |-> op, id |-> x, items |-> store]
  OBVIOUS
<1>2. TapOK(y, taken) /\ y.op = op
  <2>1. store \in SUBSET QueuedAction
    BY DEF TypeInv, Known, IsQueue
  <2>. QED
    BY <1>1, <2>1 DEF TapOK, Tap, TypeInv
<1>3. /\ tap' = [tap EXCEPT ![t] = y]
      /\ UNCHANGED <<store, sync, shown, taken, up, online, isOnline, fetching, accepted, written>>
  BY <1>1 DEF Load, link, server
<1>4. /\ tap' \in [Taps -> Tap] /\ \A u \in Taps : TapOK(tap'[u], taken)
      /\ op # "enqueue" => Enqueuing' = Enqueuing \ {t}
      /\ op = "enqueue" => Enqueuing' = Enqueuing \union {t}
  BY <1>2, <1>3, TapSet
<1>5. Room'
  <2>1. CASE op # "enqueue"
    BY <1>3, <1>4, <2>1, RoomLeft DEF TypeInv
  <2>2. CASE op = "enqueue"
    <3>1. Enqueuing' = Enqueuing \union {t}
      BY <1>4, <2>2
    <3>2. /\ Cardinality(Enqueuing \union {t}) =
               IF t \in Enqueuing THEN Cardinality(Enqueuing) ELSE Cardinality(Enqueuing) + 1
          /\ Cardinality(Enqueuing) \in Nat
      BY EnqueuingFinite, FS_AddElement
    <3>3. Cardinality(Enqueuing') \in {Cardinality(Enqueuing), Cardinality(Enqueuing) + 1}
      BY <3>1, <3>2
    <3>. QED
      BY <1>3, <2>2, <3>2, <3>3, BoundAssumption DEF TypeInv, Room
  <2>. QED
    BY <2>1, <2>2
<1>. QED
  BY <1>3, <1>4, <1>5 DEF TypeInv, Facts

\* The second half of a tap: what it saves is a queue.
LEMMA EnqueueSaveTypes ==
  ASSUME TypeInv, NEW t \in Taps, EnqueueSave(t)
  PROVE  TypeInv'
<1>1. /\ tap[t].op = "enqueue" /\ tap' = [tap EXCEPT ![t] = NoTap]
      /\ store' = Enqueued(tap[t].items, tap[t].id) /\ taken' = taken + 1 /\ sync' = RunSync
      /\ UNCHANGED <<shown, up, online, isOnline, fetching, accepted, written>>
  BY DEF EnqueueSave, Save, link, server
<1>2. /\ tap' \in [Taps -> Tap] /\ \A u \in Taps : TapOK(tap'[u], taken)
      /\ Enqueuing' = Enqueuing \ {t}
  BY <1>1, IdleOK, IdleTap, TapSet
<1>3. t \in Enqueuing /\ TapOK(tap[t], taken) /\ taken \in Nat /\ MaxActions \in Nat
  BY <1>1, BoundAssumption DEF Enqueuing, TypeInv, Room
<1>4. /\ Cardinality(Enqueuing') = Cardinality(Enqueuing) - 1
      /\ Cardinality(Enqueuing) \in Nat /\ Cardinality(Enqueuing') \in Nat
  BY <1>2, <1>3, EnqueuingFinite, FS_RemoveElement, FS_CardinalityType
<1>5. Room' /\ taken < MaxActions
  BY <1>1, <1>3, <1>4 DEF TypeInv, Room
<1>6. Known(store', taken')
  BY <1>1, <1>3, <1>5, EnqueuedKnown DEF TapOK
<1>7. SyncOK(sync', taken')
  <2>1. SyncOK(RunSync, taken)
    BY RunSyncOK DEF TypeInv
  <2>. QED
    BY <1>1, <1>3, <2>1, LaterKnown DEF SyncOK
<1>8. \A u \in Taps : TapOK(tap'[u], taken')
  BY <1>1, <1>2, <1>3, LaterKnown DEF TapOK
<1>. QED
  BY <1>1, <1>2, <1>5, <1>6, <1>7, <1>8 DEF TypeInv, Facts

LEMMA RetrySaveTypes ==
  ASSUME TypeInv, NEW t \in Taps, RetrySave(t)
  PROVE  TypeInv'
<1>1. /\ tap' = [tap EXCEPT ![t] = NoTap] /\ sync' = RunSync
      /\ store' = SetStatus(tap[t].items, tap[t].id, "pending")
      /\ UNCHANGED <<shown, taken, up, online, isOnline, fetching, accepted, written>>
  BY DEF RetrySave, Save, link, server
<1>2. /\ tap' \in [Taps -> Tap] /\ \A u \in Taps : TapOK(tap'[u], taken)
      /\ Enqueuing' = Enqueuing \ {t}
  BY <1>1, IdleOK, IdleTap, TapSet
<1>3. Known(store', taken') /\ SyncOK(sync', taken')
  BY <1>1, StatusKnown, RunSyncOK DEF TypeInv, TapOK
<1>4. Room'
  BY <1>1, <1>2, RoomLeft DEF TypeInv
<1>. QED
  BY <1>1, <1>2, <1>3, <1>4 DEF TypeInv, Facts

\* What the banner shows are actions.
LEMMA FailedActions ==
  ASSUME NEW q, NEW n, Known(q, n)
  PROVE  FailedIds(q) \subseteq Actions
<1>1. \A i \in q : i.id \in Actions
  BY DEF Known, IsQueue, QueuedAction
<1>. QED
  BY <1>1 DEF FailedIds

LEMMA DismissSaveTypes ==
  ASSUME TypeInv, NEW t \in Taps, DismissSave(t)
  PROVE  TypeInv'
<1>1. /\ tap' = [tap EXCEPT ![t] = NoTap] /\ shown' = FailedIds(store')
      /\ store' = Removed(tap[t].items, tap[t].id)
      /\ UNCHANGED <<sync, taken, up, online, isOnline, fetching, accepted, written>>
  BY DEF DismissSave, Save, link, server
<1>2. /\ tap' \in [Taps -> Tap] /\ \A u \in Taps : TapOK(tap'[u], taken)
      /\ Enqueuing' = Enqueuing \ {t}
  BY <1>1, IdleOK, IdleTap, TapSet
<1>3. Known(store', taken')
  <2>1. Removed(tap[t].items, tap[t].id) \subseteq tap[t].items
    BY DEF Removed
  <2>. QED
    BY <1>1, <2>1, FewerKnown DEF TypeInv, TapOK
<1>4. Room'
  BY <1>1, <1>2, RoomLeft DEF TypeInv
<1>5. shown' \subseteq Actions
  BY <1>1, <1>3, FailedActions
<1>. QED
  BY <1>1, <1>2, <1>3, <1>4, <1>5 DEF TypeInv, Facts


\* The steps of a replay work on parts of its own copy.
LEMMA SyncOnly ==
  ASSUME TypeInv, SyncOK(sync', taken), accepted' \subseteq Actions,
         written' \in [Kinds -> {0} \union Actions],
         UNCHANGED <<store, tap, shown, taken, up, online, isOnline, fetching>>
  PROVE  TypeInv'
<1>1. Enqueuing' = Enqueuing
  BY DEF Enqueuing
<1>. QED
  BY <1>1 DEF TypeInv, Facts, Room

LEMMA SyncLoadTypes ==
  ASSUME TypeInv, SyncLoad
  PROVE  TypeInv'
<1>1. PICK q : q = PendingOf(store)
  OBVIOUS
<1>2. q \subseteq store
  BY <1>1 DEF PendingOf
<1>3. Known(q, taken) /\ Known(store, taken) /\ q \in SUBSET QueuedAction /\ store \in SUBSET QueuedAction
  BY <1>2, FewerKnown DEF TypeInv, Known, IsQueue
<1>4. SyncOK(sync', taken)
  <2>1. CASE q = {}
    <3>1. PICK x : x = [Idle EXCEPT !.phase = "save", !.items = store]
      OBVIOUS
    <3>2. x \in Sync /\ x.phase = "save" /\ x.items = store /\ x.todo = {}
      BY <1>3, <3>1 DEF Idle, Sync
    <3>3. sync' = x
      BY <1>1, <2>1, <3>1 DEF SyncLoad
    <3>. QED
      BY <1>3, <3>2, <3>3, NothingKnown DEF SyncOK
  <2>2. CASE q # {}
    <3>1. PICK x : x = [Idle EXCEPT !.phase = "send", !.items = store, !.todo = q]
      OBVIOUS
    <3>2. x \in Sync /\ x.phase = "send" /\ x.items = store /\ x.todo = q
      BY <1>3, <3>1 DEF Idle, Sync
    <3>3. sync' = x
      BY <1>1, <2>2, <3>1 DEF SyncLoad
    <3>. QED
      BY <1>3, <2>2, <3>2, <3>3 DEF SyncOK
  <2>. QED
    BY <2>1, <2>2
<1>. QED
  BY <1>4, SyncOnly DEF SyncLoad, TypeInv, Facts, link, server

LEMMA DeliverTypes ==
  ASSUME TypeInv, NEW ok \in BOOLEAN, Deliver(ok)
  PROVE  TypeInv'
<1>1. PICK i : i = Oldest(sync.todo)
  OBVIOUS
<1>2. i \in sync.todo /\ i.id \in Actions /\ i.kind \in Kinds
  BY <1>1, OldestIn DEF Deliver, TypeInv, SyncOK, Known, IsQueue, QueuedAction
<1>3. SyncOK(sync', taken)
  <2>1. PICK a \in {"ok", "rejected"} : sync' = [sync EXCEPT !.phase = "reply", !.answer = a]
    BY DEF Deliver
  <2>2. /\ sync' \in Sync /\ sync'.phase = "reply"
        /\ sync'.items = sync.items /\ sync'.todo = sync.todo
    BY <2>1 DEF TypeInv, SyncOK, Sync
  <2>. QED
    BY <1>2, <2>2 DEF TypeInv, SyncOK
<1>4. accepted' \subseteq Actions /\ written' \in [Kinds -> {0} \union Actions]
  BY <1>1, <1>2 DEF Deliver, TypeInv, Facts, server
<1>. QED
  BY <1>3, <1>4, SyncOnly DEF Deliver, link

\* What an answer makes of the copy: an accepted action leaves it, a refused one is marked.
LEMMA AnsweredFacts ==
  ASSUME NEW x \in Sync
  PROVE  /\ Answered(x) = [phase  |-> IF x.todo \ {Oldest(x.todo)} = {} THEN "save" ELSE "send",
                           items  |-> IF x.answer = "ok" THEN Removed(x.items, Oldest(x.todo).id)
                                      ELSE SetStatus(x.items, Oldest(x.todo).id, "failed"),
                           todo   |-> x.todo \ {Oldest(x.todo)},
                           answer |-> x.answer]
BY DEF Answered, Next1, Sync

LEMMA ReplyFacts ==
  ASSUME TypeInv, Reply
  PROVE  /\ sync'.phase = IF sync'.todo = {} THEN "save" ELSE "send"
         /\ sync'.items = IF sync.answer = "ok" THEN Removed(sync.items, Oldest(sync.todo).id)
                          ELSE SetStatus(sync.items, Oldest(sync.todo).id, "failed")
         /\ sync'.todo = sync.todo \ {Oldest(sync.todo)}
         /\ SyncOK(sync', taken)
<1>1. sync \in Sync /\ Known(sync.items, taken) /\ Known(sync.todo, taken)
  BY DEF TypeInv, SyncOK
<1>2. PICK rest : rest = sync.todo \ {Oldest(sync.todo)}
  OBVIOUS
<1>3. PICK left : left = IF sync.answer = "ok" THEN Removed(sync.items, Oldest(sync.todo).id)
                         ELSE SetStatus(sync.items, Oldest(sync.todo).id, "failed")
  OBVIOUS
<1>4. sync' = [phase |-> IF rest = {} THEN "save" ELSE "send", items |-> left, todo |-> rest,
               answer |-> "none"]
  BY <1>1, <1>2, <1>3, AnsweredFacts DEF Reply
<1>5. Known(rest, taken)
  BY <1>1, <1>2, FewerKnown
<1>6. Known(left, taken)
  <2>1. Removed(sync.items, Oldest(sync.todo).id) \subseteq sync.items
    BY DEF Removed
  <2>. QED
    BY <1>1, <1>3, <2>1, FewerKnown, StatusKnown
<1>7. sync' \in Sync
  BY <1>4, <1>5, <1>6 DEF Sync, Known, IsQueue
<1>. QED
  BY <1>2, <1>3, <1>4, <1>5, <1>6, <1>7 DEF SyncOK

LEMMA NetworkErrorTypes ==
  ASSUME TypeInv, NetworkError
  PROVE  /\ SyncOK(sync', taken) /\ TypeInv'
         /\ sync'.phase = "save" /\ sync'.items = sync.items /\ sync'.todo = {}
<1>1. sync' = [sync EXCEPT !.phase = "save", !.todo = {}, !.answer = "lost"]
  BY DEF NetworkError
<1>2. /\ sync' \in Sync /\ sync'.phase = "save" /\ sync'.items = sync.items /\ sync'.todo = {}
  BY <1>1 DEF TypeInv, SyncOK, Sync
<1>3. SyncOK(sync', taken)
  BY <1>2, NothingKnown DEF TypeInv, SyncOK
<1>. QED
  BY <1>2, <1>3, SyncOnly DEF NetworkError, TypeInv, Facts, link, server

LEMMA SyncSaveTypes ==
  ASSUME TypeInv, SyncSave
  PROVE  TypeInv'
<1>1. /\ store' = sync.items /\ sync' = Idle /\ shown' = FailedIds(sync.items)
      /\ UNCHANGED <<tap, taken, up, online, isOnline, fetching, accepted, written>>
  BY DEF SyncSave, link, server
<1>2. Known(store', taken) /\ SyncOK(sync', taken) /\ shown' \subseteq Actions
  BY <1>1, IdleOK, FailedActions DEF TypeInv, SyncOK
<1>3. Enqueuing' = Enqueuing
  BY <1>1 DEF Enqueuing
<1>. QED
  BY <1>1, <1>2, <1>3 DEF TypeInv, Facts, Room

\* The link, NetInfo and a launch write no queue.
LEMMA LinkTypes ==
  ASSUME TypeInv, LinkChanges \/ NetInfoEvent \/ Fetched \/ Launch
  PROVE  TypeInv'
<1>1. UNCHANGED <<store, tap, taken, accepted, written>>
  BY DEF LinkChanges, NetInfoEvent, Fetched, Launch, phone, server
<1>2. SyncOK(sync', taken)
  BY RunSyncOK DEF LinkChanges, NetInfoEvent, Fetched, Launch, phone, TypeInv
<1>3. up' \in BOOLEAN /\ online' \in BOOLEAN /\ isOnline' \in BOOLEAN /\ fetching' \in BOOLEAN
  BY DEF LinkChanges, NetInfoEvent, Fetched, Launch, TypeInv, Facts
<1>4. shown' \subseteq Actions
  BY FailedActions DEF LinkChanges, NetInfoEvent, Fetched, Launch, phone, TypeInv, Facts
<1>5. Enqueuing' = Enqueuing
  BY <1>1 DEF Enqueuing
<1>. QED
  BY <1>1, <1>2, <1>3, <1>4, <1>5 DEF TypeInv, Facts, Room

LEMMA KillTypes ==
  ASSUME TypeInv, Kill
  PROVE  TypeInv'
<1>1. /\ up' = FALSE /\ fetching' = FALSE /\ isOnline' = TRUE /\ shown' = {} /\ sync' = Idle
      /\ tap' = [t \in Taps |-> NoTap]
      /\ UNCHANGED <<online, store, taken, accepted, written>>
  BY DEF Kill, server
<1>2. tap' \in [Taps -> Tap] /\ \A t \in Taps : tap'[t] = NoTap
  BY <1>1, IdleTap
<1>3. Enqueuing' = {}
  BY <1>2, IdleTap DEF Enqueuing
<1>4. Room'
  BY <1>1, <1>3, EnqueuingFinite, FS_EmptySet, BoundAssumption DEF Room, TypeInv
<1>. QED
  BY <1>1, <1>2, <1>4, IdleOK DEF TypeInv, Facts

LEMMA NextTypes == TypeInv /\ [Next]_vars => TypeInv'
<1>. SUFFICES ASSUME TypeInv, [Next]_vars PROVE TypeInv'
  OBVIOUS
<1>1. ASSUME NEW t \in Taps, NEW k \in Kinds, EnqueueLoad(t, k) PROVE TypeInv'
  BY <1>1, LoadTypes DEF EnqueueLoad, Enqueuing
<1>2. ASSUME NEW t \in Taps, NEW i \in Actions, RetryLoad(t, i) \/ DismissLoad(t, i) PROVE TypeInv'
  BY <1>2, LoadTypes DEF RetryLoad, DismissLoad
<1>3. ASSUME NEW t \in Taps, TapSave(t) PROVE TypeInv'
  BY <1>3, EnqueueSaveTypes, RetrySaveTypes, DismissSaveTypes DEF TapSave
<1>4. ASSUME SyncStep PROVE TypeInv'
  <2>1. CASE Reply
    BY <2>1, ReplyFacts, SyncOnly DEF Reply, TypeInv, Facts, link, server
  <2>. QED
    BY <1>4, <2>1, SyncLoadTypes, DeliverTypes, NetworkErrorTypes, SyncSaveTypes DEF SyncStep
<1>5. ASSUME UNCHANGED vars PROVE TypeInv'
  <2>1. Enqueuing' = Enqueuing
    BY <1>5 DEF vars, Enqueuing
  <2>. QED
    BY <1>5, <2>1 DEF vars, TypeInv, Facts, Room
<1>. QED
  BY <1>1, <1>2, <1>3, <1>4, <1>5, LinkTypes, KillTypes DEF Next

LEMMA AlwaysTypes == Spec => []TypeInv
BY InitTypes, NextTypes, PTL DEF Spec

\* offlineQueue.ts: however taps, replays, reconnections and deaths of the app overlap, the
\* stored queue and every copy of it hold an action once and one action of a kind.
THEOREM TypeCorrect == Spec => []TypeOK
<1>1. ASSUME TypeInv PROVE TypeOK
  <2>1. \A q \in {store, sync.items, sync.todo} \union {tap[t].items : t \in Taps} : IsQueue(q)
    BY <1>1 DEF TypeInv, SyncOK, TapOK, Known
  <2>2. \A t \in Taps : tap[t].op \in {"none", "enqueue", "retry", "dismiss"}
    BY <1>1 DEF TypeInv, Tap
  <2>3. /\ sync.phase \in {"idle", "load", "send", "reply", "save"}
        /\ sync.answer \in {"none", "ok", "rejected", "lost"}
        /\ sync.todo = {} <=> sync.phase \notin {"send", "reply"}
    BY <1>1 DEF TypeInv, SyncOK, Sync
  <2>4. taken \in 0..MaxActions
    BY <1>1, EnqueuingFinite, BoundAssumption DEF TypeInv, Room
  <2>. QED
    BY <1>1, <2>1, <2>2, <2>3, <2>4 DEF TypeOK, TypeInv, Facts
<1>2. TypeInv => TypeOK
  BY <1>1
<1>. QED
  BY <1>2, AlwaysTypes, PTL

-----------------------------------------------------------------------------
(* When no operation overlaps another.                                     *)

NoTaps == \A t \in Taps : tap[t].op = "none"

\* A replay holds a copy of the queue.
Replaying == sync.phase \in {"send", "reply", "save"}

Refuse(i) == [i EXCEPT !.status = "failed"]

\* The queue q, when the actions in done were accepted and those in refused refused.
After(q, done, refused) == (q \ (done \union refused)) \union {Refuse(i) : i \in refused}

\* How the copy of a replay came about, and what it still has to send.
Copied ==
  \E done \in SUBSET PendingOf(store), refused \in SUBSET PendingOf(store) :
    /\ done \cap refused = {}
    /\ \A i \in done : i.id \in accepted
    /\ sync.items = After(store, done, refused)
    /\ sync.todo \subseteq PendingOf(store) \ (done \union refused)

\* The server was never sent an action that a later one had replaced.
NothingOverwritten ==
  /\ \A i \in store : written[i.kind] <= i.id
  /\ \A k \in Kinds : written[k] <= taken

FailedIn(id) == \A i \in store : i.id = id => i.status = "failed"

\* One operation at a time: one tap, or the replay.
OneAtATime ==
  /\ \A t, u \in Taps : tap[t].op # "none" /\ tap[u].op # "none" => t = u
  /\ Replaying => NoTaps
  /\ ~up => sync.phase = "idle" /\ NoTaps /\ ~fetching

\* So a tap saves what it computed from the queue as it is; it retries or dismisses what
\* the server has refused, as does what the banner offers while nothing replays.
TapFresh ==
  /\ \A t \in Taps : tap[t].op # "none" => tap[t].items = store
  /\ \A t \in Taps : tap[t].op \in {"retry", "dismiss"} => FailedIn(tap[t].id)
  /\ sync.phase = "idle" => \A id \in shown : FailedIn(id)

ReplyKnown ==
  sync.phase = "reply" =>
    /\ sync.answer \in {"ok", "rejected"}
    /\ sync.answer = "ok" => Oldest(sync.todo).id \in accepted

\* The inductive invariant when operations do not overlap.
SerialInv ==
  /\ TypeInv
  /\ OneAtATime
  /\ TapFresh
  /\ Replaying => Copied
  /\ ReplyKnown
  /\ NothingOverwritten

LEMMA Refused ==
  ASSUME NEW i \in QueuedAction
  PROVE  /\ Refuse(i) \in QueuedAction /\ Refuse(i).id = i.id /\ Refuse(i).kind = i.kind
         /\ Refuse(i).status = "failed"
BY WithStatus DEF Refuse

\* Nothing came of nothing: each item of the copy is one of the queue.
LEMMA AfterFrom ==
  ASSUME NEW q, IsQueue(q), NEW done, NEW refused \in SUBSET q, NEW j \in After(q, done, refused)
  PROVE  \E i \in q : j.id = i.id /\ j.kind = i.kind
BY Refused DEF After, IsQueue

\* One more answer.
LEMMA AfterAccepted ==
  ASSUME NEW q, IsQueue(q), NEW done \in SUBSET q, NEW refused \in SUBSET q,
         NEW i \in q \ (done \union refused)
  PROVE  Removed(After(q, done, refused), i.id) = After(q, done \union {i}, refused)
<1>1. \A j \in q : j.id = i.id => j = i
  BY DEF IsQueue
<1>2. \A j \in refused : Refuse(j).id # i.id
  BY <1>1, Refused DEF IsQueue
<1>. QED
  BY <1>1, <1>2 DEF Removed, After

LEMMA AfterRefused ==
  ASSUME NEW q, IsQueue(q), NEW done \in SUBSET q, NEW refused \in SUBSET q,
         NEW i \in q \ (done \union refused)
  PROVE  SetStatus(After(q, done, refused), i.id, "failed") = After(q, done, refused \union {i})
<1>1. PICK rest : rest = After(q, done \union {i}, refused)
  OBVIOUS
<1>2. \A j \in rest : j.id # i.id
  BY <1>1, Refused DEF IsQueue, After
<1>3. After(q, done, refused) = rest \union {i}
  BY <1>1 DEF After
<1>4. SetStatus(rest \union {i}, i.id, "failed") = rest \union {Refuse(i)}
  <2>1. PICK f : f = [j \in rest \union {i} |->
                        IF j.id = i.id THEN [j EXCEPT !.status = "failed"] ELSE j]
    OBVIOUS
  <2>2. f[i] = Refuse(i) /\ \A j \in rest : f[j] = j
    BY <1>2, <2>1 DEF Refuse
  <2>3. SetStatus(rest \union {i}, i.id, "failed") = {f[j] : j \in rest \union {i}}
    BY <2>1 DEF SetStatus
  <2>. QED
    BY <2>2, <2>3
<1>5. rest \union {Refuse(i)} = After(q, done, refused \union {i})
  BY <1>1 DEF After
<1>. QED
  BY <1>3, <1>4, <1>5

\* What the banner shows of a queue has failed in it.
LEMMA FailedAre ==
  ASSUME NEW q, IsQueue(q), NEW id \in FailedIds(q), NEW i \in q, i.id = id
  PROVE  i.status = "failed"
BY DEF FailedIds, IsQueue

LEMMA RunSyncPhase ==
  /\ sync.phase = "idle" => RunSync.phase = "load"
  /\ sync.phase # "idle" => RunSync = sync
BY DEF RunSync, Idle

-----------------------------------------------------------------------------
(* Each step keeps SerialInv.                                              *)

\* A tap that has begun is the only operation.
LEMMA Alone ==
  ASSUME SerialInv, NEW t \in Taps, tap[t].op # "none"
  PROVE  /\ up /\ sync.phase \in {"idle", "load"} /\ tap[t].items = store
         /\ \A u \in Taps : u # t => tap[u].op = "none"
<1>1. sync.phase \in {"idle", "load", "send", "reply", "save"}
  BY DEF SerialInv, TypeInv, SyncOK, Sync
<1>. QED
  BY <1>1 DEF SerialInv, OneAtATime, TapFresh, Replaying, NoTaps

LEMMA LoadSerial ==
  ASSUME SerialInv, Serial, TypeInv', NEW t \in Taps, NEW op, NEW x, Load(t, op, x),
         op \in {"retry", "dismiss"} => x \in shown
  PROVE  SerialInv'
<1>1. /\ up /\ Quiet /\ tap' = [tap EXCEPT ![t] = [op |-> op, id |-> x, items |-> store]]
      /\ UNCHANGED <<store, sync, shown, taken, up, fetching, accepted, written>>
  BY DEF Load, link, server
<1>2. /\ tap'[t] = [op |-> op, id |-> x, items |-> store]
      /\ \A u \in Taps : u # t => tap'[u].op = "none"
  BY <1>1 DEF SerialInv, TypeInv, Quiet
<1>3. OneAtATime' /\ sync'.phase = "idle"
  BY <1>1, <1>2 DEF Quiet, OneAtATime, Replaying
<1>4. TapFresh'
  BY <1>1, <1>2 DEF SerialInv, TapFresh, Quiet, FailedIn
<1>. QED
  BY <1>1, <1>3, <1>4 DEF SerialInv, Replaying, ReplyKnown, NothingOverwritten

\* A tap ends when no replay holds a copy.
LEMMA SaveSerial ==
  ASSUME SerialInv, NEW t \in Taps, NEW q, NEW op \in {"enqueue", "retry", "dismiss"},
         Save(t, op, q), sync' \in {sync, RunSync},
         sync'.phase = "idle" => \A id \in shown' : FailedIn(id)',
         TypeInv', NothingOverwritten'
  PROVE  SerialInv'
<1>1. /\ tap[t].op = op /\ tap' = [tap EXCEPT ![t] = NoTap]
      /\ UNCHANGED <<up, fetching, accepted, written>>
  BY DEF Save, link, server
<1>2. \A u \in Taps : tap'[u].op = "none"
  BY <1>1, Alone, IdleTap DEF SerialInv, TypeInv
<1>3. sync'.phase \in {"idle", "load"} /\ up'
  BY <1>1, Alone, RunSyncPhase
<1>. QED
  BY <1>2, <1>3 DEF SerialInv, OneAtATime, TapFresh, NoTaps, Replaying, ReplyKnown

LEMMA EnqueueSaveSerial ==
  ASSUME SerialInv, NEW t \in Taps, EnqueueSave(t)
  PROVE  SerialInv'
<1>1. /\ tap[t].op = "enqueue" /\ store' = Enqueued(tap[t].items, tap[t].id)
      /\ taken' = taken + 1 /\ sync' = RunSync /\ written' = written
  BY DEF EnqueueSave, Save, server
<1>2. /\ tap[t].items = store /\ sync.phase \in {"idle", "load"}
      /\ tap[t].id \in Kinds /\ TypeInv'
  BY <1>1, Alone, EnqueueSaveTypes DEF SerialInv, TypeInv, TapOK
<1>3. taken \in Nat /\ \A k \in Kinds : written[k] \in Nat /\ written[k] <= taken
  BY BoundAssumption DEF SerialInv, TypeInv, Room, Facts, Actions, NothingOverwritten
<1>4. NothingOverwritten'
  <2>1. \A k \in Kinds : written'[k] <= taken'
    BY <1>1, <1>3
  <2>2. ASSUME NEW i \in store' PROVE written'[i.kind] <= i.id
    <3>1. CASE i \in store
      BY <1>1, <3>1 DEF SerialInv, NothingOverwritten
    <3>2. CASE i = [id |-> taken + 1, kind |-> tap[t].id, status |-> "pending"]
      BY <1>1, <1>2, <1>3, <3>2
    <3>. QED
      BY <1>1, <1>2, <3>1, <3>2 DEF Enqueued, WithoutDuplicate
  <2>. QED
    BY <2>1, <2>2 DEF NothingOverwritten
<1>5. sync'.phase # "idle"
  BY <1>1, <1>2, RunSyncPhase
<1>. QED
  BY <1>1, <1>2, <1>4, <1>5, SaveSerial DEF EnqueueSave

\* An item whose status is set keeps its name.
LEMMA StatusFrom ==
  ASSUME NEW q, IsQueue(q), NEW id, NEW s \in {"pending", "failed"}, NEW j \in SetStatus(q, id, s)
  PROVE  \E i \in q : j.id = i.id /\ j.kind = i.kind
<1>1. PICK i \in q : j = IF i.id = id THEN [i EXCEPT !.status = s] ELSE i
  BY DEF SetStatus
<1>. QED
  BY <1>1, WithStatus DEF IsQueue

LEMMA RetrySaveSerial ==
  ASSUME SerialInv, NEW t \in Taps, RetrySave(t)
  PROVE  SerialInv'
<1>1. /\ tap[t].op = "retry" /\ store' = SetStatus(tap[t].items, tap[t].id, "pending")
      /\ sync' = RunSync /\ UNCHANGED <<written, taken>>
  BY DEF RetrySave, Save, server
<1>2. tap[t].items = store /\ sync.phase \in {"idle", "load"} /\ TypeInv' /\ IsQueue(store)
  BY <1>1, Alone, RetrySaveTypes DEF SerialInv, TypeInv, Known
<1>3. NothingOverwritten'
  <2>1. ASSUME NEW j \in store' PROVE \E i \in store : j.id = i.id /\ j.kind = i.kind
    BY <1>1, <1>2, StatusFrom
  <2>. QED
    BY <1>1, <2>1 DEF SerialInv, NothingOverwritten
<1>4. sync'.phase # "idle"
  BY <1>1, <1>2, RunSyncPhase
<1>. QED
  BY <1>1, <1>2, <1>3, <1>4, SaveSerial DEF RetrySave

LEMMA DismissSaveSerial ==
  ASSUME SerialInv, NEW t \in Taps, DismissSave(t)
  PROVE  SerialInv'
<1>1. /\ tap[t].op = "dismiss" /\ store' = Removed(tap[t].items, tap[t].id)
      /\ shown' = FailedIds(store') /\ UNCHANGED <<sync, written, taken>>
  BY DEF DismissSave, Save, server
<1>2. tap[t].items = store /\ TypeInv'
  BY <1>1, Alone, DismissSaveTypes DEF SerialInv
<1>3. NothingOverwritten'
  BY <1>1, <1>2 DEF SerialInv, NothingOverwritten, Removed
<1>4. \A id \in shown' : FailedIn(id)'
  BY <1>1, <1>2, FailedAre DEF FailedIn, TypeInv, Known
<1>. QED
  BY <1>1, <1>2, <1>3, <1>4, SaveSerial DEF DismissSave

\* While a replay runs, the app is up and no tap has begun.
LEMMA SyncAlone ==
  ASSUME SerialInv, Replaying
  PROVE  up /\ NoTaps /\ sync.phase # "idle"
BY DEF SerialInv, OneAtATime, Replaying

\* A step of the replay on its copy.
LEMMA CopySerial ==
  ASSUME SerialInv, TypeInv', NoTaps, up, Replaying', Copied', ReplyKnown',
         NothingOverwritten', UNCHANGED <<store, tap, shown, up, fetching>>
  PROVE  SerialInv'
<1>1. OneAtATime' /\ TapFresh'
  BY DEF OneAtATime, TapFresh, NoTaps, Replaying
<1>. QED
  BY <1>1 DEF SerialInv

LEMMA SyncLoadSerial ==
  ASSUME SerialInv, Serial, SyncLoad
  PROVE  SerialInv'
<1>1. /\ sync.phase = "load" /\ NoTaps
      /\ UNCHANGED <<store, tap, shown, taken, up, fetching, accepted, written>>
  BY DEF SyncLoad, NoTaps, link, server
<1>2. up
  BY <1>1 DEF SerialInv, OneAtATime
<1>3. /\ sync'.items = store /\ sync'.todo = PendingOf(store) /\ sync'.phase \in {"send", "save"}
  BY <1>1 DEF SyncLoad, Idle
<1>4. Copied'
  <2>1. sync'.items = After(store', {}, {})
    BY <1>1, <1>3 DEF After
  <2>2. sync'.todo \subseteq PendingOf(store') \ ({} \union {})
    BY <1>1, <1>3
  <2>. QED
    BY <2>1, <2>2 DEF Copied
<1>. QED
  BY <1>1, <1>2, <1>3, <1>4, SyncLoadTypes, CopySerial
  DEF SerialInv, Replaying, ReplyKnown, NothingOverwritten

\* The action that is sent waits in the stored queue.
LEMMA SentWaits ==
  ASSUME SerialInv, sync.phase \in {"send", "reply"}
  PROVE  /\ Oldest(sync.todo) \in sync.todo /\ Oldest(sync.todo) \in PendingOf(store)
         /\ Oldest(sync.todo) \in store /\ Oldest(sync.todo) \in QueuedAction
<1>1. /\ sync.todo # {} /\ sync.todo \in SUBSET QueuedAction
      /\ sync.todo \subseteq PendingOf(store)
  BY DEF SerialInv, TypeInv, SyncOK, Known, IsQueue, Replaying, Copied
<1>. QED
  BY <1>1, OldestIn DEF PendingOf

LEMMA DeliverSerial ==
  ASSUME SerialInv, NEW ok \in BOOLEAN, Deliver(ok)
  PROVE  SerialInv'
<1>1. PICK i : i = Oldest(sync.todo)
  OBVIOUS
<1>2. /\ sync.phase = "send" /\ UNCHANGED <<store, tap, shown, taken, up, fetching>>
      /\ sync' = [sync EXCEPT !.phase = "reply", !.answer = IF ok THEN "ok" ELSE "rejected"]
      /\ accepted' = IF ok THEN accepted \union {i.id} ELSE accepted
      /\ written' = IF ok THEN [written EXCEPT ![i.kind] = i.id] ELSE written
  BY <1>1 DEF Deliver, link, server
<1>3. /\ sync'.phase = "reply" /\ sync'.items = sync.items /\ sync'.todo = sync.todo
      /\ sync'.answer = IF ok THEN "ok" ELSE "rejected"
  BY <1>2 DEF SerialInv, TypeInv, SyncOK, Sync
<1>4. i \in store /\ i \in QueuedAction
  BY <1>1, <1>2, SentWaits
<1>5. Copied'
  <2>1. PICK done \in SUBSET PendingOf(store), refused \in SUBSET PendingOf(store) :
          /\ done \cap refused = {}
          /\ \A j \in done : j.id \in accepted
          /\ sync.items = After(store, done, refused)
          /\ sync.todo \subseteq PendingOf(store) \ (done \union refused)
    BY <1>2 DEF SerialInv, Copied, Replaying
  <2>2. \A j \in done : j.id \in accepted'
    BY <1>2, <2>1
  <2>. QED
    BY <1>2, <1>3, <2>1, <2>2 DEF Copied
<1>6. NothingOverwritten'
  <2>1. \A j \in store : j.kind = i.kind => j = i
    BY <1>4 DEF SerialInv, TypeInv, Known, IsQueue
  <2>2. i.id <= taken /\ i.id \in Nat /\ i.kind \in Kinds /\ \A j \in store : j.kind \in Kinds
    BY <1>4, BoundAssumption DEF SerialInv, TypeInv, Known, IsQueue, QueuedAction, Actions
  <2>3. \A k \in Kinds : written'[k] = IF ok /\ k = i.kind THEN i.id ELSE written[k]
    BY <1>2, <2>2 DEF SerialInv, TypeInv, Facts
  <2>. QED
    BY <1>2, <2>1, <2>2, <2>3 DEF SerialInv, NothingOverwritten
<1>7. ReplyKnown'
  BY <1>1, <1>2, <1>3 DEF ReplyKnown
<1>8. up /\ NoTaps /\ Replaying'
  BY <1>2, <1>3, SyncAlone DEF Replaying
<1>. QED
  BY <1>2, <1>5, <1>6, <1>7, <1>8, DeliverTypes, CopySerial DEF SerialInv

LEMMA ReplySerial ==
  ASSUME SerialInv, Reply
  PROVE  SerialInv'
<1>1. PICK i : i = Oldest(sync.todo)
  OBVIOUS
<1>2. /\ sync.phase = "reply"
      /\ UNCHANGED <<store, tap, shown, taken, up, fetching, accepted, written>>
  BY DEF Reply, link, server
<1>3. /\ sync'.phase \in {"send", "save"} /\ sync'.todo = sync.todo \ {i}
      /\ sync'.items = IF sync.answer = "ok" THEN Removed(sync.items, i.id)
                       ELSE SetStatus(sync.items, i.id, "failed")
      /\ SyncOK(sync', taken)
  BY <1>1, ReplyFacts DEF SerialInv
<1>4. i \in sync.todo /\ IsQueue(store)
  BY <1>1, <1>2, SentWaits DEF SerialInv, TypeInv, Known
<1>5. Copied'
  <2>1. PICK done \in SUBSET PendingOf(store), refused \in SUBSET PendingOf(store) :
          /\ done \cap refused = {}
          /\ \A j \in done : j.id \in accepted
          /\ sync.items = After(store, done, refused)
          /\ sync.todo \subseteq PendingOf(store) \ (done \union refused)
    BY <1>2 DEF SerialInv, Copied, Replaying
  <2>2. i \in PendingOf(store) \ (done \union refused)
    BY <1>4, <2>1
  <2>3. /\ done \in SUBSET store /\ refused \in SUBSET store
        /\ i \in store \ (done \union refused)
    BY <2>2 DEF PendingOf
  <2>4. CASE sync.answer = "ok"
    <3>1. sync'.items = After(store, done \union {i}, refused)
      BY <1>3, <1>4, <2>1, <2>3, <2>4, AfterAccepted
    <3>2. i.id \in accepted
      BY <1>1, <1>2, <2>4 DEF SerialInv, ReplyKnown
    <3>. QED
      BY <1>2, <1>3, <2>1, <2>2, <3>1, <3>2 DEF Copied
  <2>5. CASE sync.answer # "ok"
    <3>1. sync'.items = After(store, done, refused \union {i})
      BY <1>3, <1>4, <2>1, <2>3, <2>5, AfterRefused
    <3>. QED
      BY <1>2, <1>3, <2>1, <2>2, <3>1 DEF Copied
  <2>. QED
    BY <2>4, <2>5
<1>6. TypeInv'
  BY <1>2, <1>3, SyncOnly DEF Reply, link, SerialInv, TypeInv, Facts
<1>7. up /\ NoTaps /\ Replaying'
  BY <1>2, <1>3, SyncAlone DEF Replaying
<1>. QED
  BY <1>2, <1>3, <1>5, <1>6, <1>7, CopySerial DEF SerialInv, ReplyKnown, NothingOverwritten

LEMMA NetworkErrorSerial ==
  ASSUME SerialInv, NetworkError
  PROVE  SerialInv'
<1>1. /\ sync.phase \in {"send", "reply"}
      /\ UNCHANGED <<store, tap, shown, taken, up, fetching, accepted, written>>
  BY DEF NetworkError, link, server
<1>2. sync'.phase = "save" /\ sync'.items = sync.items /\ sync'.todo = {} /\ TypeInv'
  BY NetworkErrorTypes DEF SerialInv
<1>3. Copied'
  BY <1>1, <1>2 DEF SerialInv, Copied, Replaying
<1>4. up /\ NoTaps /\ Replaying'
  BY <1>1, <1>2, SyncAlone DEF Replaying
<1>. QED
  BY <1>1, <1>2, <1>3, <1>4, CopySerial DEF SerialInv, ReplyKnown, NothingOverwritten

\* What a replay saves came out of the queue.
LEMMA SyncSaveSerial ==
  ASSUME SerialInv, SyncSave
  PROVE  SerialInv'
<1>1. /\ sync.phase = "save" /\ store' = sync.items /\ sync' = Idle /\ shown' = FailedIds(store')
      /\ UNCHANGED <<tap, taken, up, fetching, accepted, written>>
  BY DEF SyncSave, link, server
<1>2. up /\ NoTaps /\ TypeInv' /\ sync'.phase = "idle"
  BY <1>1, SyncAlone, SyncSaveTypes, IdleSync DEF Replaying, SerialInv
<1>3. \A j \in store' : \E i \in store : j.id = i.id /\ j.kind = i.kind
  <2>1. PICK done \in SUBSET PendingOf(store), refused \in SUBSET PendingOf(store) :
          sync.items = After(store, done, refused)
    BY <1>1 DEF SerialInv, Copied, Replaying
  <2>2. refused \in SUBSET store /\ IsQueue(store)
    BY DEF PendingOf, SerialInv, TypeInv, Known
  <2>. QED
    BY <1>1, <2>1, <2>2, AfterFrom
<1>4. NothingOverwritten'
  BY <1>1, <1>3 DEF SerialInv, NothingOverwritten
<1>5. \A id \in shown' : FailedIn(id)'
  BY <1>1, <1>2, FailedAre DEF FailedIn, TypeInv, Known
<1>6. OneAtATime' /\ TapFresh'
  BY <1>1, <1>2, <1>5 DEF OneAtATime, TapFresh, NoTaps
<1>. QED
  BY <1>2, <1>4, <1>6 DEF SerialInv, Replaying, ReplyKnown

\* NetInfo may begin a replay, which then waits for the tap that has begun.
LEMMA LinkSerial ==
  ASSUME SerialInv, LinkChanges \/ NetInfoEvent \/ Fetched
  PROVE  SerialInv'
<1>1. /\ UNCHANGED <<store, tap, shown, taken, up, accepted, written>>
      /\ sync' \in {sync, RunSync} /\ fetching' \in {fetching, FALSE}
  BY DEF LinkChanges, NetInfoEvent, Fetched, phone, server
<1>2. sync' = sync \/ up
  BY DEF LinkChanges, NetInfoEvent, Fetched, phone, SerialInv, OneAtATime
<1>3. sync' = sync \/ (up /\ sync'.phase = "load")
  BY <1>1, <1>2, RunSyncPhase
<1>4. OneAtATime'
  <2>1. \A t, u \in Taps : tap'[t].op # "none" /\ tap'[u].op # "none" => t = u
    BY <1>1 DEF SerialInv, OneAtATime
  <2>2. CASE sync' = sync
    <3>1. Replaying' => Replaying
      BY <2>2 DEF Replaying
    <3>2. Replaying' => \A t \in Taps : tap'[t].op = "none"
      BY <1>1, <3>1 DEF SerialInv, OneAtATime, NoTaps
    <3>3. ~up' => sync'.phase = "idle" /\ ~fetching' /\ \A t \in Taps : tap'[t].op = "none"
      BY <1>1, <2>2 DEF SerialInv, OneAtATime, NoTaps
    <3>. QED
      BY <2>1, <3>2, <3>3 DEF OneAtATime, NoTaps
  <2>3. CASE up /\ sync'.phase = "load"
    BY <1>1, <2>1, <2>3 DEF OneAtATime, Replaying
  <2>. QED
    BY <1>3, <2>2, <2>3
<1>5. TapFresh'
  <2>1. \A t \in Taps : tap'[t].op # "none" => tap'[t].items = store'
    BY <1>1 DEF SerialInv, TapFresh
  <2>2. \A t \in Taps : tap'[t].op \in {"retry", "dismiss"} =>
          \A i \in store' : i.id = tap'[t].id => i.status = "failed"
    BY <1>1 DEF SerialInv, TapFresh, FailedIn
  <2>3. sync'.phase = "idle" =>
          \A id \in shown' : \A i \in store' : i.id = id => i.status = "failed"
    BY <1>1, <1>3 DEF SerialInv, TapFresh, FailedIn
  <2>. QED
    BY <2>1, <2>2, <2>3 DEF TapFresh, FailedIn
<1>. QED
  BY <1>1, <1>3, <1>4, <1>5, LinkTypes DEF SerialInv, Replaying, Copied, ReplyKnown, NothingOverwritten

LEMMA LaunchSerial ==
  ASSUME SerialInv, Launch
  PROVE  SerialInv'
<1>1. /\ ~up /\ up' /\ shown' = FailedIds(store)
      /\ UNCHANGED <<store, tap, sync, taken, accepted, written>>
  BY DEF Launch, server
<1>2. sync.phase = "idle" /\ NoTaps
  BY <1>1 DEF SerialInv, OneAtATime
<1>3. \A id \in shown' : FailedIn(id)'
  BY <1>1, FailedAre DEF FailedIn, SerialInv, TypeInv, Known
<1>. QED
  BY <1>1, <1>2, <1>3, LinkTypes
  DEF SerialInv, OneAtATime, TapFresh, NoTaps, Replaying, ReplyKnown, NothingOverwritten

LEMMA KillSerial ==
  ASSUME SerialInv, Kill
  PROVE  SerialInv'
<1>1. /\ ~fetching' /\ shown' = {} /\ sync' = Idle /\ tap' = [t \in Taps |-> NoTap]
      /\ UNCHANGED <<store, taken, accepted, written>>
  BY DEF Kill, server, Facts
<1>2. sync'.phase = "idle" /\ \A t \in Taps : tap'[t].op = "none"
  BY <1>1, IdleSync, IdleTap
<1>. QED
  BY <1>1, <1>2, KillTypes
  DEF SerialInv, OneAtATime, TapFresh, NoTaps, Replaying, ReplyKnown, NothingOverwritten

LEMMA InitSerial == Init => SerialInv
<1>. SUFFICES ASSUME Init PROVE SerialInv
  OBVIOUS
<1>1. sync.phase = "idle" /\ ~fetching /\ \A t \in Taps : tap[t].op = "none"
  BY IdleSync, IdleTap DEF Init
<1>2. store = {} /\ shown = {} /\ taken = 0 /\ \A k \in Kinds : written[k] = 0
  BY DEF Init
<1>. QED
  BY <1>1, <1>2, InitTypes
  DEF SerialInv, OneAtATime, TapFresh, NoTaps, Replaying, ReplyKnown, NothingOverwritten

LEMMA NextSerial ==
  ASSUME Serial, SerialInv, [Next]_vars
  PROVE  SerialInv'
<1>1. TypeInv'
  BY NextTypes DEF SerialInv
<1>2. ASSUME NEW t \in Taps, NEW k \in Kinds, EnqueueLoad(t, k) PROVE SerialInv'
  BY <1>1, <1>2, LoadSerial DEF EnqueueLoad
<1>3. ASSUME NEW t \in Taps, NEW i \in Actions, RetryLoad(t, i) \/ DismissLoad(t, i)
      PROVE  SerialInv'
  BY <1>1, <1>3, LoadSerial DEF RetryLoad, DismissLoad
<1>4. ASSUME NEW t \in Taps, TapSave(t) PROVE SerialInv'
  BY <1>4, EnqueueSaveSerial, RetrySaveSerial, DismissSaveSerial DEF TapSave
<1>5. ASSUME SyncStep PROVE SerialInv'
  BY <1>5, SyncLoadSerial, DeliverSerial, ReplySerial, NetworkErrorSerial, SyncSaveSerial
  DEF SyncStep
<1>6. ASSUME UNCHANGED vars PROVE SerialInv'
  BY <1>1, <1>6
  DEF vars, SerialInv, OneAtATime, TapFresh, FailedIn, NoTaps, Replaying, Copied, ReplyKnown,
      NothingOverwritten
<1>. QED
  BY <1>2, <1>3, <1>4, <1>5, <1>6, LinkSerial, LaunchSerial, KillSerial DEF Next

-----------------------------------------------------------------------------
(* Each step is a step of the outbox, or none.                             *)

LEMMA PendingSame == Promise!Pending = PendingOf(store)
BY DEF Promise!Pending, PendingOf

LEMMA EnqueueSaveTakes ==
  ASSUME SerialInv, NEW t \in Taps, EnqueueSave(t)
  PROVE  Promise!OutboxNext
<1>1. /\ tap[t].op = "enqueue" /\ store' = Enqueued(tap[t].items, tap[t].id)
      /\ taken' = taken + 1 /\ accepted' = accepted
  BY DEF EnqueueSave, Save, server
<1>2. tap[t].items = store /\ tap[t].id \in Kinds
  BY <1>1, Alone DEF SerialInv, TypeInv, TapOK
<1>3. Promise!Take(tap[t].id)
  BY <1>1, <1>2 DEF Promise!Take, Enqueued, WithoutDuplicate
<1>. QED
  BY <1>2, <1>3 DEF Promise!OutboxNext

\* The action a tap names: at most one is queued, and it has failed.
LEMMA OfTap ==
  ASSUME SerialInv, NEW t \in Taps, tap[t].op \in {"retry", "dismiss"}
  PROVE  \/ \A j \in store : j.id # tap[t].id
         \/ \E i \in Promise!Failed : /\ i \in store /\ i.id = tap[t].id
                                      /\ \A j \in store : j.id = tap[t].id => j = i
<1>1. \A i \in store : i.id = tap[t].id => i.status = "failed"
  BY DEF SerialInv, TapFresh, FailedIn
<1>2. \A i \in store : i.status = "failed" => i \in Promise!Failed
  BY DEF Promise!Failed, Promise!Pending
<1>3. \A i, j \in store : i.id = j.id => i = j
  BY DEF SerialInv, TypeInv, Known, IsQueue
<1>. QED
  BY <1>1, <1>2, <1>3

LEMMA RetrySaveRetries ==
  ASSUME SerialInv, NEW t \in Taps, RetrySave(t)
  PROVE  [Promise!OutboxNext]_(Promise!outboxVars)
<1>1. /\ tap[t].op = "retry" /\ store' = SetStatus(tap[t].items, tap[t].id, "pending")
      /\ UNCHANGED <<accepted, taken>>
  BY DEF RetrySave, Save, server
<1>2. store' = SetStatus(store, tap[t].id, "pending")
  BY <1>1, Alone
<1>3. CASE \A j \in store : j.id # tap[t].id
  <2>1. store' = store
    BY <1>2, <1>3 DEF SetStatus
  <2>. QED
    BY <1>1, <2>1 DEF Promise!outboxVars
<1>4. ASSUME NEW i \in Promise!Failed, i \in store, i.id = tap[t].id,
             \A j \in store : j.id = tap[t].id => j = i
      PROVE  Promise!OutboxNext
  <2>1. store' = (store \ {i}) \union {[i EXCEPT !.status = "pending"]}
    BY <1>2, <1>4 DEF SetStatus
  <2>2. Promise!Retry(i)
    BY <1>1, <2>1 DEF Promise!Retry
  <2>. QED
    BY <2>2 DEF Promise!OutboxNext
<1>. QED
  BY <1>1, <1>3, <1>4, OfTap

LEMMA DismissSaveDiscards ==
  ASSUME SerialInv, NEW t \in Taps, DismissSave(t)
  PROVE  [Promise!OutboxNext]_(Promise!outboxVars)
<1>1. /\ tap[t].op = "dismiss" /\ store' = Removed(tap[t].items, tap[t].id)
      /\ UNCHANGED <<accepted, taken>>
  BY DEF DismissSave, Save, server
<1>2. store' = Removed(store, tap[t].id)
  BY <1>1, Alone
<1>3. CASE \A j \in store : j.id # tap[t].id
  <2>1. store' = store
    BY <1>2, <1>3 DEF Removed
  <2>. QED
    BY <1>1, <2>1 DEF Promise!outboxVars
<1>4. ASSUME NEW i \in Promise!Failed, i \in store, i.id = tap[t].id,
             \A j \in store : j.id = tap[t].id => j = i
      PROVE  Promise!OutboxNext
  <2>1. store' = store \ {i}
    BY <1>2, <1>4 DEF Removed
  <2>2. Promise!Discard(i)
    BY <1>1, <2>1 DEF Promise!Discard
  <2>. QED
    BY <2>2 DEF Promise!OutboxNext
<1>. QED
  BY <1>1, <1>3, <1>4, OfTap

LEMMA DeliverAccepts ==
  ASSUME SerialInv, NEW ok \in BOOLEAN, Deliver(ok)
  PROVE  [Promise!OutboxNext]_(Promise!outboxVars)
<1>1. PICK i : i = Oldest(sync.todo)
  OBVIOUS
<1>2. /\ sync.phase = "send" /\ UNCHANGED <<store, taken>>
      /\ accepted' = IF ok THEN accepted \union {i.id} ELSE accepted
  BY <1>1 DEF Deliver, server
<1>3. i \in Promise!Pending
  BY <1>1, <1>2, SentWaits, PendingSame
<1>4. CASE ok
  <2>1. Promise!Accept(i)
    BY <1>2, <1>4 DEF Promise!Accept
  <2>. QED
    BY <1>3, <2>1 DEF Promise!OutboxNext
<1>5. CASE ~ok
  BY <1>2, <1>5 DEF Promise!outboxVars
<1>. QED
  BY <1>4, <1>5

LEMMA SyncSaveSettles ==
  ASSUME SerialInv, SyncSave
  PROVE  Promise!OutboxNext
<1>1. sync.phase = "save" /\ store' = sync.items /\ UNCHANGED <<accepted, taken>>
  BY DEF SyncSave, server
<1>2. PICK done \in SUBSET PendingOf(store), refused \in SUBSET PendingOf(store) :
        /\ done \cap refused = {}
        /\ \A i \in done : i.id \in accepted
        /\ sync.items = After(store, done, refused)
  BY <1>1 DEF SerialInv, Copied, Replaying
<1>3. Promise!Settle(done, refused)
  BY <1>1, <1>2 DEF Promise!Settle, After, Refuse
<1>. QED
  BY <1>2, <1>3, PendingSame DEF Promise!OutboxNext

LEMMA NextOutbox ==
  ASSUME SerialInv, [Next]_vars
  PROVE  [Promise!OutboxNext]_(Promise!outboxVars)
<1>1. ASSUME NEW t \in Taps, TapSave(t) PROVE [Promise!OutboxNext]_(Promise!outboxVars)
  BY <1>1, EnqueueSaveTakes, RetrySaveRetries, DismissSaveDiscards DEF TapSave
<1>2. ASSUME SyncLoad \/ Reply \/ NetworkError PROVE UNCHANGED Promise!outboxVars
  BY <1>2 DEF SyncLoad, Reply, NetworkError, server, Promise!outboxVars
<1>3. ASSUME NEW t \in Taps, NEW op, NEW x, Load(t, op, x) PROVE UNCHANGED Promise!outboxVars
  BY <1>3 DEF Load, server, Promise!outboxVars
<1>4. ASSUME \E t \in Taps, k \in Kinds : EnqueueLoad(t, k) PROVE UNCHANGED Promise!outboxVars
  BY <1>3, <1>4 DEF EnqueueLoad
<1>5. ASSUME \E t \in Taps, i \in Actions : RetryLoad(t, i) \/ DismissLoad(t, i)
      PROVE  UNCHANGED Promise!outboxVars
  BY <1>3, <1>5 DEF RetryLoad, DismissLoad
<1>6. ASSUME LinkChanges \/ NetInfoEvent \/ Fetched \/ Launch \/ Kill
      PROVE  UNCHANGED Promise!outboxVars
  BY <1>6 DEF LinkChanges, NetInfoEvent, Fetched, Launch, Kill, phone, server, Promise!outboxVars
<1>7. ASSUME UNCHANGED vars PROVE UNCHANGED Promise!outboxVars
  BY <1>7 DEF vars, Promise!outboxVars
<1>. QED
  BY <1>1, <1>2, <1>4, <1>5, <1>6, <1>7, DeliverAccepts, SyncSaveSettles DEF Next, SyncStep

LEMMA AlwaysSerial ==
  ASSUME Serial
  PROVE  Spec => []SerialInv
<1>1. Init => SerialInv
  BY InitSerial
<1>2. SerialInv /\ [Next]_vars => SerialInv'
  BY NextSerial
<1>. QED
  BY <1>1, <1>2, PTL DEF Spec

\* offlineQueue.ts: while operations do not overlap, an action leaves the stored queue only
\* when the server has accepted it, when the technician discards it after a refusal, or
\* when a newer one of its kind replaces it, at whatever step the app is killed, the link
\* drops or an answer is lost.
THEOREM ImplementsOutbox ==
  ASSUME Serial
  PROVE  Spec => OutboxSpec
<1>1. Init => Promise!OutboxInit
  BY DEF Init, Promise!OutboxInit
<1>2. SerialInv /\ [Next]_vars => [Promise!OutboxNext]_(Promise!outboxVars)
  BY NextOutbox
<1>. QED
  BY <1>1, <1>2, AlwaysSerial, PTL DEF Spec, OutboxSpec, Promise!OutboxSpec

\* Only a delivery writes at the server: an action whose kind was last written by an older
\* one, or by itself when its answer was lost.
LEMMA WritesNewer ==
  ASSUME SerialInv, [Next]_vars, NEW k \in Kinds
  PROVE  written'[k] >= written[k]
<1>1. written[k] \in Nat
  BY BoundAssumption DEF SerialInv, TypeInv, Facts, Actions
<1>2. ASSUME NEW ok \in BOOLEAN, Deliver(ok) PROVE written'[k] >= written[k]
  <2>1. PICK i : i = Oldest(sync.todo)
    OBVIOUS
  <2>2. written' \in {written, [written EXCEPT ![i.kind] = i.id]} /\ sync.phase = "send"
    BY <1>2, <2>1 DEF Deliver, server
  <2>3. i \in store /\ i.id \in Nat
    BY <2>1, <2>2, SentWaits, BoundAssumption DEF QueuedAction, Actions
  <2>4. written[i.kind] <= i.id /\ \A l \in Kinds : written[l] \in Nat
    BY <2>3, BoundAssumption DEF SerialInv, NothingOverwritten, TypeInv, Facts, Actions
  <2>5. written'[k] = written[k] \/ (k = i.kind /\ written'[k] = i.id)
    BY <2>2 DEF SerialInv, TypeInv, Facts
  <2>. QED
    BY <1>1, <2>3, <2>4, <2>5
<1>3. (\E ok \in BOOLEAN : Deliver(ok)) \/ written' = written
  BY DEF Next, vars, EnqueueLoad, RetryLoad, DismissLoad, Load, TapSave, EnqueueSave, RetrySave,
         DismissSave, Save, SyncStep, SyncLoad, Reply, NetworkError, SyncSave, LinkChanges,
         NetInfoEvent, Fetched, Launch, Kill, server
<1>. QED
  BY <1>1, <1>2, <1>3

\* offlineQueue.ts "last write wins" among queued actions: while operations do not overlap,
\* no retry of a failed item, no action sent again because its answer was lost, and no
\* replay broken off writes an action over a later one of its kind.
THEOREM NewestWins ==
  ASSUME Serial
  PROVE  Spec => LastQueuedWins
<1>1. SerialInv /\ [Next]_vars => [\A k \in Kinds : written'[k] >= written[k]]_vars
  BY WritesNewer
<1>. QED
  BY <1>1, AlwaysSerial, PTL DEF Spec, LastQueuedWins
===============================================================================
