----------------------------- MODULE OfflineQueue -----------------------------
(***************************************************************************)
(* The technician app's offline queue: offlineQueue.ts (the queue in       *)
(* AsyncStorage and its replay) and OfflineQueueContext.tsx (when a replay *)
(* starts).  AsyncStorage has no transactions: an operation loads the      *)
(* whole queue, and a later step saves the whole queue it computed.        *)
(*                                                                         *)
(* The link to the server may drop and come back at any time, the          *)
(* operating system may kill the app at any time; the stored queue         *)
(* survives.  A request may be handled by the server and its answer lost.  *)
(*                                                                         *)
(* A kind stands for {type, appointmentId}; payloads, labels and error     *)
(* messages are left out, and the id stands for the client timestamp too.  *)
(* A stored list is the set of its items: the replay sorts what it sends   *)
(* by time stamp, so that an item's place in the list decides nothing.     *)
(***************************************************************************)
EXTENDS Naturals, FiniteSets

CONSTANTS
  Kinds,       (* {type, appointmentId} pairs                              *)
  Taps,        (* slots for queue operations of the screens in flight      *)
  Serial,      (* TRUE: no operation overlaps another or a replay          *)
  MaxActions   (* bound: actions ever queued                               *)

ASSUME KindsAssumption  == Kinds # {}
ASSUME SerialAssumption == Serial \in BOOLEAN
ASSUME BoundAssumption  == MaxActions \in Nat
ASSUME TapsAssumption   == IsFiniteSet(Taps)

VARIABLES
  store,      (* AsyncStorage['@jackys/offline-queue']                     *)
  up,         (* is the app running?                                       *)
  online,     (* can the server be reached?                                *)
  isOnline,   (* what the provider was last told of that                   *)
  fetching,   (* the NetInfo.fetch() of the mount has not resolved         *)
  shown,      (* ids of the failed items on the banner                     *)
  tap,        (* the screens' operations: enqueue, retry, dismiss          *)
  sync,       (* the replay: its phase, its copy of the queue, what it     *)
              (* still has to send and the answer to the request in flight *)
  accepted,   (* ids of the actions the server has accepted                *)
  written,    (* the last accepted action of each kind (0: none)           *)
  taken       (* actions queued so far                                     *)

phone  == <<store, tap, sync, shown, taken>>
link   == <<up, online, isOnline, fetching>>
server == <<accepted, written>>
vars   == <<store, up, online, isOnline, fetching, shown, tap, sync, accepted,
            written, taken>>

Actions == 1..MaxActions

QueuedAction == [id : Actions, kind : Kinds, status : {"pending", "failed"}]

Idle   == [phase |-> "idle", items |-> {}, todo |-> {}, answer |-> "none"]
NoTap  == [op |-> "none", id |-> 0, items |-> {}]

Init ==
  /\ store = {}
  /\ up = FALSE
  /\ online \in BOOLEAN
  /\ isOnline = TRUE
  /\ fetching = FALSE
  /\ shown = {}
  /\ tap = [t \in Taps |-> NoTap]
  /\ sync = Idle
  /\ accepted = {}
  /\ written = [k \in Kinds |-> 0]
  /\ taken = 0

-----------------------------------------------------------------------------
(***************************************************************************)
(* The queue.                                                              *)
(***************************************************************************)

PendingOf(q) == {i \in q : i.status = "pending"}
FailedIds(q) == {i.id : i \in {j \in q : j.status = "failed"}}

SetStatus(q, id, s) == {IF i.id = id THEN [i EXCEPT !.status = s] ELSE i : i \in q}

\* Fault: a failed item is not replaced by a newer action of its kind.
WithoutDuplicateKeepsFailed(q, k) == {i \in q : i.kind # k \/ i.status = "failed"}

WithoutDuplicate(q, k) == {i \in q : i.kind # k}

Enqueued(q, k) ==
  WithoutDuplicate(q, k) \union {[id |-> taken + 1, kind |-> k, status |-> "pending"]}

Removed(q, id) == {i \in q : i.id # id}

-----------------------------------------------------------------------------
(***************************************************************************)
(* Taps on the screens and on the banner.  Each loads the queue, and saves *)
(* it; enqueue and retry then start a replay unless one is running         *)
(* (syncingRef).                                                           *)
(***************************************************************************)

RunSync == IF sync.phase = "idle" THEN [Idle EXCEPT !.phase = "load"] ELSE sync

Quiet == sync.phase = "idle" /\ \A t \in Taps : tap[t].op = "none"

Load(t, op, x) ==
  /\ up
  /\ tap[t].op = "none"
  /\ Serial => Quiet
  /\ tap' = [tap EXCEPT ![t] = [op |-> op, id |-> x, items |-> store]]
  /\ UNCHANGED <<store, sync, shown, taken, link, server>>

Save(t, op, q) ==
  /\ tap[t].op = op
  /\ store' = q
  /\ tap' = [tap EXCEPT ![t] = NoTap]
  /\ UNCHANGED <<link, server>>

\* The appointment screen queues an action when it believes to be offline; online
\* it sends the action itself and the queue is not involved.
EnqueueLoad(t, k) ==
  /\ ~isOnline
  /\ taken + Cardinality({u \in Taps : tap[u].op = "enqueue"}) < MaxActions
  /\ Load(t, "enqueue", k)

EnqueueSave(t) ==
  /\ Save(t, "enqueue", Enqueued(tap[t].items, tap[t].id))
  /\ taken' = taken + 1
  /\ sync' = RunSync
  /\ UNCHANGED shown

RetryLoad(t, i) == i \in shown /\ Load(t, "retry", i)

RetrySave(t) ==
  /\ Save(t, "retry", SetStatus(tap[t].items, tap[t].id, "pending"))
  /\ sync' = RunSync
  /\ UNCHANGED <<shown, taken>>

DismissLoad(t, i) == i \in shown /\ Load(t, "dismiss", i)

DismissSave(t) ==
  /\ Save(t, "dismiss", Removed(tap[t].items, tap[t].id))
  /\ shown' = FailedIds(store')
  /\ UNCHANGED <<sync, taken>>

-----------------------------------------------------------------------------
(***************************************************************************)
(* The replay, processQueue: load, send the pending actions one by one     *)
(* (oldest first), save what is left.                                      *)
(***************************************************************************)

Oldest(q) == CHOOSE i \in q : \A j \in q : i.id <= j.id

SyncLoad ==
  /\ sync.phase = "load"
  /\ Serial => \A t \in Taps : tap[t].op = "none"
  /\ sync' = IF PendingOf(store) = {}
             THEN [Idle EXCEPT !.phase = "save", !.items = store]
             ELSE [Idle EXCEPT !.phase = "send", !.items = store, !.todo = PendingOf(store)]
  /\ UNCHANGED <<store, tap, shown, taken, link, server>>

\* The request reaches the server, which accepts or refuses it.
Deliver(ok) ==
  LET i == Oldest(sync.todo) IN
  /\ sync.phase = "send"
  /\ online
  /\ sync' = [sync EXCEPT !.phase = "reply", !.answer = IF ok THEN "ok" ELSE "rejected"]
  /\ IF ok THEN /\ accepted' = accepted \union {i.id}
                /\ written' = [written EXCEPT ![i.kind] = i.id]
           ELSE UNCHANGED server
  /\ UNCHANGED <<store, tap, shown, taken, link>>

Next1(s) == IF s.todo = {} THEN [s EXCEPT !.phase = "save"] ELSE [s EXCEPT !.phase = "send"]

\* Fault: an answer with an error ends the run as a network failure does.
AnsweredBreaks(s) ==
  IF s.answer = "ok"
  THEN Next1([s EXCEPT !.items = Removed(@, Oldest(s.todo).id), !.todo = @ \ {Oldest(@)}])
  ELSE [s EXCEPT !.todo = {}, !.phase = "save"]

\* Fault: an action the server refused leaves the queue like an accepted one.
AnsweredDrops(s) ==
  Next1([s EXCEPT !.items = Removed(@, Oldest(s.todo).id), !.todo = @ \ {Oldest(@)}])

Answered(s) ==
  LET id == Oldest(s.todo).id IN
  Next1([s EXCEPT !.items = IF s.answer = "ok" THEN Removed(@, id)
                                               ELSE SetStatus(@, id, "failed"),
                  !.todo  = @ \ {Oldest(@)}])

Reply ==
  /\ sync.phase = "reply"
  /\ online
  /\ sync' = [Answered(sync) EXCEPT !.answer = "none"]
  /\ UNCHANGED <<store, tap, shown, taken, link, server>>

\* No answer: this action and those behind it stay as they are.
NetworkError ==
  /\ sync.phase \in {"send", "reply"}
  /\ ~online
  /\ sync' = [sync EXCEPT !.phase = "save", !.todo = {}, !.answer = "lost"]
  /\ UNCHANGED <<store, tap, shown, taken, link, server>>

\* saveQueue, then runSync's finally: syncingRef is cleared, the banner refreshed.
SyncSave ==
  /\ sync.phase = "save"
  /\ store' = sync.items
  /\ sync' = Idle
  /\ shown' = FailedIds(sync.items)
  /\ UNCHANGED <<tap, taken, link, server>>

-----------------------------------------------------------------------------
(***************************************************************************)
(* The link, NetInfo, and the app's life.                                  *)
(***************************************************************************)

LinkChanges ==
  /\ online' = ~online
  /\ UNCHANGED <<up, isOnline, fetching, phone, server>>

\* The listener: a replay starts when the provider learns it is online again.
NetInfoEvent ==
  /\ up
  /\ isOnline # online
  /\ isOnline' = online
  /\ sync' = IF online THEN RunSync ELSE sync
  /\ UNCHANGED <<up, online, fetching, store, tap, shown, taken, server>>

\* NetInfo.fetch() of the mount resolves.
Fetched ==
  /\ fetching
  /\ fetching' = FALSE
  /\ isOnline' = online
  /\ sync' = IF online THEN RunSync ELSE sync
  /\ UNCHANGED <<up, online, store, tap, shown, taken, server>>

Launch ==
  /\ ~up
  /\ up' = TRUE
  /\ fetching' = TRUE
  /\ isOnline' = TRUE
  /\ shown' = FailedIds(store)
  /\ UNCHANGED <<online, store, tap, sync, taken, server>>

\* The app is killed: what it held in memory is gone.
Kill ==
  /\ up
  /\ up' = FALSE
  /\ fetching' = FALSE
  /\ isOnline' = TRUE
  /\ shown' = {}
  /\ tap' = [t \in Taps |-> NoTap]
  /\ sync' = Idle
  /\ UNCHANGED <<online, store, taken, server>>

TapSave(t) == EnqueueSave(t) \/ RetrySave(t) \/ DismissSave(t)

SyncStep == SyncLoad \/ (\E ok \in BOOLEAN : Deliver(ok)) \/ Reply \/ NetworkError \/ SyncSave

Next ==
  \/ \E t \in Taps, k \in Kinds : EnqueueLoad(t, k)
  \/ \E t \in Taps, i \in Actions : RetryLoad(t, i) \/ DismissLoad(t, i)
  \/ \E t \in Taps : TapSave(t)
  \/ SyncStep
  \/ LinkChanges \/ NetInfoEvent \/ Fetched \/ Launch \/ Kill

(***************************************************************************)
(* The JavaScript event loop runs what it has begun: the steps of a        *)
(* replay, the second half of a tap, the NetInfo callbacks.  Nothing is    *)
(* assumed of the technician, the link, the server's answers or the        *)
(* operating system.                                                       *)
(***************************************************************************)
Fairness == /\ WF_vars(SyncStep)
            /\ \A t \in Taps : WF_vars(TapSave(t))
            /\ WF_vars(Fetched)

Spec == Init /\ [][Next]_vars /\ Fairness

-----------------------------------------------------------------------------
(***************************************************************************)
(* Properties.                                                             *)
(***************************************************************************)

\* "Enqueuing dedupes on {type, appointmentId}" (offlineQueue.ts:26), in the store and in
\* every copy of it that is about to be saved: a queue never has two actions of a kind,
\* and an action only once.
IsQueue(q) ==
  /\ q \subseteq QueuedAction
  /\ \A i, j \in q : i.id = j.id \/ i.kind = j.kind => i = j

TypeOK ==
  /\ \A q \in {store, sync.items, sync.todo} \union {tap[t].items : t \in Taps} : IsQueue(q)
  /\ sync.phase \in {"idle", "load", "send", "reply", "save"}
  /\ sync.todo = {} <=> sync.phase \notin {"send", "reply"}
  /\ sync.answer \in {"none", "ok", "rejected", "lost"}
  /\ \A t \in Taps : tap[t].op \in {"none", "enqueue", "retry", "dismiss"}
  /\ {up, online, isOnline, fetching} \subseteq BOOLEAN
  /\ shown \subseteq Actions
  /\ accepted \subseteq Actions
  /\ written \in [Kinds -> {0} \union Actions]
  /\ taken \in 0..MaxActions

\* The stored queue keeps the outbox's promise (Outbox): whatever is killed or cut off,
\* an action leaves it only accepted, discarded after a refusal, or replaced.
Promise == INSTANCE Outbox WITH queue <- store

OutboxSpec == Promise!OutboxSpec

\* "Last write wins" among queued actions: the server never has an action of a kind
\* written over a later one, in spite of failed items retried long after, of answers
\* lost and of replays broken off.
LastQueuedWins == [][\A k \in Kinds : written'[k] >= written[k]]_vars

\* A replay that has an action before it gets it answered, unless the link drops or the
\* app is killed: neither a refusal of an earlier action nor the queue operations
\* between loads and saves leave it pending.
Waiting(a) == \E i \in PendingOf(store) : i.id = a

Scheduled(a) ==
  \/ \E i \in sync.todo : i.id = a
  \/ Waiting(a) /\ sync.phase = "load"
  \/ Waiting(a) /\ sync.phase = "idle" /\ fetching

ReplayFinishes == \A a \in Actions : Scheduled(a) ~> (~Waiting(a) \/ ~online \/ ~up)

\* OfflineQueueContext.tsx:119-120 "a sync attempted while genuinely offline is
\* harmless: processQueue() just leaves the item pending on a network failure".  A replay
\* that a network failure ended saves a queue in which no waiting action is missing.
OfflineSyncIsHarmless ==
  [][sync.answer = "lost" /\ sync'.phase = "idle" /\ up' =>
       \A a \in Actions : Waiting(a) /\ a \notin accepted => Waiting(a)']_vars
===============================================================================
