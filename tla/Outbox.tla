-------------------------------- MODULE Outbox --------------------------------
(***************************************************************************)
(* What the phone promises a technician who acts without a signal: an      *)
(* action that was queued stays queued until the server has accepted it,   *)
(* until the server has refused it and the technician discards it, or      *)
(* until a newer action of the same kind takes its place.                  *)
(*                                                                         *)
(* A kind is a type of action for one appointment.                         *)
(***************************************************************************)
EXTENDS Naturals

CONSTANTS Kinds, MaxActions

VARIABLES
  queue,      (* the queued actions                                        *)
  accepted,   (* ids of the actions the server has accepted                *)
  taken       (* how many actions were queued so far; the last one's id    *)

outboxVars == <<queue, accepted, taken>>

Actions == 1..MaxActions

Item == [id : Actions, kind : Kinds, status : {"pending", "failed"}]

OutboxInit == queue = {} /\ accepted = {} /\ taken = 0

Pending == {i \in queue : i.status = "pending"}

Failed == queue \ Pending

Take(k) ==
  /\ taken' = taken + 1
  /\ queue' = {i \in queue : i.kind # k}
                \union {[id |-> taken + 1, kind |-> k, status |-> "pending"]}
  /\ UNCHANGED accepted

Accept(i) ==
  /\ accepted' = accepted \union {i.id}
  /\ UNCHANGED <<queue, taken>>

\* One run over the queue: done were accepted, refused were answered with an error.
Settle(done, refused) ==
  /\ \A i \in done : i.id \in accepted
  /\ done \cap refused = {}
  /\ queue' = (queue \ (done \union refused))
                \union {[i EXCEPT !.status = "failed"] : i \in refused}
  /\ UNCHANGED <<accepted, taken>>

Retry(i) ==
  /\ queue' = (queue \ {i}) \union {[i EXCEPT !.status = "pending"]}
  /\ UNCHANGED <<accepted, taken>>

Discard(i) ==
  /\ queue' = queue \ {i}
  /\ UNCHANGED <<accepted, taken>>

OutboxNext ==
  \/ \E k \in Kinds : Take(k)
  \/ \E i \in Pending : Accept(i)
  \/ \E done, refused \in SUBSET Pending : Settle(done, refused)
  \/ \E i \in Failed : Retry(i) \/ Discard(i)

OutboxSpec == OutboxInit /\ [][OutboxNext]_outboxVars
===============================================================================
