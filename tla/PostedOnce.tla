------------------------------ MODULE PostedOnce ------------------------------
(***************************************************************************)
(* What the finance desk is promised of a document that goes into the      *)
(* books: it takes effect once, and then it is posted to the general       *)
(* ledger at most once.  Whether it is posted at all is not promised: the  *)
(* posting is a write of its own, after the effect.                        *)
(***************************************************************************)
EXTENDS Naturals

CONSTANT Documents

VARIABLES
  effect,      (* how often a document took effect                         *)
  posted       (* how often it was posted                                  *)

PostedOnceInit ==
  /\ effect = [d \in Documents |-> 0]
  /\ posted = [d \in Documents |-> 0]

TakeEffect(d) ==
  /\ effect[d] = 0
  /\ effect' = [effect EXCEPT ![d] = 1]
  /\ UNCHANGED posted

Post(d) ==
  /\ effect[d] = 1 /\ posted[d] = 0
  /\ posted' = [posted EXCEPT ![d] = 1]
  /\ UNCHANGED effect

PostedOnceNext == \E d \in Documents : TakeEffect(d) \/ Post(d)

PostedOnceSpec == PostedOnceInit /\ [][PostedOnceNext]_<<effect, posted>>
===============================================================================
