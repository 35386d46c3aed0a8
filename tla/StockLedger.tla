----------------------------- MODULE StockLedger -----------------------------
(***************************************************************************)
(* What the spare-part store promises its callers about a part's stock     *)
(* rows: units come in, are set aside out of what is available, are freed, *)
(* and are used up; used units move to the damage location and no unit is  *)
(* ever set aside twice.  One step of the store may touch several parts    *)
(* (a QC approval), each of them by one of these moves.                    *)
(***************************************************************************)
EXTENDS Naturals

CONSTANT Parts

VARIABLES onHand, quantityReserved, damage

vars == <<onHand, quantityReserved, damage>>

Init ==
  /\ onHand = [p \in Parts |-> 0]
  /\ quantityReserved = [p \in Parts |-> 0]
  /\ damage = [p \in Parts |-> 0]

Unchanged(p) ==
  /\ onHand'[p] = onHand[p]
  /\ quantityReserved'[p] = quantityReserved[p]
  /\ damage'[p] = damage[p]

\* A receipt or a return: more on the shelf, no more set aside than before.
ComeIn(p) ==
  /\ onHand'[p] >= onHand[p]
  /\ quantityReserved'[p] <= quantityReserved[p]
  /\ damage'[p] = damage[p]

\* Set units aside, out of those that are available.
SetAside(p) ==
  /\ quantityReserved'[p] >= quantityReserved[p]
  /\ quantityReserved'[p] <= onHand[p]
  /\ onHand'[p] = onHand[p]
  /\ damage'[p] = damage[p]

\* Use units up: each leaves the shelf, reaches the damage location and is
\* no longer set aside.
UseUp(p) ==
  /\ onHand'[p] <= onHand[p]
  /\ onHand'[p] + damage'[p] = onHand[p] + damage[p]
  /\ quantityReserved'[p] <= quantityReserved[p]
  /\ quantityReserved'[p] <= onHand'[p]

Move(p) == Unchanged(p) \/ ComeIn(p) \/ SetAside(p) \/ UseUp(p)

Next == \A p \in Parts : Move(p)

Spec == Init /\ [][Next]_vars
=============================================================================
