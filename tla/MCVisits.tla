------------------------------- MODULE MCVisits -------------------------------
(***************************************************************************)
(* Small instances of Visits for TLC.                                      *)
(***************************************************************************)
EXTENDS Visits, TLC

CONSTANTS v1, v2

\* One appointment that is a repair or a contract's visit, or two installations.
SmallPlans == {v1 :> "contract" @@ v2 :> "none", v1 :> "repair" @@ v2 :> "none"}
              \union {[v \in Visits |-> "installation"]}

\* Technicians are interchangeable: no property names one of them.
TechnicianSymmetry == Permutations(Technicians)

===============================================================================
