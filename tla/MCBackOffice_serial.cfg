CONSTANTS
  Slots = {s1}
  Serial = TRUE
  Staff = {u1, u2, u3}
  None = None
  Notes = {n1}
  Claims = {c1, c2}
  Records = {d1}
  Spares = {p1, p2}
  Contracts <- SmallContracts
  Periods = {first}
  VisitsDue = 2
  Subjects = {"debit notes", "warranty claims", "dismantling", "contracts"}
SYMMETRY StaffSymmetry
SPECIFICATION Spec
INVARIANTS TypeOK ClaimedOnce RenewedIsCarriedOn
PROPERTIES PostedOnceSpec
CHECK_DEADLOCK FALSE
