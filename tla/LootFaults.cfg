SPECIFICATION Spec
CONSTANTS
  p1 = p1
  d1 = d1
  d2 = d2
  u1 = u1
  u2 = u2
  a1 = a1
  Players = {p1}
  Drops = {d1, d2}
  Jobs = {u1, u2, a1}
  Updaters = {u1, u2}
  Admins = {a1}
  Nobody = Nobody
  MaxMonth = 2
  MaxFaults = 1
SYMMETRY LootSymmetry
INVARIANTS
  TypeOK
  CountedOnce
  ExactWhenQuiet
PROPERTIES
  ForgottenStaysForgotten
CHECK_DEADLOCK FALSE
