CONSTANTS
  d1 = d1
  d2 = d2
  d3 = d3
  d4 = d4
  d5 = d5
  c1 = c1
  c2 = c2
  Dartas = {d1, d2}
  Callers = {c1, c2}
  Ops <- MixedOps
  Tenant <- OneTenant
  Register <- OneWard
  WardRegisters = {"ward"}
  Faulty = TRUE
SYMMETRY RegisterSymmetry
SPECIFICATION Spec
INVARIANTS TypeOK RegisteredHasNumber WardNumbersUnique
