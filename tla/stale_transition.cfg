CONSTANTS
  d1 = d1
  d2 = d2
  d3 = d3
  d4 = d4
  d5 = d5
  c1 = c1
  c2 = c2
  Dartas = {d1}
  Callers = {c1, c2}
  Ops = {"Submit", "Reserve"}
  Tenant <- OneTenant
  Register <- OneWard
  WardRegisters = {"ward"}
  Faulty = FALSE
SPECIFICATION Spec
PROPERTY WritesFollowGraph
