CONSTANTS
  d1 = d1
  d2 = d2
  d3 = d3
  d4 = d4
  d5 = d5
  c1 = c1
  c2 = c2
  Dartas = {d1, d2, d4, d5}
  Callers = {c1}
  Ops = {"Reserve", "DirectRegister"}
  Tenant <- TwoTenants
  Register <- WardAndTown
  WardRegisters = {"ward"}
  Faulty = TRUE
SPECIFICATION FairSpec
INVARIANTS NumbersAreUnique NumbersHaveNoGaps
PROPERTIES SerialSpec EveryCallAnswered
