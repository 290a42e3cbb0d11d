CONSTANTS
  c1 = c1
  c2 = c2
  Callers = {c1, c2}
  Names = {"u1", "u2"}
  Period = 5
  Lifetime = 1
SPECIFICATION FairSpec
INVARIANTS TypeOK TokenIsFresh
PROPERTIES CallsInLifetimeSucceed LapsesEnd
