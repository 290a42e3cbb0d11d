CONSTANTS
  Requests <- AllRequests
  Key <- KeyOf
  Tenant <- TenantOf
  Annexes <- AnnexesOf
  AnnexIds = {"a1", "a2", "missing"}
  Attachments = {"a1", "a2"}
  Invalid = {"invalid"}
  Dangling = {"dangling"}
  NoKey = "none"
  Entries = {"rpc"}
  c1 = c1
  c2 = c2
  Callers = {c1}
  MaxSends = 4
  MaxFaults = 0
SPECIFICATION FairSpec
PROPERTY CreateDartaEnters
CHECK_DEADLOCK FALSE
