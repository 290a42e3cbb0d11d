CONSTANTS
  Requests <- AllRequests
  Key <- KeyOf
  Tenant <- TenantOf
  Annexes <- AnnexesOf
  AnnexIds = {"a1", "a2", "missing"}
  Attachments = {"a1", "a2"}
  Invalid = {"invalid"}
  Dangling = {"dangling"}
  NoKey = "none"
  Entries = {"rpc", "domain"}
  c1 = c1
  c2 = c2
  Callers = {c1, c2}
  MaxSends = 4
  MaxFaults = 1
SPECIFICATION FairSpec
INVARIANTS TypeOK ReturnedLetterIsOwn KeyedRequestsEnterOnce LettersAreComplete
PROPERTY RequestsAreEntered
CHECK_DEADLOCK FALSE
