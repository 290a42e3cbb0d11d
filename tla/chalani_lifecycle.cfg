CONSTANTS
  Seeds <- RegisteredSeed
  Numbers = {"45", "56"}
  MaxLetters = 3
  MaxCalls = 9
SPECIFICATION Spec
INVARIANTS TypeOK AuditIsAWalk SentIsApproved SupersededHasSuccessor EndedNeverMovesOn ReplacedStaysBehind
PROPERTY NumberIsKept
CHECK_DEADLOCK FALSE
