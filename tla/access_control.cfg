CONSTANTS
  r1 = r1
  r2 = r2
  r3 = r3
  Runs = {r1, r2}
  Scripts = {"create", "delete", "setup"}
  Resources <- SomeParts
  Users <- TwoUsers
  MayFail = TRUE
  Checks <- SomeChecks
SYMMETRY RunSymmetry
SPECIFICATION AllSpec
INVARIANTS AllTypeOK PasswordsAreKept ReportedTenantIsComplete HalfMadeAccountsAreKnown EnvironmentNamesWhatWasMade DecisionsAreJustified
