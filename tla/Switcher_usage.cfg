\* Root, the documented usage, no call fails.
CONSTANTS
  Cap <- Caps
  ID_MODULUS = 4
  Builds <- NarrowAndWide
  GROUPS_MAX = 2
  StartCreds <- RootCreds
  Args <- UsageArgs
  MayFail <- Nothing
SPECIFICATION Spec
INVARIANTS TargetGetsCaps
