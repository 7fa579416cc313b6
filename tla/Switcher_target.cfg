\* Any caller, any call may fail.
CONSTANTS
  Cap <- Caps
  ID_MODULUS = 4
  Builds <- NarrowAndWide
  GROUPS_MAX = 2
  StartCreds <- AnyCreds
  Args <- AnyArgs
  MayFail <- Anything
SPECIFICATION Spec
INVARIANTS IdentityAsAsked OnlyWanted AmbientReachesTarget FeasibleIsAllowed
