\* A whole week; the clock may be set, fork may fail, SIGCHLD may be ignored.
CONSTANTS
  HOURS = 2
  MINS = 2
  SECS = 3
  CHECK_INTERVAL = 2
  MAX_TIME_SLOTS = 2
  Files <- TidyFiles
  SetTo = {0, 9, 11, 12, 30, 83}
  ForkMayFail = TRUE
  Sigchlds <- AnySigchld
SPECIFICATION FairSpec
INVARIANTS TypeOK StartedInSlot SlotServed
PROPERTIES LoopGoesOn
