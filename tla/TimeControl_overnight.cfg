\* A slot that ends before it starts.
CONSTANTS
  HOURS = 2
  MINS = 2
  SECS = 3
  CHECK_INTERVAL = 2
  MAX_TIME_SLOTS = 2
  Files <- OvernightFiles
  SetTo = {}
  ForkMayFail = FALSE
  Sigchlds <- AnySigchld
SPECIFICATION Spec
INVARIANTS AcceptedSlotsCome
