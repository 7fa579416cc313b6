\* An unread buffer overflows while a key is held.
CONSTANTS
  d1 = d1
  d2 = d2
  Path = {d1}
  Key = {114, 115}
  MAX_CONFIGS = 3
  ConfigSet <- OneLong
  QueueCap = 2
  Unpluggable = FALSE
  MaxEvents = 4
  MS_PER_SEC = 2
  NS_PER_MS = 2
  POLL_TIMEOUT_MS = 1
  Worlds <- SlowWorld
  MaxClock = 0
SPECIFICATION HoldsSpec
INVARIANTS ActiveMeansPressed
