\* Rules on one key and on two devices; arbitrary and prompt scheduling, forks
\* that fail, buffers that overflow, devices that are unplugged.
CONSTANTS
  d1 = d1
  d2 = d2
  Path = {d1, d2}
  Key = {114}
  MAX_CONFIGS = 3
  ConfigSet <- Rules
  QueueCap = 2
  Unpluggable = TRUE
  MaxEvents = 3
  MS_PER_SEC = 2
  NS_PER_MS = 2
  POLL_TIMEOUT_MS = 1
  Worlds <- SlowOrPrompt
  MaxClock = 5
SPECIFICATION HoldsSpec
INVARIANTS TypeOK ArmedMeansHeld LaunchesAccounted LongPressOnTime
PROPERTIES NotBeforeTime NoEarlyLongPress ImplementsLongPress
