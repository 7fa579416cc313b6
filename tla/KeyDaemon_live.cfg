\* From the file to the loop, and liveness; small bounds, no symmetry.
CONSTANTS
  d1 = d1
  d2 = d2
  d3 = d3
  Path = {d1, d2, d3}
  Key = {0, 114}
  MAX_CONFIGS = 3
  MAX_DEVICES = 2
  Files <- RuleFiles
  ConfigSet = {}
  QueueCap = 2
  Unpluggable = TRUE
  MaxEvents = 2
  MS_PER_SEC = 2
  NS_PER_MS = 1
  POLL_TIMEOUT_MS = 1
  Worlds <- PromptWorld
  MaxClock = 2
SPECIFICATION FairDaemonSpec
INVARIANTS DaemonTypeOK RulesOfFile DeadRulesExplained
PROPERTIES HandsOver SignalEndsLoop LongHoldFires EventsServed
