CONSTANTS
  Secrets = {"secret"}
  Lengths <- OneLong
  Watchable = {"weather"}
  QueueLimit = 6
  MaxDelay = 2
  MaxFaults = 2
  MaxChanges = 3
  script1 = script1
  script2 = script2
  Scripts = {script1, script2}
  Urls = {"weather", "news"}
  Wanted <- SomeWanted
  MinInterval = 2
  MaxInterval = 3
  FeedsPerScript = 2
  FeedsInAll = 3
  Timeout = 2
  Backoff = 2
  MaxThreads = 2
  Overdue = 1
  MaxReplacements = 1
  Filters <- SomeFilters
  Leaves <- SomeLeaves
  Topics <- SomeTopics
  Dollar = {"$sys"}
  Mixed = {"ho+"}
  Unusable = {}
  WatchesPerScript = 1
  WatchesInAll = 2
  PublishesPerCall = 1
  MaxAsks = 2
  MaxMessages = 2
  MaxNow = 1
SPECIFICATION Spec
INVARIANTS
  SettledIsServed
  BodiesAreTheirOwn
  
  TopicsAreTheirs
PROPERTIES
  ComesBack
  NobodyIsHammered
  EveryFeedHasItsTurn
CHECK_DEADLOCK FALSE
