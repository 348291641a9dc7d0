SPECIFICATION MCSpec
CONSTANTS
  NeverConfigured = 0
  StoredNetwork = 1
  LostNetwork = 2
  Retry = 1
  ScanGrace = 1
  RevertAfter = 2
  Timeout <- MCTimeout
  Elapses = {0, 1}
  Servers = {"pool", "other", "1.1.1.1"}
  Literals = {"1.1.1.1"}
  QueryRetry = 1
  Resync = 2
  QueryTimeout = 1
  MaxLookups = 2
  MaxEdits = 2
  MaxFaults = 2
INVARIANTS
  NeverStranded
  AsksWhoIsMeant
PROPERTIES
  ReachableIsLeftAlone
  NothingHangs
  TimeIsFound
