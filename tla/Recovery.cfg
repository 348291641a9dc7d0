CONSTANTS
  Flashed = flashed
  fragile = fragile
  broken = broken
  garbled = garbled
  captured = captured
  built = built
  small = small
  None = None
  Images <- SomeImages
  Dropped <- NothingOrAny
  Kind <- Kindly
  Size <- SomeSizes
  Capacity = 8576
  MaxFaults = 1
  Builds <- SomeBuilds
  Uploads <- SomeUploads
  Behaviour <- SomeBehaviour
  SafeAt = 3
  SkipOverrideAt = 5
  SkipEverythingAt = 8
  MaxCount = 9
  MaxFailures = 4
  MaxInterruptions = 3
  Torn = Torn
SPECIFICATION MCSpec
INVARIANTS
  RungsAreTakenInTurn
  MarkerNeverLies
PROPERTIES
  DisplacedIsKept
  AlwaysComesBack
  KeepsThePromise
