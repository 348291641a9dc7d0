CONSTANTS
  a = a
  NoId = NoId
  None = None
  MaxQueued = 2
  MaxPriority = 2
  MaxSequence = 4
  ClientIds <- MCClientIds
  Content <- MCContent
SPECIFICATION Spec
INVARIANTS
  UniqueIds
  NoneWaitsForNothing
PROPERTIES
  TickRestoresRank
  ShownInOrder
  QuietDrains
