CONSTANTS
  Ids = {"script"}
  Sources <- SomeSources
  Values <- SomeValues
  Width = 8
  TextLimit = 2
  MaxKeys = 1
  MaxScripts = 1
  Budget = 2
  MaxEdits = 3
  caller1 = caller1
  caller2 = caller2
  Callers <- BothCallers
  Sendable <- SomeRequests
  Passwords = {"one"}
  Slots = 2
  IdleLimit = 1
  SmallCeiling = 1
  UploadCeiling = 2
  BodyCeiling = 1
  IconCeiling = 2
  ImageCeiling = 2
  AnswerSize = 1
SPECIFICATION MCSpec
INVARIANTS
  AcceptedIsRead
PROPERTIES
  FirstErrorIsKept
  LoopsAreStopped
  PlacesComeBackInTime
