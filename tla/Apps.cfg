CONSTANTS
  stopwatch = stopwatch
  script = script
  pushed = pushed
  None = None
  MaxApps = 3
  AppIds <- SomeIds
  SystemApps <- OwnApps
  Stopwatch = stopwatch
  ScriptIds = {script}
  Orders <- SomeOrders
  Turn = 1
  Builtins <- OwnBuiltins
  Scripts <- OwnScripts
  Pushed = {pushed}
  Restores <- Backups
  SaveOutcomes = {TRUE}
SPECIFICATION Spec
INVARIANTS
  NeverImpersonates
PROPERTIES
  FullTurn
  EveryoneGetsATurn
  OrderSurvivesRestart
