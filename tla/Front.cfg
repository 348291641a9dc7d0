CONSTANTS
  clock = clock
  stopwatch = stopwatch
  game = game
  text = text
  Nothing = Nothing
  Apps <- OwnApps
  Home = clock
  After <- OwnAfter
  Stopwatch = stopwatch
  Exclusive = {game}
  Handles = {game}
  Slots <- TwoSettings
  LongPress = 1
  Hold = 2
  IdleExit = 2
  Dwell = 1
  MaxBright = 1
  Together <- Fingers
  Scenes <- OwnScenes
  SceneAfter <- OwnSceneAfter
  Moving = {clock}
  Interval = 2
  Refresh = 4
  Span = 3
  Readout = 2
  Countdown = 4
  Late = 1
  Events = 2
SPECIFICATION Spec
INVARIANTS
  OnePressOneMeaning
  PanelIsPrompt
  LossesAreOvercome
PROPERTIES
  RescueTakesTheWholeHold
CHECK_DEADLOCK FALSE
