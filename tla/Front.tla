-------------------------------- MODULE Front --------------------------------
(***************************************************************************)
(* The front of the device: its keys and its knob, and its panel.  The two *)
(* meet in ApplicationHost alone, and what the panel needs of the controls *)
(* is when an event ends the splash, moves the countdowns or changes what  *)
(* is to be shown: Panel has that as events of its own.                    *)
(***************************************************************************)

CONSTANTS
  Apps, Home, After, Stopwatch, Exclusive, Handles, Slots,            \* of Controls
  LongPress, Hold, IdleExit, Dwell, MaxBright, Together,
  Scenes, SceneAfter, Moving, Interval, Refresh, Span, Readout,       \* of Panel
  Countdown, Late, Events,
  Nothing                                                             \* of both

VARIABLES
  phase, press, rescue, hold, nav, rotation, state, password, setup, happened,
  left, waited, sched, gesture, hint, drawn, mode, shown, move, readout, panel, fact

K == INSTANCE Controls WITH
       Turn <- Dwell, None <- Nothing, panel <- state, fact <- happened

P == INSTANCE Panel WITH
       Apps <- Scenes, After <- SceneAfter, Hold <- Countdown, None <- Nothing,
       rescue <- gesture, rotation <- shown

ASSUME FrontAssumption == K!ControlsAssumption /\ P!PanelAssumption

controls == <<phase, press, rescue, hold, nav, rotation, state, password, setup, happened>>
display == <<left, waited, sched, gesture, hint, drawn, mode, shown, move, readout, panel, fact>>

-----------------------------------------------------------------------------
(* One press of the knob means one thing: a press, a long press or a       *)
(* request for the hotspot (ApplicationHost::handleInput, SetupHold::tick).*)
OnePressOneMeaning == K!OnePressOneMeaning

(* The password is cleared only by somebody who has held both keys for the *)
(* whole time, and once for that hold (Rescue::handle, tick).              *)
RescueTakesTheWholeHold == K!RescueTakesTheWholeHold

(* The panel belongs to whom it should, in time or at the next refresh at  *)
(* the latest (FrameScheduler::beginFrame, ApplicationHost::tick).         *)
PanelIsPrompt == P!PanelIsPrompt
=============================================================================
