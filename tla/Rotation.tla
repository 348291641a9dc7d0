------------------------------ MODULE Rotation ------------------------------
(***************************************************************************)
(* The apps: the carousel that shows them while they are edited, and the   *)
(* order of them that is kept in flash.  Both work on the one registry of  *)
(* the device; each has it as variables of its own here.                   *)
(***************************************************************************)
EXTENDS Sequences

CONSTANTS
  MaxApps,
  AppIds, SystemApps, ScriptIds, Stopwatch, Orders, Turn, None,  \* of Carousel
  Builtins, Scripts, Restores, SaveOutcomes,             \* of AppOrder
  Pushed                                                 \* of both

VARIABLES
  apps, activeId, lastIndex, dwell, paused, pinnedId, autoAdvance,
  inSettings, timing, unseen,
  registry, moved, order, stored, scripts, edited, blob

C == INSTANCE Carousel
O == INSTANCE AppOrder WITH apps <- registry

ASSUME RotationAssumption ==
  C!MaxAppsAssumption /\ C!CarouselAssumption /\ O!AppOrderAssumption

carousel ==
  <<apps, activeId, lastIndex, dwell, paused, pinnedId, autoAdvance, inSettings, timing, unseen>>
kept == <<registry, moved, order, stored, scripts, edited, blob>>

-----------------------------------------------------------------------------
(* "A removed app is detected rather than impersonated": what is showing   *)
(* exists and is enabled, but for edits of scripts and of the stored order *)
(* that no tick has looked at yet (Carousel::tick, next, activate).        *)
NeverImpersonates == C!NeverImpersonates

(* Whoever takes the screen has its whole turn ahead of it, and only       *)
(* navigation, or losing the app, takes it away before that turn is over   *)
(* (Carousel::activateIndex, tick).                                        *)
FullTurn == C!FullTurn

(* An arrangement that was written down survives a restart: the device's   *)
(* own apps whose scripts are in flash come back in the order, and with    *)
(* the switches, they had (ApplicationHost::persistAppOrderIfChanged,      *)
(* applyStoredAppOrder).                                                   *)
OrderSurvivesRestart == O!OrderSurvivesRestart
=============================================================================
