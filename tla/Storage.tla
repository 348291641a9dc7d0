------------------------------- MODULE Storage -------------------------------
(***************************************************************************)
(* What the device keeps in flash: the settings and the library of icons   *)
(* and scripts, and beneath them the storage, of which every key is a file *)
(* of its own.  A save of the settings and a blob of the library each take *)
(* the writing of a file as one step that succeeds or fails; FlashFiles is *)
(* that step in full.  Beyond the storage they share nothing.              *)
(***************************************************************************)
EXTENDS FlashFiles

CONSTANTS
  Current, Brightnesses, Periods, MaxSaves, MaxSpoilt,     \* of Settings
  IconIds, Sizes, Budget, MaxIcons, FlashLimit,            \* of Library
  ScriptIds, ScriptSize, MaxScripts, Rooms

VARIABLES
  memory, primary, spare, saving, kept, settingsMode, saves, spoilt, previous,
  icons, iconsMoved, iconBlob, scripts, scriptsMoved, scriptBlob, shown, room,
  unreadable, libraryMode, unwritten, asked

S == INSTANCE Settings WITH MaxFaults <- MaxSpoilt, mode <- settingsMode, faults <- spoilt
L == INSTANCE Library WITH mode <- libraryMode

-----------------------------------------------------------------------------
(* Whichever copy of the settings a boot has to do with, the device opens  *)
(* with it, and one bad copy costs one change (ConfigStore::load).         *)
EveryCopyServes == S!EveryCopyServes

(* What a save that succeeded wrote is what the next boot reads.           *)
SavedIsReadBack == S!SavedIsReadBack

(* What requests made of icons and scripts is in flash with the next turn  *)
(* (ApplicationHost::persistIconsIfChanged, persistScriptsIfChanged).      *)
WhatWasAskedIsInFlash == L!WhatWasAskedIsInFlash

(* A start alone costs nothing of them that could have been read.          *)
StartingCostsNothing == L!StartingCostsNothing
=============================================================================
