----------------------------- MODULE MCStorage -----------------------------
(* What is kept in flash, on small instances.  In each part of the           *)
(* behaviours one of three moves and the others rest: the settings, the      *)
(* library of icons and scripts, and two files of the storage beneath them.  *)
(*                                                                           *)
(* Two scripts are more than flash takes, and so is the larger icon.         *)
EXTENDS Storage, TLC

VARIABLE part

settings == <<memory, primary, spare, saving, kept, settingsMode, saves, spoilt, previous>>
library == <<icons, iconsMoved, iconBlob, scripts, scriptsMoved, scriptBlob, shown, room,
             unreadable, libraryMode, unwritten, asked>>
all == <<part, settings, library, vars>>

MCInit ==
  /\ part \in {"settings", "library", "files"}
  /\ S!Init /\ L!Init /\ Init
  /\ part # "files" => conf = "kept"

MCNext ==
  \/ part = "settings" /\ S!Next /\ UNCHANGED <<part, library, vars>>
  \/ part = "library" /\ L!Next /\ UNCHANGED <<part, settings, vars>>
  \/ part = "files" /\ Next /\ UNCHANGED <<part, settings, library>>

MCSpec == MCInit /\ [][MCNext]_all

Scripts == Permutations(ScriptIds)
=============================================================================
