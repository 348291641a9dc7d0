------------------------------- MODULE Recovery -------------------------------
(***************************************************************************)
(* What brings the device back: the two ladders of boots that are not      *)
(* finished, and the images behind the recovery button.  The ladder serves *)
(* a device whose software starts, the button one whose software does not; *)
(* they share no file.                                                     *)
(***************************************************************************)
EXTENDS RecoveryImages

CONSTANTS
  Builds, Flashed, Uploads, Behaviour, SafeAt, SkipOverrideAt,     \* of BootLadder
  SkipEverythingAt, MaxCount, MaxFailures, MaxInterruptions, Torn

VARIABLES
  attempts, failures, completed, override, previous, incoming, stored, phase, running,
  settings, job, interruptions, exchanged

B == INSTANCE BootLadder WITH MaxFaults <- MaxInterruptions, faults <- interruptions

ASSUME LadderAssumption == B!BootLadderAssumption

-----------------------------------------------------------------------------
(* No rung of the ladder is taken before the cheaper one below it          *)
(* (startup_shim's chooseApplication, ApplicationHost::initialize).        *)
RungsAreTakenInTurn == B!RungsAreTakenInTurn

(* An upload keeps the version it displaces (Tc002Upgrade::install).       *)
DisplacedIsKept == B!DisplacedIsKept
=============================================================================
