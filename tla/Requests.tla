------------------------------ MODULE Requests ------------------------------
(***************************************************************************)
(* Whom the device lets in and what it then does for them: the web server  *)
(* with the gate in front of its API, and the scripts that come through    *)
(* it, which run on when the caller has gone.  A script is put by a        *)
(* handler, of which Http knows the outcome and ScriptRun the effect.      *)
(***************************************************************************)
EXTENDS ScriptRun

CONSTANTS
  Callers, Sendable, Passwords, Slots, IdleLimit, SmallCeiling,           \* of Http
  UploadCeiling, BodyCeiling, IconCeiling, ImageCeiling, AnswerSize

VARIABLES callers, due, elapsed, password, firstRun

H == INSTANCE Http WITH Requests <- Sendable

ASSUME RequestsAssumption == H!HttpAssumption

-----------------------------------------------------------------------------
(* A place comes back in the end, and not before its time                  *)
(* (Tc002HttpServer::poll, service).                                       *)
PlacesComeBackInTime == H!PlacesComeBackInTime
=============================================================================
