--------------------------- MODULE RecoveryImages ---------------------------
(***************************************************************************)
(* Tc002Recovery: which of two images the recovery button installs.  Both  *)
(* are on one small volume, and switching is three renames and a marker    *)
(* file that says what is armed.  Any operation may fail, power may be cut *)
(* between any two, and what was renamed is on the medium only once it has *)
(* been written back, at the latest when the volume is synchronised.       *)
(***************************************************************************)
EXTENDS Integers

CONSTANTS
  Images,      \* image files that exist somewhere
  Dropped,     \* what somebody may make update.img over USB; None deletes it
  Kind, Size,  \* what an image installs, and its length
  Capacity,    \* what the volume holds
  MaxFaults,   \* bound of the model: faults in one boot
  None

Kinds == {"stock", "stipple"}

(* Images of different kinds are told apart by their sizes. *)
ASSUME RecoveryAssumption ==
  /\ None \notin Images
  /\ Dropped \subseteq Images \cup {None}
  /\ Kind \in [Images -> Kinds]
  /\ Size \in [Images -> Nat \ {0}]
  /\ \A i, j \in Images : Kind[i] # Kind[j] => Size[i] # Size[j]
  /\ Capacity \in Nat /\ MaxFaults \in Nat

VARIABLES
  files,   \* update.img, spare.img and swap.img
  marker,  \* armed.txt: a name and a size, or None
  medium,  \* what of the volume would survive a power cut
  step,    \* the operation that comes next, "idle" or "off"
  wanted,  \* the image asked for, or None while the boot repairs
  result,  \* the answer to the last request
  faults,  \* faults since the device was switched on
  shared   \* a computer has written to the volume (history)

device == <<files, marker, medium, step, wanted, result, faults>>
vars   == <<device, shared>>

Slots  == {"armed", "spare", "swap"}
Volume == [files |-> files, marker |-> marker]

Exists(s)   == files[s] # None

Moved(f, t) == [files EXCEPT ![t] = files[f], ![f] = None]
Length(f, s) == IF f[s] = None THEN 0 ELSE Size[f[s]]
Used(f) == Length(f, "armed") + Length(f, "spare") + Length(f, "swap")

Claim(kind, image) == [name |-> kind, size |-> Size[image]]

Init ==
  /\ \E a \in Images, s \in Images \cup {None} :
       /\ Used([armed |-> a, spare |-> s, swap |-> None]) <= Capacity
       /\ s # None => Kind[s] # Kind[a]
       /\ files = [armed |-> a, spare |-> s, swap |-> None]
       /\ marker \in {None, Claim(Kind[a], a)}
  /\ medium = Volume
  /\ step = "off" /\ wanted = None /\ result = "none" /\ faults = 0
  /\ shared = FALSE

-----------------------------------------------------------------------------
(* What the device says of itself.                                         *)

(* Fault: the name is believed whatever the size. *)
MarkedImageUnchecked == IF marker = None THEN "unrecognised" ELSE marker.name

MarkedImage ==
  IF marker # None /\ marker.size = Size[files.armed] THEN marker.name
  ELSE "unrecognised"

Armed == IF Exists("armed") THEN MarkedImage ELSE "nothing"

Available(kind) ==
  \/ Armed = kind
  \/ Exists("spare") /\ Armed # "unrecognised"

-----------------------------------------------------------------------------
Goto(s) == step' = s /\ UNCHANGED wanted

(* An operation fails and does nothing; the rename that would undo the one *)
(* before may fail with it, which counts as the same fault.                *)
Fault   == faults < MaxFaults /\ faults' = faults + 1
NoFault == UNCHANGED faults

(* A rename that may fail, also because there is nothing to rename. *)
Rename(f, t) == Exists(f) /\ files' = Moved(f, t)
Undo(f, t) ==
  \/ NoFault /\ IF Exists(f) THEN Rename(f, t) ELSE UNCHANGED files
  \/ Fault /\ UNCHANGED files

Kept == UNCHANGED <<medium, result>>

PowerOn ==
  /\ step = "off"
  /\ step' = "repair" /\ wanted' = None
  /\ result' = "none" /\ faults' = 0
  /\ UNCHANGED <<files, marker, medium>>

(* POST /api/v1/system/recovery. *)
Request(kind) ==
  /\ step = "idle"
  /\ Available(kind)
  /\ step' = "repair" /\ wanted' = kind
  /\ result' = "none"
  /\ UNCHANGED <<files, marker, medium, faults>>

-----------------------------------------------------------------------------
(* repair: at the boot, and first thing in arm.                            *)

AfterRepair == IF wanted = None THEN "idle" ELSE "check"

(* Fault: the spare slot is filled first. *)
RepairSpareFirst ==
  /\ step = "repair"
  /\ \/ /\ Exists("swap") /\ ~Exists("spare")
        /\ Rename("swap", "spare")
        /\ Goto("synced")
     \/ /\ ~Exists("swap") \/ Exists("spare")
        /\ Goto(AfterRepair) /\ UNCHANGED files
  /\ NoFault /\ UNCHANGED marker /\ Kept

Repair ==
  /\ step = "repair"
  /\ \/ /\ ~Exists("swap")
        /\ Goto(AfterRepair) /\ NoFault /\ UNCHANGED files
     \/ /\ Exists("swap") /\ ~Exists("armed")
        /\ Rename("swap", "armed")
        /\ Goto("unmark") /\ NoFault
     \/ /\ Exists("swap") /\ Exists("armed") /\ ~Exists("spare")
        /\ Rename("swap", "spare")
        /\ Goto("synced") /\ NoFault
     \/ /\ Exists("swap") /\ Exists("armed") /\ Exists("spare")
        /\ files' = [files EXCEPT !.swap = None]
        /\ Goto("synced") /\ NoFault
     \/ /\ Exists("swap")
        /\ Fault
        /\ Goto(AfterRepair) /\ UNCHANGED files
  /\ UNCHANGED marker /\ Kept

Unmark ==
  /\ step = "unmark"
  /\ \/ marker' = None /\ NoFault
     \/ UNCHANGED marker /\ Fault
  /\ Goto("synced")
  /\ UNCHANGED files /\ Kept

(* The end of the scope in which the volume was writable. *)
RepairSynced ==
  /\ step = "synced"
  /\ medium' = Volume
  /\ Goto(AfterRepair)
  /\ UNCHANGED <<files, marker, result, faults>>

-----------------------------------------------------------------------------
(* arm: three renames and the marker.                                      *)

Answer(r) == result' = r /\ UNCHANGED medium

Refused == Answer("refused")

Check ==
  /\ step = "check"
  /\ \/ /\ Armed = wanted
        /\ Goto("idle") /\ Answer("armed") /\ NoFault
     \/ /\ Armed # wanted
        /\ ~Exists("spare") \/ Armed = "unrecognised"
        /\ Goto("idle") /\ Refused /\ NoFault
     \/ /\ Armed \notin {wanted, "unrecognised"} /\ Exists("spare")
        /\ \/ Goto("aside") /\ Kept /\ NoFault
           \/ Goto("idle") /\ Refused /\ Fault
  /\ UNCHANGED <<files, marker>>

Aside ==
  /\ step = "aside"
  /\ \/ Rename("spare", "swap") /\ Goto("retire") /\ Kept /\ NoFault
     \/ UNCHANGED files /\ Goto("sync") /\ Refused /\ Fault
  /\ UNCHANGED marker

(* The armed image changes places with the spare one.  A failure of this   *)
(* rename is followed by an attempt to undo the one before.                *)
Retire ==
  /\ step = "retire"
  /\ \/ /\ Rename("armed", "spare")
        /\ Goto("arm") /\ Kept /\ NoFault
     \/ /\ ~Exists("armed")
        /\ Undo("swap", "spare")
        /\ Goto("sync") /\ Refused
     \/ /\ Fault
        /\ files' \in {files, Moved("swap", "spare")}
        /\ Goto("sync") /\ Refused
  /\ UNCHANGED marker

ArmIt ==
  /\ step = "arm"
  /\ \/ /\ Rename("swap", "armed")
        /\ Goto("mark") /\ Kept /\ NoFault
     \/ /\ Fault
        /\ files' \in {files, Moved("spare", "armed")}
        /\ Goto("sync") /\ Refused
  /\ UNCHANGED marker

(* Opening the marker for writing empties it. *)
Mark ==
  /\ step = "mark"
  /\ \/ marker' = None /\ Goto("write") /\ Kept /\ NoFault
     \/ UNCHANGED marker /\ Goto("sync") /\ Refused /\ Fault
  /\ UNCHANGED files

Write ==
  /\ step = "write"
  /\ \/ marker' = Claim(wanted, files.armed) /\ Answer("armed") /\ NoFault
     \/ UNCHANGED marker /\ Refused /\ Fault
  /\ Goto("sync")
  /\ UNCHANGED files

Sync ==
  /\ step = "sync"
  /\ medium' = Volume
  /\ Goto("idle")
  /\ UNCHANGED <<files, marker, result, faults>>

-----------------------------------------------------------------------------
(* The medium, the plug and the cable.                                     *)

WriteBack ==
  /\ medium # Volume
  /\ medium' = Volume
  /\ UNCHANGED <<files, marker, step, wanted, result, faults>>

PowerCut ==
  /\ step # "off"
  /\ files' = medium.files /\ marker' = medium.marker
  /\ step' = "off" /\ wanted' = None /\ result' = "none"
  /\ UNCHANGED <<medium, faults>>

(* A computer sees the volume as a disk and update.img on it.  What it does*)
(* goes straight to the medium.                                            *)
UsbPut(contents) ==
  /\ step \in {"off", "idle"}
  /\ files' = [files EXCEPT !.armed = contents]
  /\ Used(files') <= Capacity
  /\ shared' = TRUE
  /\ medium' = [medium EXCEPT !.files = files']
  /\ UNCHANGED <<marker, step, wanted, result, faults>>

DeviceNext ==
  \/ PowerOn
  \/ \E kind \in Kinds : Request(kind)
  \/ Repair \/ Unmark \/ RepairSynced
  \/ Check \/ Aside \/ Retire \/ ArmIt \/ Mark \/ Write \/ Sync
  \/ WriteBack \/ PowerCut

Next ==
  \/ DeviceNext /\ UNCHANGED shared
  \/ \E i \in Dropped : UsbPut(i)

Spec == Init /\ [][Next]_vars

-----------------------------------------------------------------------------
Markers  == [name: Kinds, size: {Size[i] : i \in Images}] \cup {None}
Contents == [Slots -> Images \cup {None}]

TypeOK ==
  /\ files \in Contents /\ marker \in Markers
  /\ Used(files) <= Capacity
  /\ medium \in [files: Contents, marker: Markers]
  /\ step \in {"off", "idle", "repair", "unmark", "synced", "check", "aside",
               "retire", "arm", "mark", "write", "sync"}
  /\ wanted \in Kinds \cup {None}
  /\ result \in {"none", "armed", "refused"}
  /\ faults \in 0..MaxFaults
  /\ shared \in BOOLEAN

(* What the next repair would leave in the armed slot, and the other one.  *)
Button == IF Exists("armed") THEN files.armed ELSE files.swap
Other  == IF Exists("armed") /\ ~Exists("spare") THEN files.swap ELSE files.spare

(* As long as nobody else writes the volume, and a repair does not fail    *)
(* just before a switch, the two images only ever change places: on every  *)
(* path through a switch, its failures, its undo, power cuts and repairs.  *)
Promise == INSTANCE RecoveryPromise WITH button <- Button, other <- Other

KeepsThePromise ==
  Promise!Init /\ [][~shared' => [Promise!Exchange]_<<Button, Other>>]_vars

(* "An armed button matters more than a tidy spare": the device does not   *)
(* serve with nothing under the button, unless an operation has failed     *)
(* since it was switched on or a computer has been at the volume.          *)
ButtonIsArmed == step = "idle" /\ ~Exists("armed") => faults > 0 \/ shared

(* "Unrecognised rather than something false": what the device says the    *)
(* button installs is what it installs, at every moment of a switch and    *)
(* after every power cut in one, until a computer has been at the volume.  *)
MarkerNeverLies == Armed \in Kinds => Kind[files.armed] = Armed \/ shared

(* "Whether which is present on the device and could be armed"             *)
(* (PlatformServices.h): a request for an image that is available is only  *)
(* refused because an operation failed (or a computer took update.img).    *)
AvailableCanBeArmed ==
  step = "idle" /\ result = "refused" => faults > 0 \/ shared

(* "Anything left from an interrupted swap is cleared first, or the renames*)
(* below would trip over it" (Tc002Recovery.cpp).                          *)
LeftoverIsCleared == step = "aside" => ~Exists("swap")
=============================================================================
