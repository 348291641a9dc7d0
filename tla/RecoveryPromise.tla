-------------------------- MODULE RecoveryPromise --------------------------
(***************************************************************************)
(* What Tc002Recovery promises of the two images it looks after: the one   *)
(* the recovery button installs, once an interrupted switch has been put   *)
(* together, and the one that waits.  They change places and do nothing    *)
(* else: no switch, failed switch, power cut or repair loses an image,     *)
(* doubles one, or leaves the button without one.                          *)
(***************************************************************************)
CONSTANTS Images, None

VARIABLES button, other

Init ==
  /\ button \in Images
  /\ other \in (Images \cup {None}) \ {button}

Exchange ==
  /\ other # None
  /\ button' = other
  /\ other' = button

Spec == Init /\ [][Exchange]_<<button, other>>
=============================================================================
