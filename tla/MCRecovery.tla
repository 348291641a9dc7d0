----------------------------- MODULE MCRecovery -----------------------------
(* What brings the device back, on small instances: in one part of the      *)
(* behaviours it boots, and fails to, while versions are uploaded, in the   *)
(* other the images behind the recovery button are switched.                *)
(*                                                                          *)
(* BootLadder: a device flashed with a sound version, and uploads that are  *)
(* not.  RecoveryImages: the two images with the sizes Tc002Recovery.h gives*)
(* in KB, and a smaller build that would fit beside both.                   *)
EXTENDS Recovery

CONSTANTS
  fragile, broken, garbled,
  captured, built, small

VARIABLE part

SomeUploads == {fragile, broken, garbled}
SomeBuilds == SomeUploads \cup {Flashed}
SomeBehaviour == [b \in SomeBuilds |-> CASE b = fragile -> "fragile"
                                         [] b = broken -> "broken"
                                         [] b = garbled -> "unloadable"
                                         [] OTHER -> "sound"]

SomeImages == {captured, built, small}
NothingOrAny == SomeImages \cup {None}
Kindly == [i \in SomeImages |-> IF i = captured THEN "stock" ELSE "stipple"]
SomeSizes == [i \in SomeImages |-> CASE i = captured -> 2724 [] i = built -> 3145 [] OTHER -> 2000]

ladder == <<attempts, failures, completed, override, previous, incoming, stored, phase, running,
            settings, job, interruptions, exchanged>>
all == <<part, ladder, vars>>

MCInit ==
  /\ B!Init /\ Init
  /\ part \in {"ladder", "images"}
  /\ part = "ladder" => /\ files = [armed |-> captured, spare |-> built, swap |-> None]
                        /\ marker = None

Ladder(A) == part = "ladder" /\ A /\ UNCHANGED <<part, vars>>

MCNext ==
  \/ Ladder(B!Next)
  \/ part = "images" /\ Next /\ UNCHANGED <<part, ladder>>

MCSpec ==
  /\ MCInit /\ [][MCNext]_all
  /\ WF_all(Ladder(B!Boot)) /\ WF_all(Ladder(B!Initialize)) /\ WF_all(Ladder(B!ClearAttempts))
  /\ WF_all(Ladder(B!InstallStep))
  /\ SF_all(Ladder(B!MarkHealthy)) /\ SF_all(Ladder(B!Die))

AlwaysComesBack == part = "ladder" => B!AlwaysComesBack
=============================================================================
