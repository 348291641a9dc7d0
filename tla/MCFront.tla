------------------------------ MODULE MCFront ------------------------------
(* The front of the device, on small instances.  In each part of the        *)
(* behaviours one of three moves and the others rest: its keys and its      *)
(* knob, its panel, and the serial link to the microcontroller behind it.   *)
(*                                                                          *)
(* Controls: the clock, the stopwatch and a game that takes the controls,   *)
(* and the two settings of a device without a speaker.  Panel: an app with  *)
(* a scene that does not move and one that does.                            *)
EXTENDS Front, Integers

CONSTANTS clock, stopwatch, game, text

VARIABLES
  part,
  line, buffer, known, micRequested, micOn, queried, said, quiet, sent, lost

OwnApps == {clock, stopwatch, game}
OwnAfter ==
  [a \in OwnApps |->
     CASE a = clock -> stopwatch [] a = stopwatch -> game [] a = game -> clock]
TwoSettings == 1 .. 2
Fingers == {{"minus", "plus"}, {"plus", "knob"}, {"middle"}}
OwnScenes == {text, clock}
OwnSceneAfter == [a \in OwnScenes |-> IF a = text THEN clock ELSE text]

\* Bytes of which a false length or a sum goes wrong as easily as with 256, a
\* percentage that is none, and room for less than two of the longest frames.
M == INSTANCE Mcu WITH
       Base <- 8, Percents <- {1, 7}, MaxPercent <- 6, Room <- 16, Piece <- 6,
       InFlight <- 14, MaxSent <- 4, MaxLost <- 1, state <- known

link == <<line, buffer, known, micRequested, micOn, queried, said, quiet, sent, lost>>
vars == <<part, controls, display, link>>

Init ==
  /\ K!Init /\ P!Init /\ M!Init
  /\ part \in {"controls", "panel", "link"}
  /\ part # "panel" => mode.power /\ ~mode.safe /\ shown.app = text
  /\ part # "link" => queried

Next ==
  \/ part = "controls" /\ K!Next /\ UNCHANGED <<part, display, link>>
  \/ part = "panel" /\ P!Next /\ UNCHANGED <<part, controls, link>>
  \/ part = "link" /\ M!Next /\ UNCHANGED <<part, controls, display>>

Spec == Init /\ [][Next]_vars

LossesAreOvercome == M!LossesAreOvercome
MicIsAsked == M!MicIsAsked
=============================================================================
