------------------------------- MODULE MCApps -------------------------------
(* The apps and their order, on small instances: in one part of the         *)
(* behaviours the carousel shows them while they are edited, in the other   *)
(* their order is kept in flash.                                            *)
(*                                                                          *)
(* Carousel: the built-in stopwatch and room for two more, so that rotations*)
(* wrap, and deletions and moves happen on either side of the app on screen.*)
(* The orders that may be applied switch the stopwatch off and on again.    *)
(* AppOrder: a built-in app, one script and one app that is pushed.         *)
EXTENDS Rotation

CONSTANTS stopwatch, script, pushed

VARIABLE part

SomeIds == {stopwatch, script, pushed}
OwnApps == <<[id |-> stopwatch, source |-> "system", enabled |-> TRUE, deadline |-> "none"]>>
SomeOrders ==
  {<<[id |-> script, enabled |-> TRUE], [id |-> stopwatch, enabled |-> FALSE]>>,
   <<[id |-> stopwatch, enabled |-> TRUE], [id |-> script, enabled |-> FALSE]>>}

OwnBuiltins == <<stopwatch>>
OwnScripts == <<script>>

Prefer(id, on) == [id |-> id, enabled |-> on]

\* Backups of this very device: they list exactly the apps it has of its own.
Backups ==
  {<<Prefer(script, TRUE), Prefer(stopwatch, FALSE)>>, <<Prefer(stopwatch, FALSE), Prefer(script, TRUE)>>}

vars == <<part, carousel, kept>>

Init ==
  /\ C!Init /\ O!Init
  /\ part \in {"carousel", "order"}
  /\ part = "order" => ~autoAdvance

Carousel(A) == part = "carousel" /\ A /\ UNCHANGED <<part, kept>>

\* Bound: one way of holding the screen at a time.
OneHold ==
  LET holds == <<paused', pinnedId' # None, inSettings', timing'>>
  IN  \A i, j \in DOMAIN holds : holds[i] /\ holds[j] => i = j

Next ==
  \/ Carousel(C!Next /\ OneHold)
  \/ part = "order" /\ O!Next /\ UNCHANGED <<part, carousel>>

Spec == Init /\ [][Next]_vars /\ WF_vars(Carousel(C!Tick)) /\ WF_vars(Carousel(C!Elapse))

EveryoneGetsATurn == part = "carousel" => C!EveryoneGetsATurn
=============================================================================
