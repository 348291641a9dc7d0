------------------------------- MODULE Panel -------------------------------
(***************************************************************************)
(* What the panel shows.  The loop draws a frame only when something has   *)
(* said that it changed (FrameScheduler::invalidate), never more often     *)
(* than Interval and, to heal what nobody announced, at least every        *)
(* Refresh.  So every route to a change must announce it:                  *)
(*                                                                         *)
(*   the controls, the hotspot's notice and a request over HTTP do;        *)
(*   the tick compares the power, the countdowns and the content that      *)
(*     moves with what it drew last;                                       *)
(*   a command over MQTT reaches the API past ApplicationHost::handle.     *)
(*                                                                         *)
(* One thing owns the panel at a time, by the order of renderFrame.  A     *)
(* rotation is blended into the app that was on the panel before.  In safe *)
(* mode one screen owns it and stays: the tick leaves out the apps, the    *)
(* messages and MQTT, and goes on with the controls and the countdowns.    *)
(***************************************************************************)
EXTENDS Integers, Sequences

CONSTANTS
  Apps,        \* the enabled apps
  After,       \* the app that comes after an app
  Moving,      \* the apps whose content moves by itself: clock, script, animation
  Interval,    \* FrameScheduler's interval
  Refresh,     \* FrameScheduler::Config::periodicRefreshMillis
  Span,        \* kTransitionMillis
  Readout,     \* kAdjustmentReadoutMillis
  Hold,        \* how long the rescue gesture is held
  Late,        \* bound: the longest time from one turn of the loop to the next
  Events,      \* bound: how often somebody or something changes the state
  None         \* no countdown, no transition

PanelAssumption ==
  /\ After \in [Apps -> Apps] /\ Moving \subseteq Apps
  /\ {Interval, Refresh, Span, Readout, Hold, Late, Events} \subseteq Nat \ {0}
  /\ None \notin Nat
  /\ Late + Interval < Hold

VARIABLES
  left,        \* bound: the changes to come
  waited,      \* time since the last turn
  sched,       \* FrameScheduler: ages of the last evaluation and the last frame
  rescue,      \* how long both keys are held, None when they are not
  hint,        \* the setup countdown is visible, SetupHold::counting
  drawn,       \* lastRescueSecond_, lastSetupSecond_, renderedWithPower_, lastClockMillis_
  mode,        \* what may own the panel
  rotation,    \* the active app and its content
  move,        \* the age of the transition, and the direction of the next one
  readout,     \* how long the readout of a level stays
  panel,       \* the frame that was presented last
  fact         \* how long the panel has been wrong, for the properties only

vars == <<left, waited, sched, rescue, hint, drawn, mode, rotation, move, readout, panel, fact>>

Later(age, d, limit) == IF age + d > limit THEN limit ELSE age + d

(* The longest the panel may be wrong about who owns it, and about         *)
(* anything at all.                                                        *)
Prompt == Interval + Late
Healed == Refresh + Interval + Late

-----------------------------------------------------------------------------
(* renderFrame: who owns the panel.                                        *)

(* Fault: a panel that is switched off hides the countdown. *)
OwnersPowerFirst ==
  <<"safe", "dark", "reset", "setup", "notice", "menu", "splash", "alert", "app">>

(* The first of them that has something to show is shown. *)
Owners ==
  <<"safe", "reset", "setup", "notice", "menu", "dark", "splash", "alert", "app">>

Claims ==
  [safe |-> mode.safe, reset |-> rescue # None, setup |-> hint,
   notice |-> mode.notice, menu |-> mode.menu, dark |-> ~mode.power, splash |-> mode.splash, alert |-> mode.alert, app |-> TRUE]

Layer ==
  LET first == CHOOSE i \in DOMAIN Owners : Claims[Owners[i]] /\ \A j \in 1 .. i - 1 : ~Claims[Owners[j]]
  IN  Owners[first]

TransitionRunning(age) == age # None /\ age < Span

(* The readout is drawn over any app and over a message. *)
ShowsReadout == readout > 0 /\ ~mode.menu /\ mode.power /\ ~mode.splash

(* What there is to say. *)
Wanted ==
  [layer |-> Layer,
   app |-> IF Layer = "app" THEN rotation ELSE None,
   count |-> IF Layer = "reset" THEN rescue ELSE None,
   readout |-> ShowsReadout,
   blend |-> FALSE]

Init ==
  /\ left = Events
  /\ waited = 0
  /\ sched = [dirty |-> TRUE, rendered |-> FALSE, evaluated |-> 0, presented |-> 0]
  /\ rescue = None
  /\ hint = FALSE
  /\ \E power, safe \in BOOLEAN :
       /\ safe => power
       /\ mode = [safe |-> safe, splash |-> TRUE, notice |-> FALSE, menu |-> FALSE,
                  power |-> power, alert |-> FALSE]
  /\ \E a \in Apps : rotation = [app |-> a, version |-> FALSE]
  /\ drawn = [count |-> None, hint |-> FALSE, power |-> TRUE, version |-> FALSE]
  /\ move = [age |-> None, back |-> FALSE]
  /\ readout = 0
  /\ panel = [layer |-> "none", app |-> None, count |-> None, readout |-> FALSE, blend |-> FALSE]
  /\ fact = [owner |-> 0, wrong |-> 0, silent |-> FALSE, seen |-> FALSE, asked |-> TRUE]

-----------------------------------------------------------------------------
(* Time, and the content that moves with it.                               *)

Elapse(d) ==
  /\ waited + d <= Late
  /\ waited' = waited + d
  /\ sched' = [sched EXCEPT !.evaluated = Later(@, d, Interval), !.presented = Later(@, d, Refresh)]
  /\ rescue' = IF rescue = None THEN None ELSE Later(rescue, d, Hold)
  /\ move' = [move EXCEPT !.age = IF @ = None THEN None ELSE Later(@, d, Span)]
  /\ readout' = IF readout > d THEN readout - d ELSE 0
  /\ \E moves \in BOOLEAN :
       /\ moves => rotation.app \in Moving
       /\ rotation' = [rotation EXCEPT !.version = IF moves THEN ~@ ELSE @]
  /\ fact' = [fact EXCEPT !.owner = IF panel.layer = Layer THEN 0 ELSE Later(@, d, Healed + 1),
                          !.wrong = IF panel = Wanted THEN 0 ELSE Later(@, d, Healed + 1)]
  /\ UNCHANGED <<left, hint, drawn, mode, panel>>

-----------------------------------------------------------------------------
(* What changes the state from outside, between two turns or at the start  *)
(* of one.                                                                 *)

Event == left > 0 /\ left' = left - 1 /\ UNCHANGED <<waited, drawn, panel>>

(* scheduler_.invalidate(), or a change that nobody announces. *)
Announced == sched' = [sched EXCEPT !.dirty = TRUE] /\ fact' = [fact EXCEPT !.asked = TRUE]
Silent == UNCHANGED sched /\ fact' = [fact EXCEPT !.silent = TRUE]

(* What an API request can change: the power, the messages, the content of *)
(* the active app, which app is active.                                    *)
Change ==
  /\ \/ mode' = [mode EXCEPT !.power = ~@] /\ UNCHANGED rotation
     \/ mode' = [mode EXCEPT !.alert = ~@] /\ UNCHANGED rotation
     \/ rotation' = [rotation EXCEPT !.version = ~@] /\ UNCHANGED mode
     \/ \E a \in Apps \ {rotation.app} : rotation' = [app |-> a, version |-> FALSE] /\ UNCHANGED mode
  /\ UNCHANGED <<rescue, hint, move, readout>>

(* ApplicationHost::handle: a request that changed something says so. *)
AfterRequest == Announced

Http == Event /\ Change /\ AfterRequest

(* MqttService::handleMessage calls ApiServer::handle.  Safe mode has no   *)
(* MQTT.                                                                   *)
Mqtt == ~mode.safe /\ Event /\ Change /\ Silent

(* setNotice and clearNotice. *)
Notice ==
  /\ Event
  /\ mode' = [mode EXCEPT !.notice = ~@]
  /\ Announced
  /\ UNCHANGED <<rescue, hint, rotation, move, readout>>

(* What the controls do: the settings come and go, the knob turns or the   *)
(* clock is shown again, the message is dismissed, a level changes.        *)
Act ==
  \/ /\ mode' = [mode EXCEPT !.menu = ~@]
     /\ UNCHANGED <<rotation, readout>>
     /\ move' = [move EXCEPT !.age = None]
  \/ /\ ~mode.menu
     /\ \E back \in BOOLEAN :
          /\ rotation' = [app |-> IF back THEN CHOOSE a \in Apps : After[a] = rotation.app
                                  ELSE After[rotation.app],
                          version |-> FALSE]
          /\ move' = [age |-> None, back |-> back]
     /\ UNCHANGED <<mode, readout>>
  \/ /\ ~mode.menu /\ mode.alert
     /\ mode' = [mode EXCEPT !.alert = FALSE]
     /\ UNCHANGED <<rotation, readout>>
     /\ move' = [move EXCEPT !.age = None]
  \/ /\ \E raises \in BOOLEAN : mode' = [mode EXCEPT !.power = @ \/ raises]
     /\ readout' = IF mode.menu THEN readout ELSE Readout
     /\ UNCHANGED rotation
     /\ move' = [move EXCEPT !.age = None]

EndSplash == mode' = [mode EXCEPT !.splash = FALSE] /\ UNCHANGED <<rotation, readout, move>>

(* handleInput: an event ends the splash and nothing else; else it ends    *)
(* the transition and, when it completes a press, does what that means.    *)
(* Half a press says nothing: it is the tick that sees a countdown.        *)
HandleInput ==
  /\ Event
  /\ \/ /\ mode.splash
        /\ EndSplash
        /\ Announced
     \/ /\ ~mode.splash
        /\ Act
        /\ Announced
     \/ /\ ~mode.splash
        /\ move' = [move EXCEPT !.age = None]
        /\ fact' = [fact EXCEPT !.asked = TRUE]
        /\ UNCHANGED <<mode, rotation, readout, sched>>
  /\ \/ UNCHANGED <<rescue, hint>>
     \/ rescue = None /\ rescue' = 0 /\ UNCHANGED hint
     \/ rescue # None /\ rescue' = None /\ UNCHANGED hint
     \/ hint /\ hint' = FALSE /\ UNCHANGED rescue

-----------------------------------------------------------------------------
(* ApplicationHost::tick, from the countdowns to the frame.                *)

(* Only the redrawing stops while the panel is off. *)
Redraws == mode'.power

(* The knob has been held until the hint shows, or until the request. *)
SetupTick ==
  \/ UNCHANGED <<hint, left>>
  \/ hint' = ~hint /\ left > 0 /\ left' = left - 1

(* Between the splash and the frame, not in safe mode: the carousel,       *)
(* unless the settings are open; the messages; the transition that a       *)
(* rotation begins.                                                        *)
Advances(moved) ==
  /\ moved => ~mode.menu
  /\ rotation' = IF moved THEN [app |-> After[rotation.app], version |-> FALSE] ELSE rotation

Begun(moved) == IF moved /\ mode'.power THEN 0 ELSE move.age

Stirs(moved, expired) ==
  \/ drawn.power # mode'.power
  \/ Redraws /\ \/ moved \/ expired
                \/ TransitionRunning(Begun(moved))
                \/ mode'.alert
                \/ rotation'.app \in Moving /\ rotation'.version # drawn.version

(* The countdowns ask for frames of their own. *)
CountdownMoved == rescue # drawn.count \/ hint' # drawn.hint \/ rescue = Hold

(* FrameScheduler::beginFrame.  Monotonic time does not step back. *)
DrawsNow(dirty) ==
  /\ ~sched.rendered \/ sched.evaluated >= Interval
  /\ dirty \/ sched.presented >= Refresh

(* Something that the turn has noticed, for the properties. *)
Stirred(leaves) == leaves \/ mode.splash \/ hint' # hint \/ drawn.power # mode.power

Turn ==
  /\ waited > 0
  /\ waited' = 0
  /\ SetupTick
  /\ \E splash, moved, expired, leaves \in BOOLEAN :
       /\ splash => mode.splash
       /\ splash \/ mode.safe => ~moved /\ ~expired
       /\ expired => mode.alert
       /\ leaves => mode.menu
       /\ mode' = [mode EXCEPT !.splash = splash, !.alert = @ /\ ~expired, !.menu = @ /\ ~leaves]
       /\ Advances(moved)
       /\ LET rests == splash \/ mode.safe
              dirty == \/ sched.dirty \/ CountdownMoved \/ mode.splash \/ leaves
                       \/ ~rests /\ Stirs(moved, expired)
              draws == DrawsNow(dirty)
              due == ~sched.rendered \/ sched.evaluated >= Interval
              age == IF rests THEN move.age ELSE Begun(moved)
              blends == TransitionRunning(age) /\ ~(mode.notice \/ rescue # None \/ hint')
          IN  /\ UNCHANGED <<rescue, readout>>
              /\ move' = [move EXCEPT !.age = IF draws /\ ~blends THEN None ELSE age]
              /\ panel' = IF draws THEN [Wanted' EXCEPT !.blend = blends] ELSE panel
              /\ fact' = [fact EXCEPT !.owner = IF panel'.layer = Layer' THEN 0 ELSE @,
                                      !.wrong = IF draws THEN 0 ELSE @, !.silent = @ /\ ~draws,
                                      !.asked = (@ \/ Stirred(leaves)) /\ ~draws,
                                      !.seen = rescue # None /\ (@ \/ (draws /\ Layer' = "reset"))]
              /\ sched' = [dirty |-> dirty /\ ~draws, rendered |-> sched.rendered \/ draws,
                           evaluated |-> IF due THEN 0 ELSE sched.evaluated,
                           presented |-> IF draws THEN 0 ELSE sched.presented]
              /\ drawn' = [count |-> rescue, hint |-> hint',
                           power |-> IF rests THEN drawn.power ELSE mode.power,
                           version |-> IF draws THEN rotation'.version ELSE drawn.version]

Next ==
  \/ \E d \in 1 .. Late : Elapse(d)
  \/ Http
  \/ Mqtt
  \/ Notice
  \/ HandleInput
  \/ Turn

Spec == Init /\ [][Next]_vars

-----------------------------------------------------------------------------
(* Nobody's password is cleared by a countdown that he could not see, even *)
(* with the panel off, in the settings or under a notice (renderFrame,     *)
(* "needs to see it working ... or a reason to stop"), except in safe mode.*)
CountdownIsSeen == rescue = Hold /\ waited = 0 => fact.seen \/ mode.safe

(* Without the exception it is what renderFrame says, "The rescue          *)
(* countdown outranks everything, including panel power", and Rescue.h of  *)
(* "a device that resets itself with no warning".  It does not hold: safe  *)
(* mode shows its own screen, and the gesture is timed there all the same. *)
CountdownIsAlwaysSeen == rescue = Hold /\ waited = 0 => fact.seen

(* Whatever comes to own the panel has it within a frame, by whichever way *)
(* it came, unless it came over MQTT.                                      *)
OwnerIsPrompt == fact.owner <= Prompt \/ fact.silent

(* What nobody announced is healed by the periodic refresh ("so a panel    *)
(* glitch heals itself"): the panel is never wrong for longer than that    *)
(* and a frame, not even by half a transition.                             *)
WrongIsHealed == fact.wrong <= Healed

(* All three: the panel belongs to whom it should, in time or at the next  *)
(* refresh at the latest.                                                  *)
PanelIsPrompt == CountdownIsSeen /\ OwnerIsPrompt /\ WrongIsHealed

(* A panel that is dark and that nothing has asked for is not redrawn at   *)
(* the frame rate, "the one thing an off switch is supposed to avoid".     *)
DarkRests ==
  [][/\ panel.layer = "dark" /\ panel'.layer = "dark" /\ ~fact.asked /\ ~panel.blend
     /\ sched'.presented = 0 /\ sched.presented # 0
     /\ ~Stirred(mode.menu # mode'.menu)
     => sched.presented >= Refresh]_vars

(* renderFrame: a panel that is switched off "goes properly dark rather    *)
(* than freezing on whatever was last drawn".                              *)
OffIsDark == panel.layer = "dark" /\ panel.blend => sched.presented <= Prompt

(* "A rotation that happened on its own always reads as forward."          *)
RotationReadsForward == [][move.age # 0 /\ move'.age = 0 => ~move'.back]_vars
=============================================================================
