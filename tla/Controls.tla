------------------------------ MODULE Controls ------------------------------
(***************************************************************************)
(* The controls of the device: three keys and a knob that turns and can be *)
(* pressed.  Four things look at every event (ApplicationHost::handleInput)*)
(*                                                                         *)
(*   Rescue       - and + held together for Hold clear the password;       *)
(*   SetupHold    the knob held for Hold asks for the hotspot;             *)
(*   InputMapper  decides on release whether a press was short or long;    *)
(*   Navigator    decides what the press applies to.                       *)
(*                                                                         *)
(* They measure the same presses by clocks of their own, and the splash,   *)
(* a gesture that completes and the way in and out of the settings each    *)
(* discard some of what the others remember.  Events also come from HTTP   *)
(* (POST /input), between two turns of the loop and in halves of a press.  *)
(*                                                                         *)
(* Times are ages, counted up to the threshold they are compared with.     *)
(***************************************************************************)
EXTENDS Integers, FiniteSets

CONSTANTS
  Apps,        \* the enabled apps, none of which comes or goes
  Home,        \* the clock, kClockAppId
  After,       \* the app that comes after an app
  Stopwatch,   \* the stopwatch
  Exclusive,   \* scripts that declare exclusive input
  Handles,     \* scripts with an on_button
  Slots,       \* the settings offered on this hardware, 1..n
  LongPress,   \* longPressMillis
  Hold,        \* Rescue::kHoldMillis and SetupHold::kHoldMillis
  IdleExit,    \* Navigator::kIdleExitMillis
  Turn,        \* seconds an app stays on screen
  MaxBright,   \* steps of brightness
  Together,    \* bound: the sets of keys that are down at once
  None         \* a key that is not pressed

ControlsAssumption ==
  /\ Home \in Apps /\ Stopwatch \in Apps /\ After \in [Apps -> Apps]
  /\ Exclusive \subseteq Apps /\ Handles \subseteq Apps \ {Home, Stopwatch}
  /\ IsFiniteSet(Slots) /\ Slots = 1 .. Cardinality(Slots)
  /\ {LongPress, Hold, IdleExit, Turn, MaxBright} \subseteq Nat \ {0}
  /\ LongPress < Hold
  /\ None \notin Nat

VARIABLES
  phase,       \* "between" two turns of the loop, or "pump": in pumpInput
  press,       \* InputMapper::pressStart_ as an age, None when up
  rescue,      \* Rescue
  hold,        \* SetupHold, without what it shows of its countdown
  nav,         \* Navigator, and wasInSettings_
  rotation,    \* the carousel, as far as the controls reach it
  panel,       \* splashActive_, brightness, stopwatch_
  password,    \* settings_.web.password is set
  setup,       \* setupRequested_
  fact         \* what really happened, for the properties only

vars == <<phase, press, rescue, hold, nav, rotation, panel, password, setup, fact>>

Keys == {"minus", "plus", "middle", "knob"}
Steps == {-1, 1}

Older(age, d, limit) == IF age + d > limit THEN limit ELSE age + d

Init ==
  /\ phase = "between"
  /\ press = [k \in Keys |-> None]
  /\ rescue = [minus |-> FALSE, plus |-> FALSE, counting |-> FALSE, fired |-> FALSE, age |-> 0]
  /\ hold = [down |-> FALSE, counting |-> FALSE, fired |-> FALSE, age |-> 0]
  /\ nav = [open |-> FALSE, slot |-> 1, idle |-> 0, was |-> FALSE]
  /\ rotation = [app |-> Home, dwell |-> 0, paused |-> FALSE]
  /\ panel = [splash |-> TRUE, bright |-> MaxBright, timing |-> FALSE]
  /\ password = TRUE
  /\ setup = FALSE
  /\ fact = [held |-> [k \in Keys |-> None], seen |-> 0, quiet |-> 0, meant |-> {}, rescued |-> FALSE]

-----------------------------------------------------------------------------
(* The two holds.                                                          *)

(* Fault: the hold goes on from where the last one was broken off. *)
RescueResumes(k, down) ==
  LET r == IF k \in {"minus", "plus"} THEN [rescue EXCEPT ![k] = down] ELSE rescue
  IN  rescue' = IF k \notin {"minus", "plus"} THEN rescue
                ELSE IF r.minus /\ r.plus THEN [r EXCEPT !.counting = TRUE]
                ELSE [r EXCEPT !.counting = FALSE, !.fired = FALSE]

(* Rescue::handle. *)
RescueHears(k, down) ==
  LET r == IF k \in {"minus", "plus"} THEN [rescue EXCEPT ![k] = down] ELSE rescue
  IN  rescue' = IF k \notin {"minus", "plus"} THEN rescue
                ELSE IF ~(r.minus /\ r.plus) THEN [r EXCEPT !.counting = FALSE, !.fired = FALSE, !.age = 0]
                ELSE IF r.counting THEN r
                ELSE [r EXCEPT !.counting = TRUE, !.age = 0]

(* SetupHold::handle. *)
HoldHears(k, down) ==
  hold' = IF k # "knob" THEN hold
          ELSE [down |-> down, counting |-> down, fired |-> FALSE, age |-> 0]

RescueFires == rescue.counting /\ ~rescue.fired /\ rescue.age >= Hold
SetupFires == hold.counting /\ ~hold.fired /\ hold.down /\ hold.age >= Hold

-----------------------------------------------------------------------------
(* What a press means.  An action leaves phase, the holds and the settings *)
(* that they reach alone.                                                  *)

Show(app) == rotation' = [rotation EXCEPT !.app = app, !.dwell = 0]

Before(app) == CHOOSE x \in Apps : After[x] = app

(* Navigator::toggleSettings, exitSettings, moveCursor, noteActivity: at   *)
(* the time of the last tick.                                              *)
Toggle == nav' = [nav EXCEPT !.open = ~nav.open, !.slot = IF nav.open THEN nav.slot ELSE 1, !.idle = 0]
CloseMenu == nav' = [nav EXCEPT !.open = FALSE, !.idle = 0]
Touch == nav' = [nav EXCEPT !.idle = 0]
MoveCursor(step) ==
  LET n == Cardinality(Slots)
  IN  nav' = [nav EXCEPT !.slot = ((nav.slot - 1 + step + n) % n) + 1, !.idle = 0]

(* adjustBrightness; the volume of a device with a speaker is not kept. *)
Brighter(step) ==
  LET level == IF panel.bright + step < 0 THEN 0
               ELSE IF panel.bright + step > MaxBright THEN MaxBright
               ELSE panel.bright + step
  IN  panel' = [panel EXCEPT !.bright = level]

(* offerToScript: a script that declared exclusive input and handles it    *)
(* takes the knob, the press and the two keys, and nothing else.           *)
Offered == {"next", "previous", "action", "up", "down"}

GoesToScript(a) ==
  /\ ~nav.open
  /\ a \in Offered
  /\ rotation.app \in Exclusive \cap Handles

TurnKnob(a) ==
  LET step == IF a = "next" THEN 1 ELSE -1
  IN  \/ /\ nav.open
         /\ MoveCursor(step)
         /\ UNCHANGED <<rotation, panel>>
      \/ /\ ~nav.open
         /\ Show(IF a = "next" THEN After[rotation.app] ELSE Before(rotation.app))
         /\ UNCHANGED <<nav, panel>>

Act ==
  \/ /\ nav.open
     /\ Touch
     /\ UNCHANGED <<rotation, panel>>
  \/ /\ ~nav.open
     /\ rotation.app = Stopwatch
     /\ panel' = [panel EXCEPT !.timing = ~@]
     /\ UNCHANGED <<nav, rotation>>
  \/ /\ ~nav.open
     /\ rotation.app \in Handles
     /\ UNCHANGED <<nav, rotation, panel>>
  \/ /\ ~nav.open
     /\ rotation.app \notin Handles \cup {Stopwatch}
     /\ rotation' = [rotation EXCEPT !.paused = ~@]
     /\ UNCHANGED <<nav, panel>>

(* Leave the settings, else dismiss the message that is on screen (there   *)
(* may be one at any time), else show the clock.                           *)
Back ==
  \/ /\ nav.open
     /\ CloseMenu
     /\ UNCHANGED <<rotation, panel>>
  \/ /\ ~nav.open  \* a message was on screen
     /\ UNCHANGED <<nav, rotation, panel>>
  \/ /\ ~nav.open
     /\ Show(Home)
     /\ UNCHANGED <<nav, panel>>

(* The relative keys: the volume while browsing, if there is a speaker,    *)
(* which changes nothing here; the selected setting while in settings.     *)
Adjust(a) ==
  LET step == IF a = "up" THEN 1 ELSE -1
  IN  \/ /\ nav.open
         /\ Touch
         /\ IF nav.slot = 1 THEN Brighter(step) ELSE UNCHANGED panel
         /\ UNCHANGED rotation
      \/ /\ ~nav.open
         /\ UNCHANGED <<nav, rotation, panel>>

(* handleInput's switch. *)
Perform(a) ==
  \/ GoesToScript(a) /\ UNCHANGED <<nav, rotation, panel>>
  \/ /\ ~GoesToScript(a)
     /\ \/ a \in {"next", "previous"} /\ TurnKnob(a)
        \/ a = "action" /\ Act
        \/ a = "back" /\ Back
        \/ a = "settings" /\ Toggle /\ UNCHANGED <<rotation, panel>>
        \/ a \in {"up", "down"} /\ Adjust(a)
        \/ a \in {"brighter", "darker"}
             /\ Brighter(IF a = "brighter" THEN 1 ELSE -1) /\ UNCHANGED <<nav, rotation>>

(* The default bindings. *)
Binding(k, long) ==
  CASE k = "minus" -> IF long THEN "darker" ELSE "down"
    [] k = "plus" -> IF long THEN "brighter" ELSE "up"
    [] k = "middle" -> "back"
    [] k = "knob" -> IF long THEN "settings" ELSE "action"

-----------------------------------------------------------------------------
(* handleInput, for an event of key k or of the knob's rotation.           *)

Hears(k, down) == RescueHears(k, down) /\ HoldHears(k, down)

(* Any event ends the splash and is consumed by that, with every press     *)
(* that is under way.                                                      *)
EndSplash ==
  /\ panel' = [panel EXCEPT !.splash = FALSE]
  /\ press' = [k \in Keys |-> None]
  /\ UNCHANGED <<nav, rotation>>

(* InputMapper::handle on the release of a key that was down for long, or  *)
(* that it does not know to be down.                                       *)
Release(k, long) ==
  /\ press' = [press EXCEPT ![k] = None]
  /\ IF press[k] = None
     THEN UNCHANGED <<nav, rotation, panel>>
     ELSE Perform(Binding(k, long))

(* The facts that the properties are about: how long each key has been     *)
(* down by the events, how long the app has been on screen outside of the  *)
(* settings, how long nobody touched anything in them, and what the press  *)
(* of the knob has meant so far.                                           *)
Heard(ks, half) ==
  LET changed == ~panel.splash /\ <<nav, rotation, panel>>' # <<nav, rotation, panel>>
      before == IF half = "up" THEN fact.meant ELSE {}
  IN  fact' = [fact EXCEPT
        !.held = [k \in Keys |-> IF k \notin ks THEN @[k] ELSE IF half # "down" THEN None
                                 ELSE IF @[k] = None THEN 0 ELSE @[k]],
        !.quiet = 0,
        !.seen = IF rotation'.app # rotation.app THEN 0 ELSE @,
        !.meant = IF "knob" \notin ks THEN @
                  ELSE before \cup (IF changed THEN {"press"} ELSE {}),
        !.rescued = @ /\ (half = "down" \/ ks \cap {"minus", "plus"} = {})]

MayPress(k) == \E ks \in Together : {k} \cup {x \in Keys : fact.held[x] # None} \subseteq ks

KeyDown(k) ==
  /\ MayPress(k)
  /\ Hears(k, TRUE)
  /\ IF panel.splash
     THEN EndSplash
     ELSE press' = [press EXCEPT ![k] = 0] /\ UNCHANGED <<nav, rotation, panel>>
  /\ Heard({k}, "down")
  /\ UNCHANGED <<phase, password, setup>>

KeyUp(k) ==
  /\ Hears(k, FALSE)
  /\ IF panel.splash THEN EndSplash ELSE Release(k, press[k] = LongPress)
  /\ Heard({k}, "up")
  /\ UNCHANGED <<phase, password, setup>>

Detent(a) ==
  /\ IF panel.splash THEN EndSplash ELSE Perform(a) /\ UNCHANGED press
  /\ Heard({}, "whole")
  /\ UNCHANGED <<phase, rescue, hold, password, setup>>

-----------------------------------------------------------------------------
(* Between two turns.  POST /input is a whole press, whose release bears   *)
(* a time to come, or one half of a press, or a detent.                    *)

PressFromAfar(k, long) ==
  /\ Hears(k, FALSE)
  /\ IF panel.splash
     THEN EndSplash
     ELSE press' = [press EXCEPT ![k] = None] /\ Perform(Binding(k, long))
  /\ Heard({k}, "whole")
  /\ UNCHANGED <<phase, password, setup>>

HandleInput ==
  /\ phase = "between"
  /\ \/ \E k \in Keys : KeyDown(k) \/ KeyUp(k)
     \/ \E k \in Keys, long \in BOOLEAN : PressFromAfar(k, long)
     \/ \E a \in {"next", "previous"} : Detent(a)

(* PATCH /settings sets a password again. *)
SetPassword ==
  /\ phase = "between"
  /\ ~password
  /\ password' = TRUE
  /\ UNCHANGED <<phase, press, rescue, hold, nav, rotation, panel, setup, fact>>

-----------------------------------------------------------------------------
(* ApplicationHost::tick, after main() has taken the request for the       *)
(* hotspot to the radio.                                                   *)

Begin(d) ==
  /\ phase = "between"
  /\ phase' = "pump"
  /\ press' = [k \in Keys |-> IF press[k] = None THEN None ELSE Older(press[k], d, LongPress)]
  /\ rescue' = [rescue EXCEPT !.age = IF rescue.counting THEN Older(@, d, Hold) ELSE @]
  /\ hold' = [hold EXCEPT !.age = IF hold.down THEN Older(@, d, Hold) ELSE @]
  /\ nav' = [nav EXCEPT !.idle = IF nav.open THEN Older(@, d, IdleExit) ELSE @]
  /\ rotation' = [rotation EXCEPT !.dwell = Older(@, d, Turn)]
  /\ fact' = [fact EXCEPT
       !.held = [k \in Keys |-> IF @[k] = None THEN None ELSE Older(@[k], d, Hold)],
       !.seen = IF nav.open /\ nav.was THEN 0 ELSE Older(@, d, Turn),
       !.quiet = IF nav.open THEN Older(@, d, IdleExit) ELSE 0]
  /\ setup' = FALSE
  /\ UNCHANGED <<panel, password>>

(* pumpInput: what the fingers did since the last turn. *)
PumpInput ==
  /\ phase = "pump"
  /\ \/ \E k \in Keys : \/ fact.held[k] = None /\ KeyDown(k)
                        \/ fact.held[k] # None /\ KeyUp(k)
     \/ \E a \in {"next", "previous"} : Detent(a)

RescueTick ==
  /\ rescue' = [rescue EXCEPT !.fired = @ \/ RescueFires]
  /\ password' = (password /\ ~RescueFires)

(* Fault: the press that became a gesture is not discarded. *)
SetupTickKeepsPress ==
  /\ hold' = [hold EXCEPT !.fired = @ \/ SetupFires, !.counting = @ /\ ~SetupFires]
  /\ setup' = (setup \/ SetupFires)
  /\ press' = press

(* SetupHold::tick, and the request it raises; the press that has become   *)
(* a gesture is discarded, and every other press with it.                  *)
SetupTick ==
  /\ hold' = [hold EXCEPT !.fired = @ \/ SetupFires, !.counting = @ /\ ~SetupFires]
  /\ setup' = (setup \/ SetupFires)
  /\ press' = IF SetupFires THEN [k \in Keys |-> None] ELSE press

StopwatchHolds == panel.timing /\ rotation.app = Stopwatch

(* The dwell is held at zero while the settings are open and for one turn  *)
(* after.                                                                  *)
RestartsDwell == nav.open \/ nav.was

CarouselTick(blocked) ==
  LET dwell == IF RestartsDwell /\ ~panel.splash THEN 0 ELSE rotation.dwell
  IN  rotation' =
        IF blocked THEN rotation
        ELSE IF nav.open THEN [rotation EXCEPT !.dwell = dwell]
        ELSE IF StopwatchHolds THEN [rotation EXCEPT !.dwell = 0]
        ELSE IF ~rotation.paused /\ dwell >= Turn
             THEN [rotation EXCEPT !.app = After[@], !.dwell = 0]
        ELSE [rotation EXCEPT !.dwell = dwell]

(* Navigator::tick, after the carousel has seen whether the menu is open. *)
NavigatorTick ==
  [nav EXCEPT !.open = @ /\ nav.idle < IdleExit, !.idle = IF nav.idle < IdleExit THEN @ ELSE 0]

(* The rest of the turn.  The splash may be over.                          *)
Finish ==
  /\ phase = "pump"
  /\ phase' = "between"
  /\ RescueTick
  /\ SetupTick
  /\ \E splash \in BOOLEAN :
       /\ splash => panel.splash
       /\ panel' = [panel EXCEPT !.splash = splash]
       /\ CarouselTick(splash)
       /\ nav' = [NavigatorTick EXCEPT !.was = IF splash THEN @ ELSE nav.open]
  /\ fact' = [fact EXCEPT !.seen = IF rotation'.app # rotation.app \/ (nav.open /\ ~panel'.splash) THEN 0 ELSE @,
                          !.meant = IF SetupFires THEN @ \cup {"setup"} ELSE @,
                          !.rescued = @ \/ RescueFires]

Next ==
  \/ HandleInput
  \/ SetPassword
  \/ \E d \in {0, 1} : Begin(d)
  \/ PumpInput
  \/ Finish

Spec == Init /\ [][Next]_vars

-----------------------------------------------------------------------------
(* The four parts, their clocks and the facts stay what they are declared. *)
TypeOK ==
  /\ phase \in {"between", "pump"}
  /\ press \in [Keys -> 0 .. LongPress \cup {None}]
  /\ rescue \in [minus : BOOLEAN, plus : BOOLEAN, counting : BOOLEAN, fired : BOOLEAN, age : 0 .. Hold]
  /\ hold \in [down : BOOLEAN, counting : BOOLEAN, fired : BOOLEAN, age : 0 .. Hold]
  /\ nav \in [open : BOOLEAN, slot : Slots, idle : 0 .. IdleExit, was : BOOLEAN]
  /\ rotation \in [app : Apps, dwell : 0 .. Turn, paused : BOOLEAN]
  /\ panel \in [splash : BOOLEAN, bright : 0 .. MaxBright, timing : BOOLEAN]
  /\ password \in BOOLEAN
  /\ setup \in BOOLEAN
  /\ fact \in [held : [Keys -> 0 .. Hold \cup {None}], seen : 0 .. Turn, quiet : 0 .. IdleExit,
               meant : SUBSET {"press", "setup"}, rescued : BOOLEAN]

(* The password is only cleared by somebody who has held both keys for the *)
(* whole time, and once for that hold (Rescue.h, "exactly once"), whatever *)
(* the splash, the settings, other keys and half presses from afar did     *)
(* meanwhile.                                                              *)
RescueTakesTheWholeHold ==
  [][password /\ ~password' =>
       /\ fact.held["minus"] = Hold
       /\ fact.held["plus"] = Hold
       /\ ~fact.rescued]_vars

(* One press of the knob means one thing: a press, a long press or a       *)
(* request for the hotspot, never two of them (SetupHold.h, "it does not   *)
(* conflict with the settings screen, despite sharing a button").          *)
OnePressOneMeaning == Cardinality(fact.meant) <= 1

(* Time in a menu is not time on screen: an app is only rotated away after *)
(* a whole turn in which the settings were closed, whichever way they were *)
(* left and however late the loop comes round.  (Settings that were opened *)
(* and closed with no turn in between were never on screen.)               *)
MenuTimeIsNotDwell ==
  [][rotation'.app # rotation.app /\ phase = "pump" /\ phase' = "between" => fact.seen = Turn]_vars

(* The settings do not outlive the attention of whoever opened them: after *)
(* a turn of the loop they are open only if an event came within IdleExit. *)
MenuOutlivesNobody == phase = "between" /\ nav.open => fact.quiet < IdleExit

(* performRescue: "this clears the way back in and nothing else".          *)
RescueChangesNothingElse ==
  [][fact.rescued => panel'.bright = panel.bright]_vars
=============================================================================
