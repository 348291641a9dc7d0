------------------------------ MODULE Carousel ------------------------------
(***************************************************************************)
(* App rotation (app::Carousel) over the registry, with everything that    *)
(* acts on the two: the main loop's tick, the buttons, and the HTTP        *)
(* handlers.  Those for /apps change the registry and tick the carousel    *)
(* before answering; those for /scripts, and the loop when it applies a    *)
(* stored order, leave it to the next turn of the loop, which does not     *)
(* tick either while the menu is open or a running stopwatch is on screen. *)
(*                                                                         *)
(* The active app is remembered by id, together with the position it was   *)
(* last activated at; the registry may be edited between any two ticks.    *)
(***************************************************************************)
EXTENDS AppRegistry

CONSTANTS
  AppIds,      \* ids of apps
  SystemApps,  \* the registry at boot: the built-in apps, in order
  Pushed,      \* ids integrations push over the API
  ScriptIds,   \* ids of scripts
  Stopwatch,   \* the built-in stopwatch's id (kStopwatchAppId)
  Orders,      \* orders the settings document may hold
  Turn,        \* seconds an app stays on screen
  None         \* no app

CarouselAssumption ==
  /\ SystemApps \in Seq(Apps(AppIds)) /\ Len(SystemApps) <= MaxApps
  /\ \A i, j \in DOMAIN SystemApps : SystemApps[i].id = SystemApps[j].id => i = j
  /\ Turn \in Nat \ {0}
  /\ None \notin AppIds
  /\ Pushed \subseteq AppIds /\ ScriptIds \subseteq AppIds /\ Stopwatch \in AppIds
  /\ Orders \subseteq Seq([id: AppIds, enabled: BOOLEAN])

VARIABLES
  apps,        \* AppRegistry::apps_
  activeId,    \* activeId_, None when empty
  lastIndex,   \* lastIndex_, where activeId was when it was activated
  dwell,       \* seconds since activeSinceMillis_, counted up to Turn
  paused,      \* paused_
  pinnedId,    \* pinnedId_, None when empty
  autoAdvance, \* config_.autoAdvance
  inSettings,  \* navigator_.inSettings()
  timing,      \* stopwatch_.running()
  unseen       \* history: an edit that the carousel has not looked at since

vars == <<apps, activeId, lastIndex, dwell, paused, pinnedId, autoAdvance,
          inSettings, timing, unseen>>
position == <<activeId, lastIndex, dwell>>
settings == <<paused, autoAdvance>>
modes == <<inSettings, timing>>

Init ==
  /\ apps = SystemApps
  /\ activeId = None
  /\ lastIndex = 0
  /\ dwell = 0
  /\ paused = FALSE
  /\ pinnedId = None
  /\ autoAdvance \in BOOLEAN
  /\ inSettings = FALSE /\ timing = FALSE
  /\ unseen = FALSE

-----------------------------------------------------------------------------
(* Fault: the dwell of the app before is inherited. *)
ActivateInheritingDwell(reg, i) ==
  /\ activeId' = IF i = 0 THEN None ELSE reg[i].id
  /\ lastIndex' = i
  /\ dwell' = dwell

(* activateIndex; 0 is "nothing to show". *)
ActivateIndex(reg, i) ==
  /\ activeId' = IF i = 0 THEN None ELSE reg[i].id
  /\ lastIndex' = i
  /\ dwell' = 0

(* Fault: a pin holds although its app was switched off. *)
PinHoldsIfPresent(reg) == pinnedId # None /\ pinnedId \in Ids(reg)

PinHolds(reg) == pinnedId # None /\ IsEnabled(reg, pinnedId)

(* The active app is gone or disabled: go on from where it was last seen. *)
ResumeFrom == IF lastIndex > 0 THEN lastIndex - 1 ELSE 0

Advances == ~paused /\ autoAdvance /\ dwell >= Turn

(* Carousel::tick on a registry that has just become reg. *)
TickOn(reg) ==
  LET live == Expire(reg)
      here == PositionOf(live, activeId)
  IN  /\ apps' = live
      /\ pinnedId' = IF PinHolds(live) THEN pinnedId ELSE None
      /\ unseen' = FALSE
      /\ \/ /\ PinHolds(live)
            /\ IF activeId = pinnedId
               THEN UNCHANGED position
               ELSE ActivateIndex(live, PositionOf(live, pinnedId))
         \/ /\ ~PinHolds(live)
            /\ ~IsEnabled(live, activeId)
            /\ ActivateIndex(live, NextEnabled(live, ResumeFrom))
         \/ /\ ~PinHolds(live)
            /\ IsEnabled(live, activeId)
            /\ IF Advances
               THEN ActivateIndex(live, NextEnabled(live, here))
               ELSE UNCHANGED position
      /\ UNCHANGED <<settings, modes>>

(* The menu, or a running stopwatch, holds the app that is showing: the    *)
(* loop does not tick the carousel and restarts the dwell.                 *)
StopwatchHolds == timing /\ activeId = Stopwatch /\ Stopwatch \in Ids(apps)

Held == inSettings \/ StopwatchHolds

Tick == ~Held /\ TickOn(apps)

RestartDwell ==
  /\ Held
  /\ dwell' = 0
  /\ UNCHANGED <<apps, activeId, lastIndex, pinnedId, settings, modes, unseen>>

Elapse ==
  /\ dwell < Turn
  /\ dwell' = dwell + 1
  /\ UNCHANGED <<apps, activeId, lastIndex, pinnedId, settings, modes, unseen>>

(* persistAppOrderIfChanged: the settings came by another order, which is  *)
(* applied early in the turn; the turn may still be one without a tick.    *)
Reorder(wanted) ==
  /\ ApplyOrder(apps, wanted) # apps
  /\ apps' = ApplyOrder(apps, wanted)
  /\ unseen' = TRUE
  /\ UNCHANGED <<position, pinnedId, settings, modes>>

-----------------------------------------------------------------------------
(* The knob and the buttons.  next and previous look the active app up by  *)
(* id and start from the edge of the list when it is not there.  In the    *)
(* menu the knob moves the cursor instead.                                 *)

(* The screen goes to an app that was just looked up in the registry. *)
GoTo(i) ==
  /\ ActivateIndex(apps, i)
  /\ unseen' = FALSE
  /\ UNCHANGED <<apps, settings, modes>>

NextApp ==
  /\ ~inSettings
  /\ GoTo(NextEnabled(apps, PositionOf(apps, activeId)))
  /\ pinnedId' = None

PreviousApp ==
  LET here == PositionOf(apps, activeId)
  IN  /\ ~inSettings
      /\ GoTo(PreviousEnabled(apps, IF here > 0 THEN here ELSE 1))
      /\ pinnedId' = None

(* POST /apps/{id}/activate, and the button that goes back to the clock. *)
Activate(id) ==
  /\ IsEnabled(apps, id)
  /\ GoTo(PositionOf(apps, id))
  /\ pinnedId' = None

Pin(id) ==
  /\ IsEnabled(apps, id)
  /\ GoTo(PositionOf(apps, id))
  /\ pinnedId' = id

Unpin ==
  /\ pinnedId' = None
  /\ UNCHANGED <<apps, position, settings, modes, unseen>>

TogglePause ==
  /\ paused' = ~paused
  /\ UNCHANGED <<apps, position, pinnedId, autoAdvance, modes, unseen>>

(* The button starts and stops the stopwatch when that is on screen. *)
PressStopwatch ==
  /\ ~inSettings /\ activeId = Stopwatch /\ Stopwatch \in Ids(apps)
  /\ timing' = ~timing
  /\ UNCHANGED <<apps, position, pinnedId, settings, inSettings, unseen>>

(* The menu opens and, by hand or for want of one, closes again; the turn  *)
(* that closes it restarts the dwell.                                      *)
OpenMenu ==
  /\ ~inSettings
  /\ inSettings' = TRUE
  /\ UNCHANGED <<apps, position, pinnedId, settings, timing, unseen>>

CloseMenu ==
  /\ inSettings
  /\ inSettings' = FALSE
  /\ dwell' = 0
  /\ UNCHANGED <<apps, activeId, lastIndex, pinnedId, settings, timing, unseen>>

(* Re-initialising: everything about the rotation is forgotten. *)
Reset ==
  /\ ActivateIndex(apps, 0)
  /\ paused' = FALSE
  /\ pinnedId' = None
  /\ unseen' = FALSE
  /\ UNCHANGED <<apps, autoAdvance, modes>>

(* applyCarouselSettings: the stored preference reaches the carousel. *)
Configure ==
  /\ autoAdvance' = ~autoAdvance
  /\ UNCHANGED <<apps, position, paused, pinnedId, modes, unseen>>

-----------------------------------------------------------------------------
(* The HTTP handlers of /apps: edit the registry, then tick. *)

NewApp(id, source, enabled) ==
  [id |-> id, source |-> source, enabled |-> enabled,
   deadline |-> IF source = "temporary" THEN "ahead" ELSE "none"]

(* POST, or PUT of an id that is new, makes a remote app; there is room or *)
(* it is refused.  (Nothing but the tests makes temporary apps yet.)       *)
Create(id, source, enabled) ==
  /\ id \notin Ids(apps)
  /\ Len(apps) < MaxApps
  /\ TickOn(Put(apps, NewApp(id, source, enabled)))

(* DELETE /apps/{id}: built-in apps stay, and so do those of scripts. *)
Delete(id) ==
  /\ id \in Ids(apps)
  /\ Find(apps, id).source \notin {"system", "local"}
  /\ TickOn(Without(apps, id))

(* PUT of an existing app keeps its place and source; the new entry has no *)
(* deadline.                                                               *)
Replace(id, enabled) ==
  /\ id \in Ids(apps)
  /\ TickOn(Put(apps, [Find(apps, id) EXCEPT !.enabled = enabled, !.deadline = "none"]))

(* PATCH of an existing app: the switch, and perhaps a new place. *)
Edit(id, enabled, place) ==
  /\ id \in Ids(apps)
  /\ place \in {0} \cup DOMAIN apps
  /\ LET edited == Put(apps, [Find(apps, id) EXCEPT !.enabled = enabled])
     IN  TickOn(IF place = 0 THEN edited ELSE Move(edited, id, place))

(* A factory reset that includes the apps. *)
FactoryReset == TickOn(SystemOnly(apps))

(* The deadline of a temporary app passes; the next tick removes it. *)
Overdue(id) ==
  /\ id \in Ids(apps)
  /\ Find(apps, id).source = "temporary"
  /\ Find(apps, id).deadline = "ahead"
  /\ apps' = Put(apps, [Find(apps, id) EXCEPT !.deadline = "past"])
  /\ UNCHANGED <<position, pinnedId, settings, modes, unseen>>

(* The handlers of /scripts edit the registry and answer. *)

(* POST /scripts: a script that is new, or whose app is gone, gets an app. *)
PutScript(id) ==
  /\ id \notin Ids(apps)
  /\ apps' = Put(apps, NewApp(id, "local", TRUE))
  /\ unseen' = TRUE
  /\ UNCHANGED <<position, pinnedId, settings, modes>>

(* DELETE /scripts/{id}: its app goes with it. *)
DeleteScript(id) ==
  /\ id \in Ids(apps)
  /\ Find(apps, id).source = "local"
  /\ apps' = Without(apps, id)
  /\ unseen' = TRUE
  /\ UNCHANGED <<position, pinnedId, settings, modes>>

Navigate == NextApp \/ PreviousApp \/ \E id \in AppIds : Activate(id) \/ Pin(id)

Handler ==
  \/ \E id \in Pushed, source \in {"remote", "temporary"}, enabled \in BOOLEAN :
       Create(id, source, enabled)
  \/ \E id \in AppIds : Delete(id)
  \/ \E id \in AppIds, enabled \in BOOLEAN, place \in 0..MaxApps : Edit(id, enabled, place)
  \/ \E id \in AppIds, enabled \in BOOLEAN : Replace(id, enabled)
  \/ FactoryReset

Unticked ==
  \/ \E id \in ScriptIds : PutScript(id) \/ DeleteScript(id)
  \/ \E wanted \in Orders : Reorder(wanted)

User ==
  \/ Navigate \/ Unpin \/ TogglePause \/ Reset \/ Configure
  \/ PressStopwatch \/ OpenMenu \/ CloseMenu

Next ==
  \/ Tick \/ RestartDwell \/ Elapse
  \/ User \/ Handler \/ Unticked
  \/ \E id \in AppIds : Overdue(id)

Spec == Init /\ [][Next]_vars /\ WF_vars(Tick) /\ WF_vars(Elapse)

-----------------------------------------------------------------------------
(* The registry is an ordered set of apps within its cap, and the cursor   *)
(* holds an app id and the position of an app.                             *)
TypeOK ==
  /\ apps \in Seq(Apps(AppIds))
  /\ Len(apps) <= MaxApps
  /\ \A i, j \in DOMAIN apps : apps[i].id = apps[j].id => i = j
  /\ activeId \in AppIds \cup {None}
  /\ lastIndex \in 0..MaxApps
  /\ dwell \in 0..Turn
  /\ paused \in BOOLEAN /\ autoAdvance \in BOOLEAN
  /\ pinnedId \in AppIds \cup {None}
  /\ inSettings \in BOOLEAN /\ timing \in BOOLEAN /\ unseen \in BOOLEAN

(* "A removed app is detected rather than impersonated" (Carousel.h): what *)
(* is showing exists and is enabled, but for edits that no tick has looked *)
(* at yet: those of scripts and of the stored order, until the loop ticks, *)
(* which is in the same turn unless the menu or the stopwatch holds it.    *)
NeverImpersonates == activeId # None => unseen \/ IsEnabled(apps, activeId)

(* Without that exception it is refuted: an order that disables a running  *)
(* stopwatch leaves it on screen until it is stopped.                      *)
NeverShownDisabled == StopwatchHolds => IsEnabled(apps, Stopwatch)

(* A pinned app is the one on screen for as long as it can be shown, and   *)
(* a tick drops the pin as soon as it cannot.                              *)
PinIsShown ==
  pinnedId # None => activeId = pinnedId /\ (unseen \/ IsEnabled(apps, pinnedId))

(* Whoever takes the screen has its whole turn ahead of it, and only       *)
(* navigation, or losing the app, takes it away before that turn is over,  *)
(* or at all while the rotation is paused: no tick and no edit to other    *)
(* apps does.                                                              *)
FullTurn ==
  [][activeId' # activeId
       => /\ dwell' = 0
          /\ \/ activeId = None
             \/ Navigate \/ Reset
             \/ ~IsEnabled(apps', activeId)
             \/ dwell >= Turn /\ ~paused /\ autoAdvance]_vars

(* Turning the knob one way and back returns to the same app, whatever is  *)
(* disabled in between and however the ring wraps.                         *)
KnobUndoes ==
  \A i \in DOMAIN apps :
    apps[i].enabled =>
      /\ PreviousEnabled(apps, NextEnabled(apps, i)) = i
      /\ NextEnabled(apps, PreviousEnabled(apps, i)) = i

(* Left alone to rotate, every app that is enabled gets its turn, again    *)
(* and again.                                                              *)
Rotating == ~paused /\ autoAdvance /\ pinnedId = None /\ ~Held
LeftAlone == <>[][Tick \/ Elapse]_vars
EveryoneGetsATurn ==
  \A id \in AppIds :
    (LeftAlone /\ <>[](Rotating /\ IsEnabled(apps, id))) => []<>(activeId = id)
=============================================================================
