------------------------------ MODULE AppOrder ------------------------------
(***************************************************************************)
(* How the arrangement of the carousel is kept: the live registry, the     *)
(* copy of it in the settings document (settings_.apps.order), and the     *)
(* settings stored in flash; and, because every script has an app, the     *)
(* scripts in memory and in flash.                                         *)
(*                                                                         *)
(* Once per turn of the loop ApplicationHost::persistAppOrderIfChanged     *)
(* reconciles them, in one direction or the other: if the registry moved   *)
(* (its revision is not the one last seen) it is written down; otherwise,  *)
(* if the settings say something else, they are applied to the registry.   *)
(* A reboot rebuilds the registry from the built-in apps, the stored       *)
(* settings and the stored scripts; apps pushed over the API are not kept. *)
(* The device is in its normal mode; safe mode reads and writes no order.  *)
(***************************************************************************)
EXTENDS AppRegistry

CONSTANTS
  Builtins,      \* ids installed by installBuiltins, in order
  Scripts,       \* ids of the scripts stored at first, in the order of the store
  Pushed,        \* ids integrations push over the API
  Restores,      \* arrangements a client may set (PUT /config, a backup)
  SaveOutcomes   \* what ConfigStore::save may answer: {TRUE}, or BOOLEAN

Named(names) == {names[i] : i \in DOMAIN names}

(* The apps of the device's own: built-in, or of a script. *)
Installed == Named(Builtins) \cup Named(Scripts)

Preferences == [id: Installed \cup Pushed, enabled: BOOLEAN]

AppOrderAssumption ==
  /\ Builtins \in Seq(Installed) /\ Scripts \in Seq(Installed)
  /\ IsInjective(Builtins \o Scripts)
  /\ Installed \cap Pushed = {}
  /\ Restores \subseteq Seq(Preferences)
  /\ SaveOutcomes \subseteq BOOLEAN
  /\ MaxApps >= Len(Builtins) + Len(Scripts)

VARIABLES
  apps,      \* registry_
  moved,     \* registry_.revision() # persistedAppRevision_
  order,     \* settings_.apps.order, in memory
  stored,    \* the order in the stored settings document
  scripts,   \* ids in the script store, in memory
  edited,    \* scripts_->revision() # persistedScriptRevision_
  blob       \* ids in the stored scripts (kScriptStateKey)

vars == <<apps, moved, order, stored, scripts, edited, blob>>
arrangement == <<apps, moved, order, stored>>
library == <<scripts, edited, blob>>

-----------------------------------------------------------------------------
NewApp(id, source, enabled) ==
  [id |-> id, source |-> source, enabled |-> enabled, deadline |-> "none"]

(* rememberAppOrder: everything but the temporary apps. *)
Recorded(reg) ==
  LET permanent == Kept(reg, {i \in DOMAIN reg : reg[i].source # "temporary"})
  IN  [i \in DOMAIN permanent |->
         [id |-> permanent[i].id, enabled |-> permanent[i].enabled]]

BuiltinApps == [i \in DOMAIN Builtins |-> NewApp(Builtins[i], "system", TRUE)]

(* loadScripts gives every stored script without an app one at the end. *)
ScriptApps(ids) == [i \in DOMAIN ids |-> NewApp(ids[i], "local", TRUE)]

(* Fault: the order is applied before the apps of the scripts exist. *)
BootedOnce(wanted, ids) == ApplyOrder(BuiltinApps, wanted) \o ScriptApps(ids)

(* initialize and setScriptRunner: the order is applied to the built-ins   *)
(* and once more when the apps of the scripts exist.                       *)
Booted(wanted, ids) ==
  LET builtins == ApplyOrder(BuiltinApps, wanted)
  IN  IF ids = <<>> THEN builtins ELSE ApplyOrder(builtins \o ScriptApps(ids), wanted)

Init ==
  /\ apps = Booted(<<>>, Scripts)
  /\ moved = TRUE
  /\ order = <<>>
  /\ stored = <<>>
  /\ scripts = Scripts /\ blob = Scripts
  /\ edited = FALSE

-----------------------------------------------------------------------------
(* Requests that change the registry; each bumps its revision. *)

Change(reg) ==
  /\ apps' = reg
  /\ moved' = TRUE
  /\ UNCHANGED <<order, stored>>

Edit(reg) == Change(reg) /\ UNCHANGED library

(* An integration creates its app, or refreshes it in place (PUT): the     *)
(* contents are new, the place and the switch are not.                     *)
Push(id) ==
  Edit(Put(apps, IF id \in Ids(apps) THEN Find(apps, id) ELSE NewApp(id, "remote", TRUE)))

Delete(id) ==
  /\ id \in Ids(apps)
  /\ Find(apps, id).source = "remote"
  /\ Edit(Without(apps, id))

(* PATCH: the switch, and perhaps a new place. *)
Patch(id, enabled, place) ==
  /\ id \in Ids(apps)
  /\ place \in {0} \cup DOMAIN apps
  /\ LET put == Put(apps, [Find(apps, id) EXCEPT !.enabled = enabled])
     IN  Edit(IF place = 0 THEN put ELSE Move(put, id, place))

(* POST /scripts: a script that is new goes to the end of the store, and   *)
(* one without an app gets it.                                             *)
PutScript(id) ==
  /\ scripts' = IF id \in Named(scripts) THEN scripts ELSE Append(scripts, id)
  /\ edited' = TRUE
  /\ IF id \in Ids(apps)
     THEN UNCHANGED arrangement
     ELSE Change(Put(apps, NewApp(id, "local", TRUE)))
  /\ UNCHANGED blob

(* DELETE /scripts/{id}: the script goes, and its app with it.             *)
DeleteScript(id) ==
  /\ id \in Named(scripts)
  /\ scripts' = Kept(scripts, {i \in DOMAIN scripts : scripts[i] # id})
  /\ edited' = TRUE
  /\ IF id \in Ids(apps) THEN Change(Without(apps, id)) ELSE UNCHANGED arrangement
  /\ UNCHANGED blob

(* DELETE /scripts: all of them go, and their apps stay.                   *)
ClearScripts ==
  /\ scripts' = <<>>
  /\ edited' = TRUE
  /\ UNCHANGED <<arrangement, blob>>

(* The settings document is replaced and saved; the registry is left to    *)
(* the next tick.                                                          *)
Restore(wanted) ==
  /\ order' = wanted
  /\ \E saved \in SaveOutcomes : stored' = IF saved THEN wanted ELSE stored
  /\ UNCHANGED <<apps, moved, library>>

(* Any other setting changes: the document is saved, with the order as the *)
(* memory has it.                                                          *)
SaveSettings ==
  /\ stored' = order
  /\ UNCHANGED <<apps, moved, order, library>>

(* POST /system/reset that includes the apps: those of scripts go with the *)
(* pushed ones, and the arrangement is forgotten.  (Without the apps it is *)
(* a SaveSettings: the order is carried over.)                             *)
FactoryReset ==
  /\ apps' = SystemOnly(apps)
  /\ moved' = TRUE
  /\ order' = <<>>
  /\ \E saved \in SaveOutcomes : stored' = IF saved THEN <<>> ELSE stored
  /\ UNCHANGED library

-----------------------------------------------------------------------------
(* persistScriptsIfChanged, earlier in the turn than the order.  A write   *)
(* that fails is logged and not tried again.                               *)
KeepScripts ==
  /\ edited' = FALSE
  /\ IF edited
     THEN \E saved \in SaveOutcomes : blob' = IF saved THEN scripts ELSE blob
     ELSE UNCHANGED blob
  /\ UNCHANGED scripts

(* persistAppOrderIfChanged; a save that fails is not tried again either.  *)
Remember ==
  /\ moved
  /\ moved' = FALSE
  /\ order' = Recorded(apps)
  /\ \E saved \in SaveOutcomes : stored' = IF saved THEN Recorded(apps) ELSE stored
  /\ UNCHANGED apps

Reapply ==
  /\ ~moved
  /\ order # <<>>
  /\ order # Recorded(apps)
  /\ apps' = ApplyOrder(apps, order)
  /\ UNCHANGED <<moved, order, stored>>

InStep == ~moved /\ (order = <<>> \/ order = Recorded(apps))

(* A tick at which they are in step leaves the arrangement as it is. *)
Tick == KeepScripts /\ (Remember \/ Reapply \/ (InStep /\ UNCHANGED arrangement))

(* Power is lost, or the device restarts: only flash survives. *)
Reboot ==
  /\ apps' = Booted(stored, blob)
  /\ moved' = TRUE
  /\ order' = stored
  /\ scripts' = blob
  /\ edited' = FALSE
  /\ UNCHANGED <<stored, blob>>

Request ==
  \/ \E id \in Pushed : Push(id) \/ Delete(id)
  \/ \E id \in Installed \cup Pushed, enabled \in BOOLEAN, place \in 0..MaxApps :
       Patch(id, enabled, place)
  \/ \E id \in Named(Scripts) : PutScript(id) \/ DeleteScript(id)
  \/ ClearScripts
  \/ \E wanted \in Restores : Restore(wanted)
  \/ SaveSettings
  \/ FactoryReset

Next == Request \/ Tick \/ Reboot

Spec == Init /\ [][Next]_vars

-----------------------------------------------------------------------------
(* The device's own apps stay, through edits, reconciliation in either     *)
(* direction and restarts: a built-in app always, and the app of a script  *)
(* unless the script is deleted, a factory reset includes the apps, or the *)
(* device restarts with the script not in flash.                           *)
NoAppIsLost ==
  [][\A id \in Installed \cap Ids(apps) :
       \/ id \in Ids(apps')
       \/ /\ id \notin Named(Builtins)
          /\ DeleteScript(id) \/ FactoryReset \/ (Reboot /\ id \notin Named(blob))]_vars

(* "Writing a script creates its app, so the invariant is that every       *)
(* script has one" (ApiServer.cpp): not so after a factory reset.          *)
EveryScriptHasItsApp == \A i \in DOMAIN scripts : scripts[i] \in Ids(apps)

(* What is said of the apps that a restart brings back. *)
Lasting == Ids(apps) \cap (Named(Builtins) \cup Named(blob))

Own(preferences) ==
  Kept(preferences, {i \in DOMAIN preferences : preferences[i].id \in Lasting})

(* An arrangement that was written down survives a restart: the device's   *)
(* own apps, as far as their scripts are in flash, come back in the order, *)
(* and with the switches, they had.  (An app that a factory reset took     *)
(* away and the restart brings back has no place to compare.)              *)
OrderSurvivesRestart ==
  [][stored = Recorded(apps) /\ Reboot => Own(Recorded(apps')) = Own(Recorded(apps))]_vars

(* While flash can be written, whatever the user arranges reaches it with  *)
(* the next tick at which nothing new has happened, so that a power cut    *)
(* costs one turn of the loop at most.                                     *)
WrittenDown == InStep /\ order # <<>> => stored = order

(* "The two directions must not fight" (test_host.cpp): a restored         *)
(* arrangement of exactly the apps there are is applied once and leaves    *)
(* nothing to reconcile.  Any other is applied on every tick (README).     *)
FullOrderSettles ==
  [][Ids(order) = Ids(apps) /\ Reapply => order = Recorded(apps')]_vars
=============================================================================
