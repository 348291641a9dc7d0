------------------------------ MODULE Library ------------------------------
(***************************************************************************)
(* The icons and the scripts: two stores in memory, each with a blob in    *)
(* flash that is written by the next turn of the loop after the store's    *)
(* revision has moved, and the apps through which scripts are shown.       *)
(*                                                                         *)
(* Requests change the stores between turns; a running script keeps values *)
(* of its own; a write is refused when the blob is larger than flash takes *)
(* or when it fails; a restart in normal mode loads the blobs, in safe     *)
(* mode it does not.  A blob may come to be one that this firmware cannot  *)
(* read: spoilt, or of another version.                                    *)
(***************************************************************************)
EXTENDS Integers, FiniteSets, FiniteSetsExt, SequencesExt

CONSTANTS
  IconIds,      \* ids of icons
  Sizes,        \* sizes of icons
  Budget,       \* kMaxTotalBytes of the icon store
  MaxIcons,     \* kMaxIcons
  FlashLimit,   \* the largest blob a key holds
  ScriptIds,    \* ids of scripts
  ScriptSize,   \* what a script takes in the blob
  MaxScripts,   \* kMaxScripts
  Rooms         \* places in the app registry that other apps may leave free

VARIABLES
  icons,         \* IconStore: for each icon there is, its size
  iconsMoved,    \* icons_.revision() # persistedIconRevision_
  iconBlob,      \* what flash holds of the icons
  scripts,       \* ScriptStore: a sequence of scripts
  scriptsMoved,  \* scripts_->revision() # persistedScriptRevision_
  scriptBlob,    \* what flash holds of the scripts
  shown,         \* the scripts that have an app in the registry
  room,          \* how many apps of scripts the registry has a place for
  unreadable,    \* "icons" or "scripts", whose blob cannot be deserialized
  mode,          \* "normal" or "safe"
  unwritten,     \* history: "icons" or "scripts", whose last write was refused
  asked          \* history: a request or a script has changed something since
                 \* the start

iconVars == <<icons, iconsMoved, iconBlob>>
scriptVars == <<scripts, scriptsMoved, scriptBlob, shown, room>>
vars == <<iconVars, scriptVars, unreadable, mode, unwritten, asked>>

-----------------------------------------------------------------------------
Weight(set) == MapThenSumSet(LAMBDA id : set[id], DOMAIN set)

NoIcons == [id \in {} |-> 0]

IdsOf(library) == {library[i].id : i \in DOMAIN library}

Place(library, id) == CHOOSE i \in DOMAIN library : library[i].id = id

(* A fresh interpreter: nothing set in its form, nothing kept by itself. *)
Fresh(id) == [id |-> id, setting |-> "unset", own |-> "none"]

Init ==
  /\ icons = NoIcons /\ iconBlob = NoIcons
  /\ scripts = <<>> /\ scriptBlob = <<>>
  /\ iconsMoved = FALSE /\ scriptsMoved = FALSE
  /\ shown = {}
  /\ room \in Rooms
  /\ unreadable = {}
  /\ mode = "normal"
  /\ unwritten = {}
  /\ asked = FALSE

-----------------------------------------------------------------------------
(* Icons. *)

EditIcons(set) ==
  /\ icons' = set
  /\ iconsMoved' = TRUE
  /\ asked' = TRUE
  /\ UNCHANGED <<iconBlob, scriptVars, unreadable, mode, unwritten>>

(* Replacing frees the old one first; one more counts against both limits. *)
PutIcon(id, size) ==
  LET others == [other \in DOMAIN icons \ {id} |-> icons[other]]
  IN  /\ Weight(others) + size <= Budget
      /\ id \in DOMAIN icons \/ Cardinality(DOMAIN icons) < MaxIcons
      /\ EditIcons([other \in DOMAIN icons \cup {id} |->
                      IF other = id THEN size ELSE icons[other]])

RemoveIcon(id) ==
  /\ id \in DOMAIN icons
  /\ EditIcons([other \in DOMAIN icons \ {id} |-> icons[other]])

ClearIcons == EditIcons(NoIcons)

-----------------------------------------------------------------------------
(* Scripts. *)

EditScripts(library, apps) ==
  /\ scripts' = library
  /\ scriptsMoved' = TRUE
  /\ asked' = TRUE
  /\ shown' = apps
  /\ UNCHANGED <<iconVars, scriptBlob, room, unreadable, mode, unwritten>>

(* A script that is there keeps its place, so that saving an edit does not *)
(* shuffle the carousel; its values go with the interpreter that had them. *)
With(library, script) ==
  IF script.id \in IdsOf(library)
  THEN [library EXCEPT ![Place(library, script.id)] = script]
  ELSE Append(library, script)

(* A script without an app gets one, if the registry has a place. *)
Admitted(apps, id) ==
  IF id \in apps \/ Cardinality(apps) < room THEN apps \cup {id} ELSE apps

PostScript(id) ==
  /\ id \in IdsOf(scripts) \/ Len(scripts) < MaxScripts
  /\ EditScripts(With(scripts, Fresh(id)), Admitted(shown, id))

(* Its app goes with it. *)
DeleteScript(id) ==
  /\ id \in IdsOf(scripts)
  /\ EditScripts(SelectSeq(scripts, LAMBDA other : other.id # id), shown \ {id})

(* DELETE of the collection empties the store and leaves the registry. *)
ClearScripts ==
  /\ scripts # <<>>
  /\ EditScripts(<<>>, shown)

(* Fault: the value is set and the library not marked as changed. *)
SetSettingUnmarked(id, value) ==
  /\ scripts' = [scripts EXCEPT ![Place(scripts, id)].setting = value]
  /\ asked' = TRUE
  /\ UNCHANGED <<iconVars, scriptsMoved, scriptBlob, shown, room, unreadable, mode, unwritten>>

SetSetting(id, value) ==
  EditScripts([scripts EXCEPT ![Place(scripts, id)].setting = value], shown)

(* PATCH with a form: field after field, until one does not fit.  Here two *)
(* fields are sent and the second is the one that is refused, or is not.   *)
PatchAccepted(id) == id \in IdsOf(scripts) /\ SetSetting(id, "both")
PatchRefused(id) == id \in IdsOf(scripts) /\ SetSetting(id, "first")

(* store.set in the middle of a frame, which marks nothing. *)
Keep(id) ==
  /\ id \in IdsOf(scripts)
  /\ scripts' = [scripts EXCEPT ![Place(scripts, id)].own = "score"]
  /\ asked' = TRUE
  /\ UNCHANGED <<iconVars, scriptsMoved, scriptBlob, shown, room, unreadable, mode, unwritten>>

(* Other apps come and go in the registry. *)
Crowd(places) ==
  /\ Cardinality(shown) <= places
  /\ room' = places
  /\ UNCHANGED <<iconVars, scripts, scriptsMoved, scriptBlob, shown, unreadable, mode,
                 unwritten, asked>>

(* POST /system/reset with the apps: every app but the system's goes, and  *)
(* the icons; the scripts stay.                                            *)
Reset ==
  /\ icons' = NoIcons
  /\ iconsMoved' = TRUE
  /\ asked' = TRUE
  /\ shown' = {}
  /\ UNCHANGED <<iconBlob, scripts, scriptsMoved, scriptBlob, room, unreadable, mode, unwritten>>

-----------------------------------------------------------------------------
(* A write that is too large is refused, and any other may be; one that    *)
(* is not leaves a blob that can be read.                                  *)
Refused(store, size) ==
  {unwritten \cup {store}} \cup (IF size > FlashLimit THEN {} ELSE {unwritten \ {store}})

Unread(store, refused) == IF store \in refused THEN unreadable ELSE unreadable \ {store}

(* persistIconsIfChanged; an empty store removes the key.  The revision is *)
(* taken as written before the write, so one that fails is not repeated.   *)
PersistIcons ==
  /\ iconsMoved
  /\ iconsMoved' = FALSE
  /\ \E refused \in Refused("icons", Weight(icons)) :
       /\ unwritten' = refused
       /\ unreadable' = Unread("icons", refused)
       /\ iconBlob' = IF "icons" \in refused THEN iconBlob ELSE icons
  /\ UNCHANGED <<icons, scriptVars, mode, asked>>

(* persistScriptsIfChanged, the same. *)
PersistScripts ==
  /\ ~iconsMoved /\ scriptsMoved
  /\ scriptsMoved' = FALSE
  /\ \E refused \in Refused("scripts", ScriptSize * Len(scripts)) :
       /\ unwritten' = refused
       /\ unreadable' = Unread("scripts", refused)
       /\ scriptBlob' = IF "scripts" \in refused THEN scriptBlob ELSE scripts
  /\ UNCHANGED <<iconVars, scripts, shown, room, mode, asked>>

(* Flash decays, or another version of the firmware wrote it. *)
Decay ==
  /\ unreadable' \in {unreadable \cup {store} :
                       store \in (IF iconBlob = NoIcons THEN {} ELSE {"icons"})
                               \cup (IF scriptBlob = <<>> THEN {} ELSE {"scripts"})}
  /\ UNCHANGED <<iconVars, scriptVars, mode, unwritten, asked>>

(* Fault: the revisions are compared with those of an empty store. *)
LoadedMarked(next) == next = "safe"

(* What is loaded, or not loaded, is not a change. *)
Loaded(next) == FALSE

(* loadIcons and loadScripts: normal mode only.  A blob that cannot be     *)
(* read is removed there and then, if that works, and the store stays      *)
(* empty.  Every script loaded gets its app, first come first served.      *)
Boot(next) ==
  /\ mode' = next
  /\ icons' = IF next = "normal" /\ "icons" \notin unreadable THEN iconBlob ELSE NoIcons
  /\ scripts' = IF next = "normal" /\ "scripts" \notin unreadable THEN scriptBlob ELSE <<>>
  /\ \E removed \in IF next = "normal" THEN SUBSET unreadable ELSE {{}} :
       /\ unreadable' = unreadable \ removed
       /\ iconBlob' = IF "icons" \in removed THEN NoIcons ELSE iconBlob
       /\ scriptBlob' = IF "scripts" \in removed THEN <<>> ELSE scriptBlob
  /\ iconsMoved' = Loaded(next) /\ scriptsMoved' = Loaded(next)
  /\ shown' = FoldLeft(Admitted, {}, [i \in DOMAIN scripts' |-> scripts'[i].id])
  /\ unwritten' = {}
  /\ asked' = FALSE
  /\ UNCHANGED room

Request ==
  \/ \E id \in IconIds : RemoveIcon(id) \/ \E size \in Sizes : PutIcon(id, size)
  \/ ClearIcons
  \/ \E id \in ScriptIds :
       PostScript(id) \/ DeleteScript(id) \/ PatchAccepted(id) \/ PatchRefused(id)
  \/ ClearScripts
  \/ \E places \in Rooms : Crowd(places)
  \/ Reset

Next ==
  \/ Request
  \/ \E id \in ScriptIds : Keep(id)
  \/ PersistIcons \/ PersistScripts
  \/ Decay
  \/ \E next \in {"normal", "safe"} : Boot(next)

Spec == Init /\ [][Next]_vars

-----------------------------------------------------------------------------
(* But for what a script keeps by itself. *)
Asked(library) == [i \in DOMAIN library |-> [library[i] EXCEPT !.own = "none"]]

(* Whatever requests added, replaced, moved, set or deleted, in whichever  *)
(* order, is in flash with the next turn of the loop unless that write was *)
(* refused or flash has decayed: nothing deleted comes back with a         *)
(* restart, and no value set in a form is forgotten by one.                *)
WhatWasAskedIsInFlash ==
  mode = "normal" =>
    /\ iconsMoved \/ "icons" \in unwritten \cup unreadable \/ iconBlob = icons
    /\ \/ scriptsMoved
       \/ "scripts" \in unwritten \cup unreadable
       \/ Asked(scriptBlob) = Asked(scripts)

(* A start costs nothing that could have been read, and in safe mode,      *)
(* where the stores are empty and flash is not, nothing at all: until      *)
(* something is asked for, a blob is left as it is unless a start in       *)
(* normal mode found it unreadable.                                        *)
StartingCostsNothing ==
  [][~asked =>
       /\ iconBlob' = iconBlob \/ ("icons" \in unreadable /\ mode' = "normal")
       /\ scriptBlob' = scriptBlob \/ ("scripts" \in unreadable /\ mode' = "normal")]_vars

(* "Saving an edit must not silently wipe somebody's channel ID.  The      *)
(* value lives in the store, which a replacement carries over"             *)
(* (test_script_config.cpp).                                               *)
AnEditKeepsTheValues ==
  [][\A id \in IdsOf(scripts) : PostScript(id) =>
       scripts'[Place(scripts', id)].setting = scripts[Place(scripts, id)].setting]_vars

(* "Every field or none.  A partial apply leaves the device in a state the *)
(* person who sent it did not ask for and cannot see" (ApiServer.cpp).     *)
EveryFieldOrNone == [][\A id \in ScriptIds : PatchRefused(id) => UNCHANGED scripts]_vars
=============================================================================
