----------------------------- MODULE BootLadder -----------------------------
(***************************************************************************)
(* From power-on to a boot that counts as finished, and what happens when  *)
(* boots do not finish.  Two ladders share one device:                     *)
(*                                                                         *)
(*   - the startup shim counts boots in /data/stipple/attempts and chooses *)
(*     the override, the copy flashed beside it, or the stock clock;       *)
(*   - ApplicationHost keeps a boot record in its storage and chooses safe *)
(*     mode, in which it ignores the stored settings.                      *)
(*                                                                         *)
(* A boot is finished when frames render: the host resets its record, and  *)
(* the main loop then removes the shim's count.  Between, the firmware     *)
(* upload (Tc002Upgrade) replaces the override, one file operation at a    *)
(* time.  Power may be lost between any two writes to flash, and a write   *)
(* may fail, which the code ignores on purpose or reports.                 *)
(***************************************************************************)
EXTENDS Integers

CONSTANTS
  Builds,            \* versions of the application
  Flashed,           \* /res/lib/libstipple.so: the one flashed with the shim
  Uploads,           \* versions somebody may upload
  Behaviour,         \* what each version does when it is started
  SafeAt,            \* safeModeThreshold: 3
  SkipOverrideAt,    \* kSkipOverrideAt: 5
  SkipEverythingAt,  \* kSkipEverythingAt: 8
  MaxCount,          \* a larger count is nonsense and read as 0: 1000
  MaxFailures,       \* a recorded count is clamped to it: 100
  MaxFaults,         \* bound of the model: faults between finished boots
  Torn,              \* a file that is not written completely
  None

(* "unloadable": dlopen refuses it, or it declines to start.  "broken":    *)
(* starts and never finishes a boot.  "fragile": does not finish one with  *)
(* the stored settings.                                                    *)
Behaviours == {"sound", "fragile", "broken", "unloadable"}

(* An upload that is byte for byte the flashed copy has a name of its own. *)
BootLadderAssumption ==
  /\ Flashed \in Builds
  /\ Uploads \subseteq Builds \ {Flashed}
  /\ Behaviour \in [Builds -> Behaviours]
  /\ SafeAt \in Nat /\ SkipOverrideAt \in Nat /\ SkipEverythingAt \in Nat
  /\ MaxCount \in Nat /\ MaxFailures \in Nat /\ MaxFaults \in Nat
  /\ 0 < SafeAt /\ SafeAt < SkipOverrideAt /\ SafeAt <= MaxFailures
  /\ SkipOverrideAt < SkipEverythingAt /\ SkipEverythingAt <= MaxCount
  /\ None \notin Builds /\ Torn \notin Builds /\ Torn # None

VARIABLES
  attempts,   \* the shim's count
  failures,   \* BootRecord::consecutiveFailures
  completed,  \* BootRecord::lastBootCompleted
  override,   \* libstipple.so.override
  previous,   \* libstipple.so.previous
  incoming,   \* libstipple.so.incoming
  stored,     \* the settings document in flash
  phase,      \* how far this boot has come
  running,    \* the version that was loaded
  settings,   \* settings_: what the application runs with
  job,        \* the upload being installed
  faults,     \* power cuts and failed writes since one was finished (history)
  exchanged   \* an unfinished boot exchanged the override since (history)

counters == <<attempts, failures, completed>>
files    == <<override, previous, incoming>>
process  == <<phase, running, settings>>
history  == <<faults, exchanged>>
vars     == <<counters, files, process, stored, job, history>>

Idle == [step |-> "none", image |-> None, displaced |-> None]

Init ==
  /\ attempts = 0 /\ failures = 0 /\ completed = TRUE
  /\ override = None /\ previous = None /\ incoming = None
  /\ stored = "users"
  /\ phase = "off" /\ running = None /\ settings = "defaults"
  /\ job = Idle
  /\ faults = 0 /\ exchanged = FALSE

-----------------------------------------------------------------------------
(* The shim: count the attempt, then load the first candidate that loads.  *)

Loads(b) == b \in Builds /\ Behaviour[b] # "unloadable"

Count == IF attempts > MaxCount THEN 0 ELSE attempts

(* The first of the candidates that loads. *)
FirstOf(skipped) ==
  IF ~skipped /\ Loads(override) THEN override
  ELSE IF Loads(Flashed) THEN Flashed
  ELSE None

(* Fault: the override is tried at every boot. *)
ChosenNeverSkipping == FirstOf(FALSE)

Chosen ==
  IF Count >= SkipEverythingAt THEN None ELSE FirstOf(Count >= SkipOverrideAt)

Fault == faults < MaxFaults /\ faults' = faults + 1

(* A write of the count.  One that fails leaves the file as it was, or     *)
(* opened and empty, which reads as 0.                                     *)
Attempts(new) ==
  \/ attempts' = new /\ UNCHANGED faults
  \/ attempts' \in {attempts, 0} /\ Fault

Boot ==
  /\ phase = "off"
  /\ Attempts(Count + 1)
  /\ running' = Chosen
  /\ phase' = IF Chosen = None THEN "stock" ELSE "starting"
  /\ UNCHANGED <<failures, completed, files, stored, settings, job, exchanged>>

-----------------------------------------------------------------------------
(* The application.                                                        *)

Failures ==
  LET read == IF failures > MaxFailures THEN MaxFailures ELSE failures
  IN  IF completed THEN read ELSE read + 1

Record(count, finished) ==
  \/ failures' = count /\ completed' = finished /\ UNCHANGED faults
  \/ UNCHANGED <<failures, completed>> /\ Fault

(* Fault: the record of the boot before is left standing. *)
InitializeUnmarked ==
  /\ phase = "starting"
  /\ Record(Failures, completed)
  /\ settings' = IF Failures >= SafeAt THEN "defaults" ELSE stored
  /\ phase' = "running"
  /\ UNCHANGED <<attempts, files, stored, running, job, exchanged>>

(* initialize, up to loading the settings (or not). *)
Initialize ==
  /\ phase = "starting"
  /\ Record(Failures, FALSE)
  /\ settings' = IF Failures >= SafeAt THEN "defaults" ELSE stored
  /\ phase' = "running"
  /\ UNCHANGED <<attempts, files, stored, running, job, exchanged>>

Finishes ==
  \/ Behaviour[running] = "sound"
  \/ Behaviour[running] = "fragile" /\ settings # "users"

Serving == phase \in {"running", "up"} /\ job = Idle

(* The process ends before its boot is finished; it takes a power cycle to *)
(* start another.                                                          *)
Die ==
  /\ \/ phase = "starting" /\ Behaviour[running] = "broken"
     \/ phase = "running" /\ job = Idle /\ ~Finishes
  /\ phase' = "off"
  /\ UNCHANGED <<counters, files, running, settings, stored, job, history>>

MarkHealthy ==
  /\ phase = "running" /\ job = Idle
  /\ Finishes
  /\ Record(0, TRUE)
  /\ phase' = "healthy"
  /\ UNCHANGED <<attempts, files, running, settings, stored, job, exchanged>>

(* The main loop, on the same signal.  The history starts over if nothing  *)
(* is left of it.                                                          *)
ClearAttempts ==
  /\ phase = "healthy"
  /\ \/ /\ attempts' = 0
        /\ IF completed /\ failures = 0 THEN faults' = 0 /\ exchanged' = FALSE
           ELSE UNCHANGED history
     \/ Fault /\ UNCHANGED <<attempts, exchanged>>
  /\ phase' = "up"
  /\ UNCHANGED <<failures, completed, files, running, settings, stored, job>>

(* Any change of a setting, the rescue gesture included, saves the whole   *)
(* document the application runs with.                                     *)
SaveSettings ==
  /\ Serving
  /\ stored' = settings
  /\ UNCHANGED <<counters, files, process, job, history>>

-----------------------------------------------------------------------------
(* Tc002Upgrade::install, one file operation at a time; each may fail.     *)
(* The loop serves no other request and draws no frame meanwhile.          *)

Step(name) == job' = [job EXCEPT !.step = name]

Abandon == incoming' = None /\ job' = Idle

Elsewhere == UNCHANGED <<counters, process, stored, faults>>

Untouched  == Elsewhere /\ UNCHANGED exchanged
Exchanging == Elsewhere /\ exchanged' = (exchanged \/ phase # "up")

Install(b) ==
  /\ Serving
  /\ incoming' = Torn
  /\ job' = [step |-> "write", image |-> b, displaced |-> override]
  /\ UNCHANGED <<override, previous>>
  /\ Untouched

WriteWhole ==
  /\ job.step = "write"
  /\ \/ /\ incoming' = job.image
        /\ Step(IF override = None THEN "place" ELSE "drop")
     \/ Abandon
  /\ UNCHANGED <<override, previous>>
  /\ Untouched

DropPrevious ==
  /\ job.step = "drop"
  /\ previous' \in {None, previous}
  /\ Step("aside")
  /\ UNCHANGED <<override, incoming>>
  /\ Untouched

(* Fault: the displaced version is removed, not renamed. *)
RemoveInstead ==
  /\ job.step = "aside"
  /\ override' = None
  /\ Step("place")
  /\ UNCHANGED <<previous, incoming>>
  /\ Untouched

SetAside ==
  /\ job.step = "aside"
  /\ \/ /\ previous' = override
        /\ override' = None
        /\ Step("place")
        /\ UNCHANGED incoming
     \/ Abandon /\ UNCHANGED <<override, previous>>
  /\ Untouched

Place ==
  /\ job.step = "place"
  /\ \/ /\ override' = incoming
        /\ UNCHANGED previous
     \/ /\ override' = IF previous = None THEN override ELSE previous
        /\ previous' = None
     \/ UNCHANGED <<override, previous>>
  /\ Abandon
  /\ Exchanging

Rollback ==
  /\ Serving
  /\ previous # None
  /\ override' = previous
  /\ previous' = None
  /\ UNCHANGED <<incoming, job>>
  /\ Exchanging

InstallStep == WriteWhole \/ DropPrevious \/ SetAside \/ Place

-----------------------------------------------------------------------------
Stop ==
  /\ phase' = "off"
  /\ job' = Idle
  /\ UNCHANGED <<counters, files, running, settings, stored>>

(* A restart, or the plug, once the boot is finished or in the stock clock.*)
Restart ==
  /\ phase \in {"up", "stock"} /\ job = Idle
  /\ Stop
  /\ UNCHANGED history

PowerCut ==
  /\ phase \in {"starting", "running", "healthy"} \/ job # Idle
  /\ Fault
  /\ UNCHANGED exchanged
  /\ Stop

Next ==
  \/ Boot \/ Initialize \/ Die \/ MarkHealthy \/ ClearAttempts \/ SaveSettings
  \/ (\E b \in Uploads : Install(b)) \/ InstallStep \/ Rollback
  \/ Restart \/ PowerCut

(* A device that is off is switched on again; the process makes progress;  *)
(* a loop busy with uploads still ticks between any two of them.           *)
Spec ==
  /\ Init /\ [][Next]_vars
  /\ WF_vars(Boot) /\ WF_vars(Initialize) /\ WF_vars(ClearAttempts)
  /\ WF_vars(InstallStep)
  /\ SF_vars(MarkHealthy) /\ SF_vars(Die)

-----------------------------------------------------------------------------
Files == Builds \cup {None}

TypeOK ==
  /\ attempts \in 0..(MaxCount + 1)
  /\ failures \in 0..(MaxFailures + 1) /\ completed \in BOOLEAN
  /\ {override, previous, incoming} \subseteq Files \cup {Torn}
  /\ stored \in {"users", "defaults"} /\ settings \in {"users", "defaults"}
  /\ phase \in {"off", "starting", "running", "healthy", "up", "stock"}
  /\ running \in Files
  /\ job \in [step: {"none", "write", "drop", "aside", "place"},
              image: Files, displaced: Files \cup {Torn}]
  /\ faults \in 0..MaxFaults /\ exchanged \in BOOLEAN

(* "The cheap remedy" comes first: a version that only needs default       *)
(* settings to start is never passed over for the flashed one, unless a    *)
(* write failed or power was cut, or it was uploaded amidst the unfinished *)
(* boots of the version before, whose count it inherits.                   *)
UpdateOutlivesBadSettings ==
  running = Flashed /\ phase = "starting" /\ Loads(override)
    => Behaviour[override] = "broken" \/ faults > 0 \/ exchanged

(* With a sound copy in flash, an upload however bad never costs the user  *)
(* the application: the stock clock comes up only after enough faults to   *)
(* spend the rungs between.                                                *)
StockIsLastResort ==
  phase = "stock" /\ Behaviour[Flashed] = "sound"
    => faults >= SkipEverythingAt - SkipOverrideAt

(* Both: no rung of the ladder is taken before the cheaper one below it.   *)
RungsAreTakenInTurn == UpdateOutlivesBadSettings /\ StockIsLastResort

(* A version that an upload displaces stays on flash, to be run or to roll *)
(* back to, at every step of the installation and whichever step fails.    *)
DisplacedIsKept ==
  [][job # Idle /\ job.displaced # None => job.displaced \in {override', previous'}]_vars

(* However often a boot fails, one finishes in the end, or the stock clock *)
(* runs: no version can keep the device in a loop of unfinished boots.     *)
AlwaysComesBack == []<>(phase \in {"up", "stock"})

(* "It clears only the password.  Apps, settings and arrangement are kept" *)
(* (docs/recovery.md): the rescue saves no other settings than the user's. *)
RescueKeepsSettings == [][SaveSettings => stored' = stored]_vars
=============================================================================
