------------------------------ MODULE FlashFiles ------------------------------
(***************************************************************************)
(* Two files in flash under power cuts and failing calls.                  *)
(*                                                                         *)
(* The file of a storage key is replaced by way of a temporary one beside  *)
(* it: written, flushed, renamed over the old one, and then the directory  *)
(* is flushed.  The configuration of the supplicant is written in place,   *)
(* and only where there is none.                                           *)
(*                                                                         *)
(* A name that was changed since its directory was flushed may be found    *)
(* after a cut as it was before any of the changes; contents that were     *)
(* never flushed may be found in any state.                                *)
(***************************************************************************)
EXTENDS Integers, FiniteSets

CONSTANTS
  Values,     \* what callers write
  Large,      \* those of more than kMaxValueBytes
  MaxFaults   \* bound: calls that fail, and cuts

VARIABLES
  file,        \* what the path of the key leads to
  temporary,   \* the file beside it; what a cut leaves of it is never read
  flash,       \* what the path may lead to after a cut
  stage,       \* how far write() or remove() has come
  answered,    \* history: what the last call that answered true left there
  skipped,     \* history: a directory was not flushed since then
  conf,        \* the configuration of the supplicant
  writingConf, \* ensureSupplicantConfig() has created the file
  faults

store == <<file, temporary, flash, stage, answered, skipped>>
config == <<conf, writingConf>>
vars == <<store, config, faults>>

Absent == [value |-> "none", whole |-> TRUE, flushed |-> TRUE]

Files == [value : Values \cup {"none"}, whole : BOOLEAN, flushed : BOOLEAN]

TypeOK ==
  /\ file \in Files /\ temporary \in Files
  /\ flash \subseteq Files
  /\ stage \in {"idle", "opened", "written", "flushed", "renamed", "removed"}
  /\ answered \in Values \cup {"none"}
  /\ skipped \in BOOLEAN
  /\ conf \in {"absent", "empty", "whole", "kept"}
  /\ writingConf \in BOOLEAN
  /\ faults \in Nat

Init ==
  /\ file = Absent /\ temporary = Absent
  /\ flash = {Absent}
  /\ stage = "idle"
  /\ answered = "none"
  /\ skipped = FALSE
  /\ conf \in {"absent", "kept"}
  /\ writingConf = FALSE
  /\ faults = 0

-----------------------------------------------------------------------------
(* write(). *)

Fault ==
  /\ faults < MaxFaults
  /\ faults' = faults + 1

(* Any call before the rename may fail: the temporary file goes, and the   *)
(* caller is told.                                                         *)
GiveUp ==
  /\ Fault
  /\ stage' = "idle"
  /\ temporary' = Absent
  /\ UNCHANGED <<file, flash, answered, skipped, config>>

Advance(to) ==
  /\ stage' = to
  /\ UNCHANGED <<answered, config, faults>>

(* O_TRUNC takes what a cut has left of an earlier one. *)
Open(v) ==
  /\ stage = "idle" /\ v \notin Large
  /\ temporary' = [value |-> v, whole |-> FALSE, flushed |-> FALSE]
  /\ Advance("opened")
  /\ UNCHANGED <<file, flash, skipped>>

Write ==
  /\ stage = "opened"
  /\ \/ /\ temporary' = [temporary EXCEPT !.whole = TRUE]
        /\ Advance("written")
        /\ UNCHANGED <<file, flash, skipped>>
     \/ GiveUp

(* Fault: the rename is enough. *)
FlushNothing ==
  /\ stage = "written"
  /\ Advance("flushed")
  /\ UNCHANGED <<file, temporary, flash, skipped>>

Flush ==
  /\ stage = "written"
  /\ \/ /\ temporary' = [temporary EXCEPT !.flushed = TRUE]
        /\ Advance("flushed")
        /\ UNCHANGED <<file, flash, skipped>>
     \/ GiveUp

Rename ==
  /\ stage = "flushed"
  /\ \/ /\ file' = temporary
        /\ temporary' = Absent
        /\ flash' = flash \cup {file'}
        /\ Advance("renamed")
        /\ UNCHANGED skipped
     \/ GiveUp

(* remove(): a name that is not there is not removed. *)
Unlink ==
  /\ stage = "idle" /\ file # Absent
  /\ file' = Absent
  /\ flash' = flash \cup {Absent}
  /\ Advance("removed")
  /\ UNCHANGED <<temporary, skipped>>

(* syncDirectory(): whether it worked is not looked at. *)
FlushDirectory ==
  /\ stage \in {"renamed", "removed"}
  /\ stage' = "idle"
  /\ answered' = file.value
  /\ \/ flash' = {file} /\ skipped' = FALSE /\ UNCHANGED faults
     \/ Fault /\ skipped' = TRUE /\ UNCHANGED flash
  /\ UNCHANGED <<file, temporary, config>>

-----------------------------------------------------------------------------
(* ensureSupplicantConfig(): "kept" is a file of the user's own networks. *)

CreateConf ==
  /\ conf = "absent"
  /\ conf' = "empty"
  /\ writingConf' = TRUE
  /\ UNCHANGED <<store, faults>>

(* What could not be written whole is taken away again. *)
WriteConf ==
  /\ writingConf
  /\ writingConf' = FALSE
  /\ \/ conf' = "whole" /\ UNCHANGED faults
     \/ Fault /\ conf' = "absent"
  /\ UNCHANGED store

-----------------------------------------------------------------------------
(* After a cut the path leads to one of the files it may lead to, whole if *)
(* it was flushed and otherwise in any state; the configuration, which     *)
(* nothing flushes, may be found empty.                                    *)
Found(f) == IF f.flushed THEN {f} ELSE [value : {f.value}, whole : BOOLEAN, flushed : {TRUE}]

PowerCut ==
  /\ Fault
  /\ file' \in UNION {Found(f) : f \in flash}
  /\ flash' = {file'}
  /\ temporary' = Absent
  /\ stage' = "idle"
  /\ answered' = file'.value
  /\ skipped' = FALSE
  /\ conf' \in IF conf = "whole" THEN {"whole", "empty"} ELSE {conf}
  /\ writingConf' = FALSE

Next ==
  \/ \E v \in Values : Open(v)
  \/ Write
  \/ Flush
  \/ Rename
  \/ Unlink
  \/ FlushDirectory
  \/ CreateConf
  \/ WriteConf
  \/ PowerCut

Spec == Init /\ [][Next]_vars

-----------------------------------------------------------------------------
(* Whatever call fails and whenever the power goes, the key is found as a  *)
(* whole file that was written, never as a part of one, and a write that   *)
(* was given up has left what was there (Tc002Storage::write).             *)
NeverAPart == \A f \in flash \cup {file} : f.whole /\ f.flushed

(* What a call has answered true to is there, and is there after a cut,    *)
(* except where the directory could not be flushed.                        *)
AnswersAreKept ==
  stage \notin {"renamed", "removed"} =>
    /\ file.value = answered
    /\ ~skipped => flash = {file}

(* Both of them. *)
WholeAndKept == NeverAPart /\ AnswersAreKept

(* The configuration that the device writes for itself is never found      *)
(* begun and not ended, because nothing would ever end it.                 *)
ConfIsWhole == ~writingConf => conf # "empty"
=============================================================================
