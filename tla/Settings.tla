------------------------------ MODULE Settings ------------------------------
(***************************************************************************)
(* The settings document: the copy in memory, the one in flash, and the    *)
(* spare beside it.                                                        *)
(*                                                                         *)
(* A change reaches memory at once and flash in two atomic writes: the     *)
(* document in flash is copied to the spare, then replaced.  The power can *)
(* go between the two; a write can fail; a copy can go bad where it lies;  *)
(* another version of the firmware can have run in between and written     *)
(* documents of its own schema.  Four settings stand for all of them: a    *)
(* byte that an older schema kept as a percentage, a period in which zero  *)
(* is special, and the two halves of the password.                         *)
(***************************************************************************)
EXTENDS Integers

CONSTANTS
  Current,       \* kCurrentSchemaVersion of the firmware at hand
  Brightnesses,  \* numbers a client may send as a brightness
  Periods,       \* numbers a client may send as a blink period
  MaxSaves,      \* bound: how many times something is saved
  MaxFaults      \* bound: copies that go bad, and visits of other firmware

VARIABLES
  memory,     \* settings_
  primary,    \* the value under "config"
  spare,      \* the value under "config.bak"
  saving,     \* how far ConfigStore::save is: "no", "spare", "primary"
  kept,       \* history: what the last save that succeeded wrote
  mode,       \* "normal" or "safe", chosen by the boot record
  saves,      \* history: saves begun
  faults,     \* history: faults so far
  previous    \* history: what was in flash before that save, or Unknown if the
              \* copy in flash was not readable or the spare was not written

vars == <<memory, primary, spare, saving, kept, mode, saves, faults, previous>>

-----------------------------------------------------------------------------
Clamp(low, high, value) == IF value < low THEN low ELSE IF value > high THEN high ELSE value

ClampToByte(value) == Clamp(0, 255, value)

(* Zero holds the colon lit, so it has to survive. *)
ClampPeriod(value) == IF value <= 0 THEN 0 ELSE Clamp(100, 60000, value)

Defaults == [brightness |-> 128, period |-> 1000, user |-> FALSE, password |-> FALSE]

Unknown == [state |-> "unknown"]
Absent == [state |-> "absent"]
Damaged == [state |-> "damaged"]
Document(schema, settings) == [state |-> "intact", schema |-> schema, settings |-> settings]

(* deserialize refuses a bad checksum and a schema from the future. *)
Readable(copy) == copy.state = "intact" /\ copy.schema <= Current

(* Schema 1 kept the brightness as a percentage. *)
Parse(copy) ==
  [copy.settings EXCEPT
     !.brightness = ClampToByte(IF copy.schema < 2 THEN (@ * 255 + 50) \div 100 ELSE @),
     !.period = ClampPeriod(@)]

(* ConfigStore::load: the primary, else the spare, else the defaults. *)
Load(first, second) ==
  IF Readable(first) THEN Parse(first)
  ELSE IF Readable(second) THEN Parse(second)
  ELSE Defaults

Init ==
  /\ memory = Defaults
  /\ primary = Absent
  /\ spare = Absent
  /\ saving = "no"
  /\ kept = Defaults
  /\ mode = "normal"
  /\ saves = 0
  /\ faults = 0
  /\ previous = Unknown

-----------------------------------------------------------------------------
(* What a PATCH may carry, one section of the document at a time. *)
AcceptBrightness(value) == value \in 0..255
AcceptPeriod(value) == value \in {0} \cup 100..60000

(* Fault: only a request that sets the user is looked at. *)
AcceptWebAsSent(settings, sent) == sent.user => settings.password

(* Half of a password locks everybody out, so the merged result counts. *)
AcceptWeb(settings, sent) == settings.user => settings.password

Change(settings) ==
  /\ saving = "no"
  /\ saves < MaxSaves
  /\ memory' = settings
  /\ saving' = "spare"
  /\ saves' = saves + 1
  /\ UNCHANGED <<primary, spare, kept, mode, faults, previous>>

(* A PATCH works on a copy and is accepted as a whole or not at all. *)
Patch ==
  \/ \E value \in Brightnesses :
       AcceptBrightness(value) /\ Change([memory EXCEPT !.brightness = value])
  \/ \E value \in Periods :
       AcceptPeriod(value) /\ Change([memory EXCEPT !.period = value])
  \/ \E user, password \in BOOLEAN :
       LET sent == [user |-> user # memory.user, password |-> password # memory.password]
           settings == [memory EXCEPT !.user = user, !.password = password]
       IN  AcceptWeb(settings, sent) /\ Change(settings)

(* performRescue: the way back in is cleared and nothing else. *)
Rescue == Change([memory EXCEPT !.user = FALSE, !.password = FALSE])

(* handleReset; and, with the settings as they are, the app order that is  *)
(* written down whenever the registry has moved.  Safe mode writes no      *)
(* order.                                                                  *)
Reset == Change(Defaults)
SaveOrder == mode = "normal" /\ Change(memory)

-----------------------------------------------------------------------------
NewDocument == Document(Current, memory)

Replaces == primary # Absent /\ primary # NewDocument

(* The document in flash becomes the spare, readable or not. *)
SpareIsOld == Replaces /\ spare' = primary

(* Unless it is what is about to be written.  Whether the write failed is  *)
(* not asked.                                                              *)
WriteSpare ==
  /\ saving = "spare"
  /\ saving' = "primary"
  /\ \/ SpareIsOld /\ previous' = primary
     \/ ~Replaces /\ UNCHANGED <<spare, previous>>
     \/ Replaces /\ UNCHANGED spare /\ previous' = Unknown
  /\ UNCHANGED <<memory, primary, kept, mode, saves, faults>>

(* The write is atomic; one that fails is answered with an error. *)
WritePrimary ==
  /\ saving = "primary"
  /\ saving' = "no"
  /\ \/ primary' = NewDocument /\ kept' = memory
     \/ UNCHANGED <<primary, kept>>
  /\ UNCHANGED <<memory, spare, mode, saves, faults, previous>>

(* A power cut or a restart, at any point.  Safe mode ignores what is      *)
(* stored: a bad value in it may be why the boots failed.                  *)
Boot(next) ==
  /\ mode' = next
  /\ memory' = IF next = "safe" THEN Defaults ELSE Load(primary, spare)
  /\ saving' = "no"
  /\ UNCHANGED <<primary, spare, kept, saves, faults, previous>>

(* The document in flash goes bad: torn or flipped bits, which is what the *)
(* checksum is for.                                                        *)
Decay ==
  /\ saving = "no"
  /\ faults < MaxFaults
  /\ primary # Absent
  /\ primary' = Damaged
  /\ faults' = faults + 1
  /\ UNCHANGED <<memory, spare, saving, kept, mode, saves, previous>>

(* Another version of the firmware ran, changed a setting and saved it its *)
(* own way; then this one is installed again and boots.                    *)
Visit(schema) ==
  /\ saving = "no"
  /\ faults < MaxFaults
  /\ spare' = IF primary = Absent THEN spare ELSE primary
  /\ primary' = Document(schema, [Defaults EXCEPT !.brightness = 100])
  /\ faults' = faults + 1
  /\ mode' = "normal"
  /\ memory' = Load(primary', spare')
  /\ previous' = Unknown
  /\ UNCHANGED <<saving, kept, saves>>

Next ==
  \/ Patch \/ Rescue \/ Reset \/ SaveOrder
  \/ WriteSpare \/ WritePrimary
  \/ \E next \in {"normal", "safe"} : Boot(next)
  \/ Decay
  \/ \E schema \in {Current - 1, Current + 1} : Visit(schema)

Spec == Init /\ [][Next]_vars

-----------------------------------------------------------------------------
(* What a save that succeeded wrote is what the next boot reads, to the    *)
(* last value at the edge of its range: accepting, writing, parsing and    *)
(* clamping agree, wherever the power went and whichever write failed      *)
(* since.                                                                  *)
SavedIsReadBack ==
  [][Boot("normal") /\ faults = 0 /\ primary # Absent => memory' = kept]_vars

(* One bad copy costs one change and no more: when the document in flash   *)
(* goes bad, what a boot brings back is the document before it, never the  *)
(* defaults of a new device.  (Provided that one was readable and the      *)
(* spare could be written.)                                                *)
OneBadCopyCostsOneChange ==
  primary = Damaged /\ saving = "no" /\ previous # Unknown /\ Readable(previous)
    => Load(primary, spare) = Parse(previous)

(* Nobody is locked out by half a password, whatever order the two halves  *)
(* are set, cleared, saved, migrated and recovered in.                     *)
NeverHalfAPassword == memory.user => memory.password

(* Both: whichever copy a boot has to do with, the device opens with it.   *)
EveryCopyServes == OneBadCopyCostsOneChange /\ NeverHalfAPassword

(* "The backup holds the last value that was good enough to be replaced,   *)
(* which is the whole point of writing it" (Config.cpp): saving does not   *)
(* put a document that cannot be read over a spare that can.               *)
TheSpareIsGoodEnough == [][WriteSpare /\ Readable(spare) => Readable(spare')]_vars
=============================================================================
