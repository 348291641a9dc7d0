---------------------------- MODULE StorageProofs ----------------------------
(***************************************************************************)
(* What is kept in flash is kept: of the files of the storage, of the      *)
(* settings and their spare, and of the library, for every value of the    *)
(* constants and any number of saves, faults and power cuts.               *)
(***************************************************************************)
EXTENDS Storage, TLAPS

-----------------------------------------------------------------------------
(* Files.                                                                  *)
(* The files and the stage, as far as the argument needs their types.      *)
FilesTyped ==
  /\ file \in Files /\ temporary \in Files
  /\ flash \subseteq Files
  /\ stage \in {"idle", "opened", "written", "flushed", "renamed", "removed"}

(* By the time the temporary file is renamed it is whole and flushed.      *)
InOrder ==
  /\ stage \in {"written", "flushed"} => temporary.whole
  /\ stage = "flushed" => temporary.flushed

FilesInv == FilesTyped /\ InOrder /\ NeverAPart /\ AnswersAreKept

LEMMA FilesInitially == Init => FilesInv
BY DEF Init, FilesInv, FilesTyped, InOrder, NeverAPart, AnswersAreKept, Files, Absent

(* Whatever a caller gives up leaves the file and all that may be found.   *)
LEMMA GiveUpKeeps == FilesInv /\ stage \in {"opened", "written",
"flushed"} /\ GiveUp => FilesInv'
BY DEF GiveUp, Fault, FilesInv, FilesTyped, InOrder, NeverAPart, AnswersAreKept, Files, Absent,
       config

(* Nothing unflushed is ever at the path, so a cut finds one of the files  *)
(* that were there.                                                        *)
LEMMA CutFinds == ASSUME FilesInv, PowerCut PROVE file' \in flash
<1>1. \A f \in flash : Found(f) = {f}
  BY DEF Found, FilesInv, NeverAPart
<1>2. PICK f \in flash : file' \in Found(f)
  BY DEF PowerCut
<1>3. QED BY <1>1, <1>2

LEMMA FilesInductive == FilesInv /\ [Next]_vars => FilesInv'
<1> SUFFICES ASSUME FilesInv, [Next]_vars PROVE FilesInv'
  OBVIOUS
<1> USE DEF FilesInv, FilesTyped, InOrder, NeverAPart, AnswersAreKept
<1>1. CASE \E v \in Values : Open(v)
  <2>1. PICK v \in Values : Open(v) BY <1>1
  <2>2. temporary' \in Files BY <2>1 DEF Open, Files
  <2>3. QED BY <2>1, <2>2 DEF Open, Advance, config
<1>2. CASE Write
  <2>1. CASE GiveUp BY <1>2, <2>1, GiveUpKeeps DEF Write
  <2>2. CASE ~GiveUp
    <3>1. temporary' \in Files /\ temporary'.whole
      BY <1>2, <2>2 DEF Write, Files, Absent
    <3>2. QED BY <1>2, <2>2, <3>1 DEF Write, Advance, config
  <2>3. QED BY <2>1, <2>2
<1>3. CASE Flush
  <2>1. CASE GiveUp BY <1>3, <2>1, GiveUpKeeps DEF Flush
  <2>2. CASE ~GiveUp
    <3>1. temporary' \in Files /\ temporary'.whole /\ temporary'.flushed
      BY <1>3, <2>2 DEF Flush, Files, Absent
    <3>2. QED BY <1>3, <2>2, <3>1 DEF Flush, Advance, config
  <2>3. QED BY <2>1, <2>2
<1>4. CASE Rename
  <2>1. CASE GiveUp BY <1>4, <2>1, GiveUpKeeps DEF Rename
  <2>2. CASE ~GiveUp
    <3>1. Absent \in Files BY DEF Files, Absent
    <3>2. /\ file' = temporary /\ temporary' = Absent /\ flash' = flash \cup {file'}
          /\ stage = "flushed" /\ stage' = "renamed"
      BY <1>4, <2>2 DEF Rename, Advance
    <3>3. QED BY <3>1, <3>2
  <2>3. QED BY <2>1, <2>2
<1>5. CASE Unlink
  <2>1. Absent \in Files /\ Absent.whole /\ Absent.flushed
    BY DEF Files, Absent
  <2>2. /\ file' = Absent /\ flash' = flash \cup {Absent} /\ temporary' = temporary
        /\ stage' = "removed"
    BY <1>5 DEF Unlink, Advance
  <2>3. QED BY <2>1, <2>2
<1>6. CASE FlushDirectory
  BY <1>6 DEF FlushDirectory, Fault, config
<1>7. CASE CreateConf \/ WriteConf
  BY <1>7 DEF CreateConf, WriteConf, store
<1>8. CASE PowerCut
  <2>1. file' \in flash BY <1>8, CutFinds
  <2>2. temporary' = Absent /\ Absent \in Files
    BY <1>8 DEF PowerCut, Files, Absent
  <2>3. flash' = {file'} /\ stage' = "idle" /\ answered' = file'.value
    BY <1>8 DEF PowerCut
  <2>4. QED BY <2>1, <2>2, <2>3
<1>9. CASE UNCHANGED vars
  BY <1>9 DEF vars, store
<1>10. QED
  BY <1>1, <1>2, <1>3, <1>4, <1>5, <1>6, <1>7, <1>8, <1>9 DEF Next

(* For every set of values, and however often calls fail and the power is  *)
(* cut, a key is found whole and what was answered is kept                 *)
(* (Tc002Storage::write and remove).                                       *)
THEOREM FilesAreWholeAndKept == Spec => []WholeAndKept
<1>1. FilesInv => WholeAndKept
  BY DEF FilesInv, WholeAndKept
<1>2. QED
  BY FilesInitially, FilesInductive, <1>1, PTL DEF Spec

-----------------------------------------------------------------------------
(* Settings.                                                               *)
(* What opens the device: nothing is asked of the other values.            *)
Settled(settings) ==
  settings \in [brightness : Int, period : Int, user : BOOLEAN, password : BOOLEAN]

Opens(settings) == settings.user => settings.password

Sound(copy) == S!Readable(copy) => Settled(copy.settings) /\ Opens(copy.settings)

(* Half a password is in no copy that a boot may read; and the spare is    *)
(* what was in flash before the last save, if that is known.               *)
SettingsInv ==
  /\ Settled(memory) /\ Opens(memory)
  /\ Sound(primary) /\ Sound(spare)
  /\ previous # S!Unknown => spare = previous

-----------------------------------------------------------------------------
(* Clamping does not touch the password, and gives numbers for numbers.    *)
LEMMA ClampingIsNumeric ==
  ASSUME NEW value \in Int
  PROVE  S!ClampToByte(value) \in Int /\ S!ClampPeriod(value) \in Int
  BY DEF S!ClampToByte, S!ClampPeriod, S!Clamp

LEMMA ParsedIsSettled ==
  ASSUME NEW copy, S!Readable(copy), Sound(copy)
  PROVE  Settled(S!Parse(copy)) /\ Opens(S!Parse(copy))
<1> DEFINE s == copy.settings
           b == IF copy.schema < 2 THEN (s.brightness * 255 + 50) \div 100 ELSE s.brightness
<1>1. s \in [brightness : Int, period : Int, user : BOOLEAN, password : BOOLEAN] /\ Opens(s)
  BY DEF Sound, Settled
<1>2. b \in Int
  BY <1>1
<1> HIDE DEF b
<1>3. S!ClampToByte(b) \in Int /\ S!ClampPeriod(s.period) \in Int
  BY <1>1, <1>2, ClampingIsNumeric
<1>4. S!Parse(copy) = [s EXCEPT !.brightness = S!ClampToByte(b),
!.period = S!ClampPeriod(s.period)]
  BY DEF S!Parse, b
<1>5. S!Parse(copy).user = s.user /\ S!Parse(copy).password = s.password
  BY <1>1, <1>4
<1> QED
  BY <1>1, <1>3, <1>4, <1>5 DEF Settled, Opens

(* Other values have nothing to do with the password. *)
LEMMA NumbersDoNotLock ==
  ASSUME NEW settings, Settled(settings), Opens(settings), NEW n \in Int
  PROVE  /\ Settled([settings EXCEPT !.brightness = n]) /\ Opens([settings EXCEPT !.brightness = n])
         /\ Settled([settings EXCEPT !.period = n]) /\ Opens([settings EXCEPT !.period = n])
  BY DEF Settled, Opens

LEMMA DefaultsAreSettled == Settled(S!Defaults) /\ Opens(S!Defaults)
  BY DEF S!Defaults, Settled, Opens

LEMMA VisitorsAreSettled ==
  Settled([S!Defaults EXCEPT !.brightness = 100]) /\ Opens([S!Defaults EXCEPT !.brightness = 100])
<1>1. 100 \in Int
  OBVIOUS
<1> QED
  BY <1>1, DefaultsAreSettled, NumbersDoNotLock, Zenon

LEMMA AcceptedIsNumeric ==
  ASSUME NEW value
  PROVE  /\ S!AcceptBrightness(value) => value \in Int
         /\ S!AcceptPeriod(value) => value \in Int
<1>1. S!AcceptBrightness(value) => value \in Int
  BY SMT DEF S!AcceptBrightness
<1>2. S!AcceptPeriod(value) => value \in Int
  BY SMT DEF S!AcceptPeriod
<1> QED
  BY <1>1, <1>2

LEMMA LoadedIsSettled ==
  ASSUME NEW first, NEW second, Sound(first), Sound(second)
  PROVE  Settled(S!Load(first, second)) /\ Opens(S!Load(first, second))
  BY ParsedIsSettled, DefaultsAreSettled DEF S!Load

LEMMA DocumentsAreSound ==
  ASSUME NEW schema, NEW settings, Settled(settings), Opens(settings)
  PROVE  Sound(S!Document(schema, settings))
  BY DEF S!Document, Sound

LEMMA NoDocumentIsSound == Sound(S!Absent) /\ Sound(S!Damaged)
  BY DEF S!Absent, S!Damaged, Sound, S!Readable

-----------------------------------------------------------------------------
LEMMA SettingsInitially == S!Init => SettingsInv
  BY DefaultsAreSettled, NoDocumentIsSound DEF S!Init, SettingsInv

(* A change of the settings: whatever is accepted opens.                   *)
LEMMA ChangesKeep ==
  ASSUME SettingsInv, NEW settings, S!Change(settings), Settled(settings), Opens(settings)
  PROVE  SettingsInv'
  BY DEF S!Change, SettingsInv, Sound, S!Readable

LEMMA PatchesKeep == SettingsInv /\ S!Patch => SettingsInv'
<1> SUFFICES ASSUME SettingsInv, S!Patch PROVE SettingsInv'
  OBVIOUS
<1>0. Settled(memory) /\ Opens(memory)
  BY DEF SettingsInv
<1>1. ASSUME NEW value \in Brightnesses, S!AcceptBrightness(value),
             S!Change([memory EXCEPT !.brightness = value])
      PROVE  SettingsInv'
  <2>1. Settled([memory EXCEPT !.brightness = value]) /\ Opens([memory EXCEPT !.brightness = value])
    BY <1>0, <1>1, NumbersDoNotLock, AcceptedIsNumeric, Zenon
  <2> QED
    BY <1>1, <2>1, ChangesKeep
<1>2. ASSUME NEW value \in Periods, S!AcceptPeriod(value),
S!Change([memory EXCEPT !.period = value])
      PROVE  SettingsInv'
  <2>1. value \in Int
    BY <1>2, AcceptedIsNumeric, Zenon
  <2>2. Settled([memory EXCEPT !.period = value]) /\ Opens([memory EXCEPT !.period = value])
    BY <1>0, <2>1, NumbersDoNotLock, Zenon
  <2> QED
    BY <1>2, <2>2, ChangesKeep
<1>3. ASSUME NEW user \in BOOLEAN, NEW password \in BOOLEAN,
             user => password, S!Change([memory EXCEPT !.user = user, !.password = password])
      PROVE  SettingsInv'
  <2> DEFINE settings == [memory EXCEPT !.user = user, !.password = password]
  <2>1. Settled(settings) /\ settings.user = user /\ settings.password = password
    BY <1>0 DEF Settled
  <2>2. Opens(settings)
    BY <1>3, <2>1 DEF Opens
  <2> QED
    BY <1>3, <2>1, <2>2, ChangesKeep
<1>4. ASSUME NEW user \in BOOLEAN, NEW password \in BOOLEAN,
             LET sent == [user |-> user # memory.user, password |-> password # memory.password]
                 settings == [memory EXCEPT !.user = user, !.password = password]
             IN  S!AcceptWeb(settings, sent) /\ S!Change(settings)
      PROVE  SettingsInv'
  <2> DEFINE settings == [memory EXCEPT !.user = user, !.password = password]
  <2>1. settings.user = user /\ settings.password = password
    BY <1>0 DEF Settled
  <2>2. S!Change(settings) /\ (user => password)
    BY <1>4, <2>1 DEF S!AcceptWeb
  <2> QED
    BY <1>3, <2>2
<1> QED
  BY <1>1, <1>2, <1>4 DEF S!Patch

(* The rescue clears both halves. *)
LEMMA RescuesKeep == SettingsInv /\ S!Rescue => SettingsInv'
<1> SUFFICES ASSUME SettingsInv, S!Rescue PROVE SettingsInv'
  OBVIOUS
<1> DEFINE settings == [memory EXCEPT !.user = FALSE, !.password = FALSE]
<1>1. Settled(memory)
  BY DEF SettingsInv
<1>2. Settled(settings) /\ Opens(settings)
  BY <1>1 DEF Settled, Opens
<1> QED
  BY <1>2, ChangesKeep DEF S!Rescue

(* The two writes: the spare becomes what the primary was, or what it was  *)
(* before is no longer known.                                              *)
LEMMA WritesKeep == SettingsInv /\ (S!WriteSpare \/ S!WritePrimary) => SettingsInv'
<1> SUFFICES ASSUME SettingsInv, S!WriteSpare \/ S!WritePrimary PROVE SettingsInv'
  OBVIOUS
<1>1. CASE S!WriteSpare
  BY <1>1 DEF SettingsInv, S!WriteSpare, S!SpareIsOld, Sound, S!Readable, S!Unknown
<1>2. CASE S!WritePrimary
  <2>1. Sound(S!NewDocument)
    BY DocumentsAreSound DEF S!NewDocument, SettingsInv
  <2> QED
    BY <1>2, <2>1 DEF SettingsInv, S!WritePrimary, Sound, S!Readable
<1> QED
  BY <1>1, <1>2

(* What happens to the document behind the back of this firmware.          *)
LEMMA OutsidersKeep ==
  ASSUME SettingsInv, S!Decay \/ \E schema \in {Current - 1, Current + 1} : S!Visit(schema)
  PROVE  SettingsInv'
<1>1. CASE S!Decay
  BY <1>1, NoDocumentIsSound DEF S!Decay, SettingsInv, Sound, S!Readable
<1>2. ASSUME NEW schema \in {Current - 1, Current + 1}, S!Visit(schema) PROVE SettingsInv'
  <2>2. Sound(primary')
    BY <1>2, VisitorsAreSettled, DocumentsAreSound, Zenon DEF S!Visit
  <2>3. Sound(spare')
    BY <1>2 DEF S!Visit, SettingsInv
  <2>4. Settled(memory') /\ Opens(memory')
    BY <1>2, <2>2, <2>3, LoadedIsSettled DEF S!Visit
  <2> QED
    BY <1>2, <2>2, <2>3, <2>4 DEF S!Visit, SettingsInv, Sound, S!Readable
<1> QED
  BY <1>1, <1>2

LEMMA BootsKeep ==
  ASSUME SettingsInv, NEW next \in {"normal", "safe"}, S!Boot(next)
  PROVE  SettingsInv'
<1>1. Settled(memory') /\ Opens(memory')
  BY LoadedIsSettled, DefaultsAreSettled DEF S!Boot, SettingsInv
<1> QED
  BY <1>1 DEF S!Boot, SettingsInv, Sound, S!Readable

LEMMA SettingsInductive == SettingsInv /\ [S!Next]_(S!vars) => SettingsInv'
<1> SUFFICES ASSUME SettingsInv, [S!Next]_(S!vars) PROVE SettingsInv'
  OBVIOUS
<1>1. CASE S!Reset
  BY <1>1, ChangesKeep, DefaultsAreSettled DEF S!Reset
<1>2. CASE S!SaveOrder
  BY <1>2, ChangesKeep DEF S!SaveOrder, SettingsInv
<1>3. CASE UNCHANGED S!vars
  BY <1>3 DEF S!vars, SettingsInv, Sound, S!Readable
<1> QED
  BY <1>1, <1>2, <1>3, PatchesKeep, RescuesKeep, WritesKeep, OutsidersKeep, BootsKeep DEF S!Next

(* A document that has gone bad in flash is no document: a boot reads the  *)
(* spare, which is the one before it.                                      *)
LEMMA SettingsInvSuffices == SettingsInv => S!EveryCopyServes
<1> SUFFICES ASSUME SettingsInv PROVE S!EveryCopyServes
  OBVIOUS
<1>1. S!OneBadCopyCostsOneChange
  BY DEF SettingsInv, S!OneBadCopyCostsOneChange, S!Load, S!Readable, S!Damaged
<1>2. S!NeverHalfAPassword
  BY DEF SettingsInv, S!NeverHalfAPassword, Opens
<1> QED
  BY <1>1, <1>2 DEF S!EveryCopyServes

(* Whichever writes fail and wherever the power goes: a copy that has gone *)
(* bad costs the last change and no more, and the two halves of the        *)
(* password come and go together, in memory and in every copy.             *)
THEOREM CopiesServe == S!Spec => []EveryCopyServes
  BY SettingsInitially, SettingsInductive, SettingsInvSuffices, PTL DEF S!Spec, EveryCopyServes

-----------------------------------------------------------------------------
(* Numbers that a client may send are numbers that a parser leaves alone.  *)
InByte(n) == 0 <= n /\ n <= 255
InPeriod(n) == n = 0 \/ (100 <= n /\ n <= 60000)

Acceptable(s) == Settled(s) /\ InByte(s.brightness) /\ InPeriod(s.period)

(* As long as no copy goes bad and no other firmware visits, flash has     *)
(* nothing or what was saved last.                                         *)
ReadBackInv ==
  /\ spoilt \in Nat
  /\ spoilt = 0 =>
       /\ Acceptable(memory) /\ Acceptable(kept)
       /\ primary = S!Absent => spare = S!Absent
       /\ primary # S!Absent => primary = S!Document(Current, kept)

LEMMA RangesAreLeftAlone ==
  ASSUME NEW n \in Int
  PROVE  /\ InByte(n) => S!ClampToByte(n) = n
         /\ InPeriod(n) => S!ClampPeriod(n) = n
<1>1. InByte(n) => S!ClampToByte(n) = n
  BY SMT DEF InByte, S!ClampToByte, S!Clamp
<1>2. InPeriod(n) => S!ClampPeriod(n) = n
  BY SMT DEF InPeriod, S!ClampPeriod, S!Clamp
<1> QED
  BY <1>1, <1>2

LEMMA AcceptableIsLeftAlone ==
  ASSUME Current \in Nat, Current >= 2, NEW s, Acceptable(s)
  PROVE  S!Parse(S!Document(Current, s)) = s
<1>1. s \in [brightness : Int, period : Int, user : BOOLEAN, password : BOOLEAN]
  BY DEF Acceptable, Settled
<1>2. S!ClampToByte(s.brightness) = s.brightness /\ S!ClampPeriod(s.period) = s.period
  BY <1>1, RangesAreLeftAlone DEF Acceptable
<1>3. ~(Current < 2)
  BY SMT
<1>4. s = [s EXCEPT !.brightness = s.brightness, !.period = s.period]
  BY <1>1
<1> QED
  BY <1>2, <1>3, <1>4 DEF S!Parse, S!Document

LEMMA DefaultsAreAcceptable == Acceptable(S!Defaults)
<1>1. InByte(128) /\ InPeriod(1000)
  BY SMT DEF InByte, InPeriod
<1> QED
  BY <1>1, DefaultsAreSettled DEF S!Defaults, Acceptable

LEMMA AcceptedIsAcceptable ==
  ASSUME NEW s, Acceptable(s), NEW value
  PROVE  /\ S!AcceptBrightness(value) => Acceptable([s EXCEPT !.brightness = value])
         /\ S!AcceptPeriod(value) => Acceptable([s EXCEPT !.period = value])
         /\ \A u, p \in BOOLEAN : Acceptable([s EXCEPT !.user = u, !.password = p])
<1>1. S!AcceptBrightness(value) => value \in Int /\ InByte(value)
  BY SMT DEF S!AcceptBrightness, InByte
<1>2. S!AcceptPeriod(value) => value \in Int /\ InPeriod(value)
  BY SMT DEF S!AcceptPeriod, InPeriod
<1>3. s \in [brightness : Int, period : Int, user : BOOLEAN, password : BOOLEAN]
  BY DEF Acceptable, Settled
<1>4. S!AcceptBrightness(value) => Acceptable([s EXCEPT !.brightness = value])
  BY <1>1, <1>3 DEF Acceptable, Settled
<1>5. S!AcceptPeriod(value) => Acceptable([s EXCEPT !.period = value])
  BY <1>2, <1>3 DEF Acceptable, Settled
<1>6. \A u, p \in BOOLEAN : Acceptable([s EXCEPT !.user = u, !.password = p])
  BY <1>3 DEF Acceptable, Settled
<1> QED
  BY <1>4, <1>5, <1>6

LEMMA ReadBackInitially == S!Init => ReadBackInv
  BY DefaultsAreAcceptable DEF S!Init, ReadBackInv

LEMMA ChangesAreReadBack ==
  ASSUME ReadBackInv, NEW s, S!Change(s), Acceptable(memory) => Acceptable(s)
  PROVE  ReadBackInv'
  BY DEF ReadBackInv, S!Change

(* What a boot without faults reads is what was kept.                      *)
LEMMA BootsReadBack ==
  ASSUME Current \in Nat, Current >= 2, ReadBackInv, spoilt = 0
  PROVE  /\ primary # S!Absent => S!Load(primary, spare) = kept
         /\ Acceptable(S!Load(primary, spare))
<1>1. CASE primary = S!Absent
  BY <1>1, DefaultsAreAcceptable DEF ReadBackInv, S!Load, S!Readable, S!Absent
<1>2. CASE primary # S!Absent
  <2>1. primary = S!Document(Current, kept) /\ Acceptable(kept)
    BY <1>2 DEF ReadBackInv
  <2>2. S!Readable(primary)
    BY <2>1, SMT DEF S!Readable, S!Document
  <2> QED
    BY <2>1, <2>2, AcceptableIsLeftAlone DEF S!Load
<1> QED
  BY <1>1, <1>2

LEMMA ReadBackInductive ==
  ASSUME Current \in Nat, Current >= 2, ReadBackInv, [S!Next]_(S!vars)
  PROVE  ReadBackInv'
<1>1. CASE S!Patch
  <2>1. ASSUME NEW s, S!Change(s), Acceptable(memory) => Acceptable(s) PROVE ReadBackInv'
    BY <2>1, ChangesAreReadBack
  <2>2. CASE \E value \in Brightnesses :
               S!AcceptBrightness(value) /\ S!Change([memory EXCEPT !.brightness = value])
    BY <2>1, <2>2, AcceptedIsAcceptable
  <2>3. CASE \E value \in Periods :
               S!AcceptPeriod(value) /\ S!Change([memory EXCEPT !.period = value])
    BY <2>1, <2>3, AcceptedIsAcceptable
  <2>4. CASE \E user, password \in BOOLEAN :
               S!Change([memory EXCEPT !.user = user, !.password = password])
    BY <2>1, <2>4, AcceptedIsAcceptable
  <2> QED
    BY <1>1, <2>2, <2>3, <2>4 DEF S!Patch
<1>2. CASE S!Rescue
  BY <1>2, ChangesAreReadBack, AcceptedIsAcceptable DEF S!Rescue
<1>3. CASE S!Reset \/ S!SaveOrder
  BY <1>3, ChangesAreReadBack, DefaultsAreAcceptable DEF S!Reset, S!SaveOrder
<1>4. CASE S!WriteSpare
  BY <1>4 DEF S!WriteSpare, S!SpareIsOld, S!Replaces, ReadBackInv
<1>5. CASE S!WritePrimary
  <2>1. S!NewDocument = S!Document(Current, memory) /\ S!NewDocument # S!Absent
    BY DEF S!NewDocument, S!Document, S!Absent
  <2> QED
    BY <1>5, <2>1 DEF S!WritePrimary, ReadBackInv
<1>6. ASSUME NEW next \in {"normal", "safe"}, S!Boot(next) PROVE ReadBackInv'
  BY <1>6, BootsReadBack, DefaultsAreAcceptable DEF S!Boot, ReadBackInv
<1>7. CASE S!Decay \/ \E schema \in {Current - 1, Current + 1} : S!Visit(schema)
  <2>1. spoilt \in Nat /\ spoilt' = spoilt + 1
    BY <1>7 DEF S!Decay, S!Visit, ReadBackInv
  <2> QED
    BY <2>1 DEF ReadBackInv
<1>8. CASE UNCHANGED S!vars
  BY <1>8 DEF S!vars, ReadBackInv
<1> QED
  BY <1>1, <1>2, <1>3, <1>4, <1>5, <1>6, <1>7, <1>8 DEF S!Next

(* Accepting, writing, parsing and clamping agree to the edge of every     *)
(* range, wherever the power went and whichever write failed: with the     *)
(* schema at hand, of which brightness is no longer a percentage           *)
(* (kCurrentSchemaVersion), a boot reads what the last save wrote.         *)
THEOREM SavesAreReadBack ==
  ASSUME Current \in Nat, Current >= 2
  PROVE  S!Spec => SavedIsReadBack
<1>1. ReadBackInv /\ [S!Next]_(S!vars)
        => [S!Boot("normal") /\ spoilt = 0 /\ primary # S!Absent => memory' = kept]_(S!vars)
  BY BootsReadBack DEF S!Boot
<1>2. S!Init => ReadBackInv
  BY ReadBackInitially
<1>3. ReadBackInv /\ [S!Next]_(S!vars) => ReadBackInv'
  BY ReadBackInductive
<1> QED
  BY <1>1, <1>2, <1>3, PTL DEF S!Spec, SavedIsReadBack, S!SavedIsReadBack

-----------------------------------------------------------------------------
(* The library.  Nothing is asked of the stores but that every edit raises *)
(* its flag; so the proofs never look into a sequence of scripts or a set  *)
(* of icons.                                                               *)
(* What keeps itself: the flags are down until something is asked for.     *)
FlagsAreAskedFor == ~asked => ~iconsMoved /\ ~scriptsMoved

(* What a script keeps by itself is not looked at.                         *)
LEMMA OwnValuesAreNotAsked ==
  ASSUME NEW library, NEW place, NEW value
  PROVE  L!Asked([library EXCEPT ![place].own = value]) = L!Asked(library)
  BY DEF L!Asked

-----------------------------------------------------------------------------
(* What was asked for is in flash, or about to be written, or was refused, *)
(* or has decayed there.                                                   *)
LEMMA LibraryInitially == L!Init => L!WhatWasAskedIsInFlash
  BY DEF L!Init, L!WhatWasAskedIsInFlash

LEMMA StepsKeepWhatWasAsked ==
  ASSUME L!WhatWasAskedIsInFlash, [L!Next]_(L!vars)
  PROVE  L!WhatWasAskedIsInFlash'
<1> USE DEF L!WhatWasAskedIsInFlash
<1>1. ASSUME NEW set, L!EditIcons(set) PROVE L!WhatWasAskedIsInFlash'
  BY <1>1 DEF L!EditIcons, L!scriptVars
<1>2. ASSUME NEW library, NEW apps, L!EditScripts(library, apps) PROVE L!WhatWasAskedIsInFlash'
  BY <1>2 DEF L!EditScripts, L!iconVars
<1>3. CASE L!Request
  <2>1. CASE \E id \in IconIds : L!RemoveIcon(id) \/ \E size \in Sizes : L!PutIcon(id, size)
    BY <2>1, <1>1 DEF L!RemoveIcon, L!PutIcon
  <2>2. CASE L!ClearIcons
    BY <2>2, <1>1 DEF L!ClearIcons
  <2>3. CASE \E id \in ScriptIds :
               L!PostScript(id) \/ L!DeleteScript(id) \/ L!PatchAccepted(id) \/ L!PatchRefused(id)
    BY <2>3, <1>2 DEF L!PostScript, L!DeleteScript, L!PatchAccepted, L!PatchRefused,
                      L!SetSetting
  <2>4. CASE L!ClearScripts
    BY <2>4, <1>2 DEF L!ClearScripts
  <2>5. CASE \E places \in Rooms : L!Crowd(places)
    BY <2>5 DEF L!Crowd, L!iconVars
  <2>6. CASE L!Reset
    BY <2>6 DEF L!Reset
  <2> QED
    BY <1>3, <2>1, <2>2, <2>3, <2>4, <2>5, <2>6 DEF L!Request
<1>4. ASSUME NEW id \in ScriptIds, L!Keep(id) PROVE L!WhatWasAskedIsInFlash'
  <2>1. L!Asked(scripts') = L!Asked(scripts)
    BY <1>4, OwnValuesAreNotAsked DEF L!Keep
  <2> QED
    BY <1>4, <2>1 DEF L!Keep, L!iconVars
<1>5. CASE L!PersistIcons
  BY <1>5 DEF L!PersistIcons, L!Refused, L!Unread, L!scriptVars
<1>6. CASE L!PersistScripts
  BY <1>6 DEF L!PersistScripts, L!Refused, L!Unread, L!iconVars
<1>7. ASSUME NEW next \in {"normal", "safe"}, L!Boot(next) PROVE L!WhatWasAskedIsInFlash'
  <2>1. PICK removed \in (IF next = "normal" THEN SUBSET unreadable ELSE {{}}) :
          /\ unreadable' = unreadable \ removed
          /\ iconBlob' = IF "icons" \in removed THEN L!NoIcons ELSE iconBlob
          /\ scriptBlob' = IF "scripts" \in removed THEN <<>> ELSE scriptBlob
    BY <1>7 DEF L!Boot
  <2>2. removed \subseteq unreadable
    BY <2>1
  <2>3. /\ libraryMode' = next
        /\ icons' = IF next = "normal" /\ "icons" \notin unreadable THEN iconBlob ELSE L!NoIcons
        /\ scripts' = IF next = "normal" /\ "scripts" \notin unreadable THEN scriptBlob ELSE <<>>
    BY <1>7 DEF L!Boot
  <2>4. CASE next = "safe"
    BY <2>3, <2>4
  <2>5. CASE next = "normal"
    <3>1. "icons" \in unreadable' \/ iconBlob' = icons'
      BY <2>1, <2>2, <2>3, <2>5
    <3>2. "scripts" \in unreadable' \/ scriptBlob' = scripts'
      BY <2>1, <2>2, <2>3, <2>5
    <3> QED
      BY <3>1, <3>2
  <2> QED
    BY <2>4, <2>5
<1>8. CASE L!Decay
  BY <1>8 DEF L!Decay, L!iconVars, L!scriptVars
<1>9. CASE UNCHANGED L!vars
  BY <1>9 DEF L!vars, L!iconVars, L!scriptVars
<1> QED
  BY <1>3, <1>4, <1>5, <1>6, <1>7, <1>8, <1>9 DEF L!Next

(* Whatever is put, deleted, set and cleared, in whichever order, and      *)
(* whichever boots come in between: what was asked for is in flash, unless *)
(* it is about to be written, the write was refused or flash has decayed   *)
(* since (ApplicationHost::persistIconsIfChanged, persistScriptsIfChanged, *)
(* loadIcons, loadScripts).                                                *)
THEOREM WhatWasAskedIsKept == L!Spec => []WhatWasAskedIsInFlash
  BY LibraryInitially, StepsKeepWhatWasAsked, PTL DEF L!Spec, WhatWasAskedIsInFlash

-----------------------------------------------------------------------------
LEMMA FlagsInitially == L!Init => FlagsAreAskedFor
  BY DEF L!Init, FlagsAreAskedFor

LEMMA StepsKeepFlags ==
  ASSUME FlagsAreAskedFor, [L!Next]_(L!vars)
  PROVE  FlagsAreAskedFor'
<1> USE DEF FlagsAreAskedFor
<1>1. CASE L!Request
  BY <1>1 DEF L!Request, L!RemoveIcon, L!PutIcon, L!ClearIcons, L!EditIcons, L!PostScript,
              L!DeleteScript,
              L!PatchAccepted, L!PatchRefused, L!SetSetting, L!ClearScripts, L!EditScripts,
              L!Crowd, L!Reset,
              L!iconVars
<1>2. ASSUME NEW id \in ScriptIds, L!Keep(id) PROVE FlagsAreAskedFor'
  BY <1>2 DEF L!Keep, L!iconVars
<1>3. CASE L!PersistIcons
  BY <1>3 DEF L!PersistIcons, L!scriptVars
<1>4. CASE L!PersistScripts
  BY <1>4 DEF L!PersistScripts, L!iconVars
<1>5. ASSUME NEW next \in {"normal", "safe"}, L!Boot(next) PROVE FlagsAreAskedFor'
  BY <1>5 DEF L!Boot, L!Loaded
<1>6. CASE L!Decay
  BY <1>6 DEF L!Decay, L!iconVars, L!scriptVars
<1>7. CASE UNCHANGED L!vars
  BY <1>7 DEF L!vars, L!iconVars, L!scriptVars
<1> QED
  BY <1>1, <1>2, <1>3, <1>4, <1>5, <1>6, <1>7 DEF L!Next

(* Only a write and a start in normal mode touch a blob; only a raised     *)
(* flag is written, and only what cannot be read is removed.               *)
Costless ==
  /\ iconBlob' = iconBlob \/ ("icons" \in unreadable /\ libraryMode' = "normal")
  /\ scriptBlob' = scriptBlob \/ ("scripts" \in unreadable /\ libraryMode' = "normal")

LEMMA UnaskedStepsCostNothing ==
  ASSUME FlagsAreAskedFor, [L!Next]_(L!vars), ~asked
  PROVE  Costless
<1>1. CASE L!Request
  <2>1. UNCHANGED <<iconBlob, scriptBlob>>
    BY <1>1 DEF L!Request, L!RemoveIcon, L!PutIcon, L!ClearIcons, L!EditIcons, L!PostScript,
                L!DeleteScript, L!PatchAccepted, L!PatchRefused, L!SetSetting, L!ClearScripts,
                L!EditScripts, L!Crowd, L!Reset, L!iconVars, L!scriptVars
  <2> QED
    BY <2>1 DEF Costless
<1>2. ASSUME NEW id \in ScriptIds, L!Keep(id) PROVE Costless
  BY <1>2 DEF L!Keep, L!iconVars, Costless
<1>3. ~L!PersistIcons /\ ~L!PersistScripts
  BY DEF FlagsAreAskedFor, L!PersistIcons, L!PersistScripts
<1>4. ASSUME NEW next \in {"normal", "safe"}, L!Boot(next) PROVE Costless
  <2>1. PICK removed \in (IF next = "normal" THEN SUBSET unreadable ELSE {{}}) :
          /\ iconBlob' = IF "icons" \in removed THEN L!NoIcons ELSE iconBlob
          /\ scriptBlob' = IF "scripts" \in removed THEN <<>> ELSE scriptBlob
    BY <1>4 DEF L!Boot
  <2>2. libraryMode' = next
    BY <1>4 DEF L!Boot
  <2> QED
    BY <2>1, <2>2 DEF Costless
<1>5. CASE L!Decay
  BY <1>5 DEF L!Decay, L!iconVars, L!scriptVars, Costless
<1>6. CASE UNCHANGED L!vars
  BY <1>6 DEF L!vars, L!iconVars, L!scriptVars, Costless
<1> QED
  BY <1>1, <1>2, <1>3, <1>4, <1>5, <1>6 DEF L!Next

(* A start alone costs no icon and no script that could have been read,    *)
(* and in safe mode, where the empty stores differ from what flash holds,  *)
(* it writes nothing at all (ApplicationHost::loadIcons, loadScripts).     *)
THEOREM StartsCostNothing == L!Spec => StartingCostsNothing
<1>1. FlagsAreAskedFor /\ [L!Next]_(L!vars) => [~asked => Costless]_(L!vars)
  BY UnaskedStepsCostNothing
<1>2. L!Spec => []FlagsAreAskedFor
  BY FlagsInitially, StepsKeepFlags, PTL DEF L!Spec
<1> QED
  BY <1>1, <1>2, PTL DEF L!Spec, StartingCostsNothing, L!StartingCostsNothing, Costless
=============================================================================
