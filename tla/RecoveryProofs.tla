---------------------------- MODULE RecoveryProofs ----------------------------
(***************************************************************************)
(* The two images behind the recovery button only change places, and what  *)
(* the device says of them is true: for any images of any sizes, and any   *)
(* number of boots, switches and power cuts, as long as no computer has    *)
(* been at the volume.  And the rungs of the ladder of boots are taken in  *)
(* turn, wherever they are, and an upload keeps what it displaces.         *)
(***************************************************************************)
EXTENDS Recovery, TLAPS

-----------------------------------------------------------------------------
(* The images.                                                             *)
(* The three ways a switch may leave the slots: at rest, with the spare    *)
(* image set aside, and with the armed one retired to its place.           *)
AtRest(f)    == f.armed \in Images /\ f.spare \in Images \cup {None} /\ f.swap = None
SetAside(f)  == f.armed \in Images /\ f.spare = None /\ f.swap \in Images
Retired(f)   == f.armed = None /\ f.spare \in Images /\ f.swap \in Images

(* What the next repair arms, and the other image.                         *)
ButtonOf(f) == IF f.armed # None THEN f.armed ELSE f.swap
OtherOf(f)  == IF f.armed # None /\ f.spare = None THEN f.swap ELSE f.spare

(* Two images are of two kinds.                                            *)
Whole(f) ==
  /\ f \in Contents
  /\ AtRest(f) \/ SetAside(f) \/ Retired(f)
  /\ OtherOf(f) # None => Kind[OtherOf(f)] # Kind[ButtonOf(f)]

(* The same two images, in the same order or the other.                    *)
SamePair(f, g) ==
  \/ ButtonOf(f) = ButtonOf(g) /\ OtherOf(f) = OtherOf(g)
  \/ ButtonOf(f) = OtherOf(g) /\ OtherOf(f) = ButtonOf(g)

(* A marker names an image that exists somewhere.                          *)
Truthful(m) == m = None \/ \E i \in Images : m = Claim(Kind[i], i)

(* How far the operation under way has come.  With a fault in a boot there *)
(* is no other one to stop the repair that comes first in a switch, which  *)
(* is why nothing is in the way of the switch.                             *)
Progress ==
  /\ step \in {"unmark", "synced", "check", "mark", "write"} => AtRest(files)
  /\ step = "check" => wanted # None
  /\ step = "aside" => AtRest(files) /\ files.spare # None
  /\ step = "retire" => SetAside(files)
  /\ step = "arm" => Retired(files)
  /\ faults = 0 /\ (step \in {"idle", "sync"} \/ (step = "repair" /\ wanted # None))
       => AtRest(files)

(* Which image the switch is about.                                        *)
Meant ==
  /\ step = "aside" => wanted = Kind[files.spare]
  /\ step = "retire" => wanted = Kind[files.swap]
  /\ step = "arm" => wanted = Kind[files.swap]
  /\ step = "mark" => wanted = Kind[files.armed]
  /\ step = "write" => wanted = Kind[files.armed]

Intact ==
  /\ Whole(files) /\ Whole(medium.files) /\ SamePair(files, medium.files)
  /\ Truthful(marker) /\ Truthful(medium.marker)
  /\ Progress /\ Meant

ImagesTyped ==
  /\ faults \in 0..MaxFaults /\ shared \in BOOLEAN
  /\ wanted \in Kinds \cup {None}
  /\ medium = [files |-> medium.files, marker |-> medium.marker]

ImagesInv == ImagesTyped /\ (~shared => Intact)

-----------------------------------------------------------------------------
(* A renaming fills one slot and empties the other.                        *)
LEMMA Renaming ==
  ASSUME files \in Contents, NEW from \in Slots, NEW to \in Slots, from # to
  PROVE  /\ Moved(from, to) \in Contents
         /\ Moved(from, to)[to] = files[from] /\ Moved(from, to)[from] = None
         /\ \A slot \in Slots \ {from, to} : Moved(from, to)[slot] = files[slot]
  BY DEF Contents, Moved

(* The three renames of a switch and the two that undo or repair one, of   *)
(* which two change the places of the images and none loses any.           *)
Becomes(f) == Whole(f) /\ SamePair(f, files)

LEMMA SpareIsSetAside ==
  ASSUME Whole(files), AtRest(files), files.spare # None
  PROVE  /\ Becomes(Moved("spare", "swap")) /\ SetAside(Moved("spare", "swap"))
         /\ Moved("spare", "swap").swap = files.spare
  BY Renaming, RecoveryAssumption
     DEF Whole, AtRest, SetAside, Retired, Becomes, SamePair, ButtonOf, OtherOf, Slots, Contents

LEMMA ArmedIsRetired ==
  ASSUME Whole(files), SetAside(files)
  PROVE  /\ Becomes(Moved("armed", "spare")) /\ Retired(Moved("armed", "spare"))
         /\ Moved("armed", "spare").swap = files.swap
  BY Renaming, RecoveryAssumption
     DEF Whole, AtRest, SetAside, Retired, Becomes, SamePair, ButtonOf, OtherOf, Slots, Contents

LEMMA SwapIsArmed ==
  ASSUME Whole(files), Retired(files)
  PROVE  /\ Becomes(Moved("swap", "armed")) /\ AtRest(Moved("swap", "armed"))
         /\ Moved("swap", "armed").armed = files.swap
  BY Renaming, RecoveryAssumption
     DEF Whole, AtRest, SetAside, Retired, Becomes, SamePair, ButtonOf, OtherOf, Slots, Contents

LEMMA SwapIsPutBack ==
  ASSUME Whole(files), SetAside(files)
  PROVE  Becomes(Moved("swap", "spare")) /\ AtRest(Moved("swap", "spare"))
  BY Renaming, RecoveryAssumption
     DEF Whole, AtRest, SetAside, Retired, Becomes, SamePair, ButtonOf, OtherOf, Slots, Contents

LEMMA RetiredIsPutBack ==
  ASSUME Whole(files), Retired(files)
  PROVE  Becomes(Moved("spare", "armed"))
  BY Renaming, RecoveryAssumption
     DEF Whole, AtRest, SetAside, Retired, Becomes, SamePair, ButtonOf, OtherOf, Slots, Contents

LEMMA NothingMoves ==
  ASSUME Whole(files)
  PROVE  Becomes(files)
  BY DEF Becomes, SamePair

LEMMA SamePairIsTransitive ==
  ASSUME NEW f, NEW g, NEW h, SamePair(f, g), SamePair(g, h)
  PROVE  SamePair(f, h)
  BY DEF SamePair

LEMMA SamePairIsSymmetric ==
  ASSUME NEW f, NEW g, SamePair(f, g)
  PROVE  SamePair(g, f)
  BY DEF SamePair

(* A name that a marker gives to the armed image is its own: two kinds are *)
(* never of one size.                                                      *)
LEMMA NamesAreTrue ==
  ASSUME Truthful(marker), files \in Contents, Armed \in Kinds
  PROVE  files.armed \in Images /\ Kind[files.armed] = Armed
<1>1. files.armed # None
  BY DEF Armed, Exists, Kinds
<1>2. files.armed \in Images
  BY <1>1 DEF Contents, Slots
<1>3. marker # None /\ marker.size = Size[files.armed] /\ Armed = marker.name
  BY <1>1 DEF Armed, Exists, MarkedImage, Kinds
<1>4. PICK i \in Images : marker = Claim(Kind[i], i)
  BY <1>3 DEF Truthful
<1>5. marker.name = Kind[i] /\ marker.size = Size[i]
  BY <1>4 DEF Claim
<1> QED
  BY <1>2, <1>3, <1>5, RecoveryAssumption

-----------------------------------------------------------------------------
(* The types are kept also when a computer has been at the volume.         *)
LEMMA TypesAreKept ==
  ASSUME ImagesTyped, [Next]_vars
  PROVE  ImagesTyped'
<1> USE RecoveryAssumption DEF ImagesTyped
<1>1. CASE PowerOn /\ UNCHANGED shared
  BY <1>1 DEF PowerOn
<1>2. ASSUME NEW kind \in Kinds, Request(kind), UNCHANGED shared PROVE ImagesTyped'
  BY <1>2 DEF Request
<1>3. CASE Repair /\ UNCHANGED shared
  BY <1>3 DEF Repair, Rename, Goto, Fault, NoFault, Kept
<1>4. CASE (Unmark \/ RepairSynced \/ Sync) /\ UNCHANGED shared
  BY <1>4 DEF Unmark, RepairSynced, Sync, Goto, Fault, NoFault, Kept, Volume
<1>5. CASE (Check \/ Aside) /\ UNCHANGED shared
  BY <1>5 DEF Check, Aside, Rename, Goto, Fault, NoFault, Kept, Refused, Answer
<1>6. CASE (Retire \/ ArmIt) /\ UNCHANGED shared
  BY <1>6 DEF Retire, ArmIt, Undo, Rename, Goto, Fault, NoFault, Kept, Refused, Answer
<1>7. CASE (Mark \/ Write) /\ UNCHANGED shared
  BY <1>7 DEF Mark, Write, Goto, Fault, NoFault, Kept, Refused, Answer
<1>8. CASE (WriteBack \/ PowerCut) /\ UNCHANGED shared
  BY <1>8 DEF WriteBack, PowerCut, Volume
<1>9. ASSUME NEW i \in Dropped, UsbPut(i) PROVE ImagesTyped'
  BY <1>9 DEF UsbPut
<1>10. CASE UNCHANGED vars
  BY <1>10 DEF vars, device
<1> QED
  BY <1>1, <1>2, <1>3, <1>4, <1>5, <1>6, <1>7, <1>8, <1>9, <1>10 DEF Next, DeviceNext

-----------------------------------------------------------------------------
(* What a step on the device does to the medium: nothing, or it writes the *)
(* volume back.                                                            *)
Stays(m)   == m = medium
IsWritten  == medium' = Volume'

LEMMA MediumFollows ==
  ASSUME Intact, Becomes(files'), Truthful(marker'), Stays(medium') \/ IsWritten
  PROVE  /\ Whole(files') /\ Whole(medium'.files) /\ SamePair(files', medium'.files)
         /\ Truthful(marker') /\ Truthful(medium'.marker)
<1>1. CASE Stays(medium')
  <2>1. SamePair(files', medium.files)
    BY SamePairIsTransitive DEF Intact, Becomes
  <2> QED
    BY <1>1, <2>1 DEF Intact, Becomes, Stays
<1>2. CASE IsWritten
  <2>1. medium'.files = files' /\ medium'.marker = marker'
    BY <1>2 DEF IsWritten, Volume
  <2>2. SamePair(files', files')
    BY DEF SamePair
  <2> QED
    BY <2>1, <2>2 DEF Becomes
<1> QED
  BY <1>1, <1>2

(* What is to be shown of a step.                                          *)
Goes == Becomes(files') /\ Progress' /\ Meant'
        /\ Truthful(marker') /\ (Stays(medium') \/ IsWritten)

LEMMA QuietSteps ==
  ASSUME ImagesTyped, Intact,
         PowerOn \/ (\E kind \in Kinds : Request(kind)) \/ WriteBack \/ Sync
  PROVE  Goes
<1> USE NothingMoves DEF Intact, Goes, Stays, IsWritten
<1>1. CASE PowerOn
  BY <1>1, RecoveryAssumption DEF PowerOn, Progress, Meant
<1>2. ASSUME NEW kind \in Kinds, Request(kind) PROVE Goes
  BY <1>2 DEF Request, Progress, Meant
<1>3. CASE WriteBack
  BY <1>3 DEF WriteBack, Progress, Meant, Volume
<1>4. CASE Sync
  BY <1>4 DEF Sync, Goto, Progress, Meant, Volume
<1> QED
  BY <1>1, <1>2, <1>3, <1>4

LEMMA RepairSteps ==
  ASSUME MaxFaults <= 1, ImagesTyped, Intact, Repair \/ Unmark \/ RepairSynced
  PROVE  Goes
<1> USE NothingMoves DEF Intact, Goes, Stays, IsWritten
<1>1. CASE Repair
  <2>1. CASE ~Exists("swap") /\ Goto(AfterRepair) /\ NoFault /\ UNCHANGED files
    <3>1. AtRest(files)
      BY <2>1, RecoveryAssumption DEF Whole, AtRest, SetAside, Retired, Exists
    <3> QED
      BY <1>1, <2>1, <3>1 DEF Repair, Goto, AfterRepair, NoFault, Kept, Progress, Meant
  <2>2. CASE Exists("swap") /\ ~Exists("armed") /\ Rename("swap", "armed") /\ Goto("unmark") /\ NoFault
    <3>1. Retired(files)
      BY <2>2, RecoveryAssumption DEF Whole, AtRest, SetAside, Retired, Exists
    <3> QED
      BY <1>1, <2>2, <3>1, SwapIsArmed DEF Repair, Rename, Goto, NoFault, Kept, Progress, Meant
  <2>3. CASE Exists("swap") /\ Exists("armed") /\ ~Exists("spare") /\ Rename("swap", "spare") /\ Goto("synced") /\ NoFault
    <3>1. SetAside(files)
      BY <2>3, RecoveryAssumption DEF Whole, AtRest, SetAside, Retired, Exists
    <3> QED
      BY <1>1, <2>3, <3>1, SwapIsPutBack DEF Repair, Rename, Goto, NoFault, Kept, Progress, Meant
  <2>4. CASE Exists("swap") /\ Exists("armed") /\ Exists("spare")
    BY <2>4, RecoveryAssumption DEF Whole, AtRest, SetAside, Retired, Exists
  <2>5. CASE Exists("swap") /\ Fault /\ Goto(AfterRepair) /\ UNCHANGED files
    <3>1. faults = 0 /\ faults' = 1
      BY <2>5, RecoveryAssumption DEF Fault, ImagesTyped
    <3>2. wanted = None
      BY <1>1, <2>5, <3>1 DEF Progress, AtRest, Exists, Repair
    <3> QED
      BY <1>1, <2>5, <3>1, <3>2 DEF Repair, Goto, AfterRepair, Kept, Progress, Meant
  <2> QED
    BY <1>1, <2>1, <2>2, <2>3, <2>4, <2>5 DEF Repair
<1>2. CASE Unmark
  BY <1>2 DEF Unmark, Goto, Kept, Truthful, Progress, Meant
<1>3. CASE RepairSynced
  BY <1>3 DEF RepairSynced, Goto, AfterRepair, Volume, Progress, Meant
<1> QED
  BY <1>1, <1>2, <1>3

(* A switch begins with two images, one of which the device can name; the  *)
(* other is of the other kind, and is the one that is asked for.           *)
LEMMA CheckSteps ==
  ASSUME ImagesTyped, Intact, Check
  PROVE  Goes
<1> USE NothingMoves DEF Intact, Goes, Stays, IsWritten
<1>0. step = "check" /\ AtRest(files) /\ wanted \in Kinds /\ files' = files /\ marker' = marker
  BY DEF Check, Progress, ImagesTyped
<1>1. CASE step' = "idle" /\ wanted' = wanted /\ medium' = medium
  BY <1>0, <1>1 DEF Progress, Meant
<1>2. CASE Armed \notin {wanted, "unrecognised"} /\ Exists("spare") /\ Goto("aside") /\ Kept
  <2>1. files \in Contents /\ Exists("armed")
    BY <1>0, RecoveryAssumption DEF AtRest, Exists, Whole
  <2>2. Armed \in Kinds
    <3>1. Armed = marker.name /\ marker # None
      BY <1>2, <2>1 DEF Armed, MarkedImage
    <3>2. PICK i \in Images : marker = Claim(Kind[i], i)
      BY <3>1 DEF Truthful
    <3> QED
      BY <3>1, <3>2, RecoveryAssumption DEF Claim
  <2>3. Kind[files.armed] = Armed
    BY <2>1, <2>2, NamesAreTrue
  <2>4. files.spare \in Images /\ Kind[files.spare] # Kind[files.armed]
    BY <1>0, <1>2, RecoveryAssumption DEF Whole, AtRest, OtherOf, ButtonOf, Exists
  <2>5. wanted = Kind[files.spare]
    BY <1>0, <1>2, <2>2, <2>3, <2>4, RecoveryAssumption DEF Kinds
  <2> QED
    BY <1>0, <1>2, <2>4, <2>5, RecoveryAssumption DEF Goto, Kept, Progress, Meant
<1> QED
  BY <1>0, <1>1, <1>2 DEF Check, Goto, Kept, Refused, Answer

LEMMA SwitchSteps ==
  ASSUME ImagesTyped, Intact, Aside \/ Retire \/ ArmIt
  PROVE  Goes
<1> USE NothingMoves DEF Intact, Goes, Stays, IsWritten
<1>0. Fault => faults' # 0
  BY DEF Fault, ImagesTyped
<1>1. CASE Aside
  <2>1. AtRest(files) /\ files.spare # None /\ wanted = Kind[files.spare]
    BY <1>1 DEF Aside, Progress, Meant
  <2>2. CASE Rename("spare", "swap") /\ Goto("retire") /\ Kept
    BY <1>1, <2>1, <2>2, SpareIsSetAside DEF Aside, Rename, Goto, Kept, Progress, Meant
  <2>3. CASE UNCHANGED files /\ Goto("sync") /\ Refused /\ Fault
    BY <1>0, <1>1, <2>3 DEF Aside, Goto, Refused, Answer, Progress, Meant
  <2> QED
    BY <1>1, <2>2, <2>3 DEF Aside
<1>2. CASE Retire
  <2>1. SetAside(files) /\ wanted = Kind[files.swap]
    BY <1>2 DEF Retire, Progress, Meant
  <2>2. CASE Rename("armed", "spare") /\ Goto("arm") /\ Kept
    BY <1>2, <2>1, <2>2, ArmedIsRetired DEF Retire, Rename, Goto, Kept, Progress, Meant
  <2>3. CASE ~Exists("armed")
    BY <2>1, <2>3, RecoveryAssumption DEF SetAside, Exists
  <2>4. CASE Fault /\ files' \in {files, Moved("swap", "spare")} /\ Goto("sync") /\ Refused
    <3>1. Becomes(files')
      BY <2>1, <2>4, SwapIsPutBack
    <3> QED
      BY <1>0, <1>2, <2>4, <3>1 DEF Retire, Goto, Refused, Answer, Progress, Meant
  <2> QED
    BY <1>2, <2>2, <2>3, <2>4 DEF Retire
<1>3. CASE ArmIt
  <2>1. Retired(files) /\ wanted = Kind[files.swap]
    BY <1>3 DEF ArmIt, Progress, Meant
  <2>2. CASE Rename("swap", "armed") /\ Goto("mark") /\ Kept
    BY <1>3, <2>1, <2>2, SwapIsArmed DEF ArmIt, Rename, Goto, Kept, Progress, Meant
  <2>3. CASE Fault /\ files' \in {files, Moved("spare", "armed")} /\ Goto("sync") /\ Refused
    <3>1. Becomes(files')
      BY <2>1, <2>3, RetiredIsPutBack
    <3> QED
      BY <1>0, <1>3, <2>3, <3>1 DEF ArmIt, Goto, Refused, Answer, Progress, Meant
  <2> QED
    BY <1>3, <2>2, <2>3 DEF ArmIt
<1> QED
  BY <1>1, <1>2, <1>3

LEMMA MarkingSteps ==
  ASSUME ImagesTyped, Intact, Mark \/ Write
  PROVE  Goes
<1> USE NothingMoves DEF Intact, Goes, Stays, IsWritten
<1>0. (Fault => faults' # 0) /\ AtRest(files) /\ wanted = Kind[files.armed] /\ files' = files
  BY DEF Fault, ImagesTyped, Mark, Write, Progress, Meant
<1>1. CASE Mark
  BY <1>0, <1>1 DEF Mark, Goto, Kept, Refused, Answer, Truthful, Progress, Meant
<1>2. CASE Write
  <2>1. marker' = marker \/ marker' = Claim(Kind[files.armed], files.armed)
    BY <1>0, <1>2 DEF Write
  <2>2. Truthful(marker')
    BY <1>0, <2>1 DEF Truthful, AtRest
  <2> QED
    BY <1>0, <1>2, <2>2 DEF Write, Goto, Refused, Answer, Progress, Meant
<1> QED
  BY <1>1, <1>2

(* After a cut the volume is what had been written back.                   *)
LEMMA CutSteps ==
  ASSUME ImagesTyped, Intact, PowerCut
  PROVE  Goes
<1>1. files' = medium.files /\ marker' = medium.marker /\ medium' = medium /\ step' = "off"
  BY DEF PowerCut
<1>2. Becomes(files') /\ Truthful(marker')
  BY <1>1, SamePairIsSymmetric DEF Intact, Becomes
<1> QED
  BY <1>1, <1>2 DEF Goes, Stays, Progress, Meant

-----------------------------------------------------------------------------
LEMMA ImagesInitially == Init => ImagesInv
<1> SUFFICES ASSUME Init PROVE ImagesInv
  OBVIOUS
<1>1. PICK a \in Images, s \in Images \cup {None} :
        /\ s # None => Kind[s] # Kind[a]
        /\ files = [armed |-> a, spare |-> s, swap |-> None]
        /\ marker \in {None, Claim(Kind[a], a)}
  BY DEF Init
<1>2. Whole(files) /\ Truthful(marker)
  BY <1>1, RecoveryAssumption DEF Whole, AtRest, OtherOf, ButtonOf, Contents, Slots, Truthful
<1>3. medium = [files |-> files, marker |-> marker]
  BY DEF Init, Volume
<1>4. ImagesTyped
  <2>1. faults \in 0..MaxFaults
    BY RecoveryAssumption DEF Init
  <2>2. shared \in BOOLEAN /\ wanted \in Kinds \cup {None}
    BY DEF Init
  <2>3. medium.files = files /\ medium.marker = marker
    BY <1>3
  <2> QED
    BY <1>3, <2>1, <2>2, <2>3, Zenon DEF ImagesTyped
<1>5. SamePair(files, medium.files)
  BY <1>3 DEF SamePair
<1> QED
  BY <1>2, <1>3, <1>4, <1>5 DEF Init, ImagesInv, Intact, Progress, Meant

LEMMA StepsGo ==
  ASSUME MaxFaults <= 1, ImagesTyped, Intact, [Next]_vars, ~shared'
  PROVE  Goes
<1>1. CASE UNCHANGED vars
  BY <1>1, NothingMoves DEF vars, device, Intact, Goes, Stays, Progress, Meant
<1>2. ASSUME NEW i \in Dropped, UsbPut(i) PROVE FALSE
  BY <1>2 DEF UsbPut
<1> QED
  BY <1>1, <1>2, QuietSteps, RepairSteps, CheckSteps, SwitchSteps, MarkingSteps, CutSteps
     DEF Next, DeviceNext

LEMMA ImagesInductive ==
  ASSUME MaxFaults <= 1, ImagesInv, [Next]_vars
  PROVE  ImagesInv'
<1>1. ImagesTyped'
  BY TypesAreKept DEF ImagesInv
<1>2. ASSUME ~shared' PROVE Intact'
  <2>1. ~shared
    BY <1>2 DEF ImagesInv, ImagesTyped, Next, UsbPut, vars
  <2>2. Goes
    BY <1>2, <2>1, StepsGo DEF ImagesInv
  <2> QED
    BY <2>1, <2>2, MediumFollows DEF ImagesInv, Intact, Goes
<1> QED
  BY <1>1, <1>2 DEF ImagesInv

(* With no more than one operation failing in each boot: however often the *)
(* images are switched, wherever the power goes and whatever is undone or  *)
(* repaired after it, two images only ever change places.                  *)
THEOREM ImagesChangePlaces ==
  ASSUME MaxFaults <= 1
  PROVE  Spec => KeepsThePromise
<1>1. Init => Promise!Init
  BY RecoveryAssumption DEF Init, Promise!Init, Button, Other, Exists
<1>2. ASSUME ImagesInv, [Next]_vars
      PROVE  ~shared' => [Promise!Exchange]_<<Button, Other>>
  <2> SUFFICES ASSUME ~shared' PROVE [Promise!Exchange]_<<Button, Other>>
    OBVIOUS
  <2>1. ~shared
    BY <1>2 DEF ImagesInv, ImagesTyped, Next, UsbPut, vars
  <2>2. Becomes(files')
    BY <1>2, <2>1, StepsGo DEF ImagesInv, Goes
  <2>3. /\ Button = ButtonOf(files) /\ Other = OtherOf(files)
        /\ Button' = ButtonOf(files') /\ Other' = OtherOf(files')
    BY <1>2, <2>1, <2>2, RecoveryAssumption
       DEF ImagesInv, Intact, Becomes, Whole, AtRest, SetAside, Retired, Button, Other, ButtonOf, OtherOf, Exists
  <2>4. Button' # None
    BY <2>2, <2>3, RecoveryAssumption DEF Becomes, Whole, AtRest, SetAside, Retired, ButtonOf
  <2> QED
    BY <2>2, <2>3, <2>4 DEF Becomes, SamePair, Promise!Exchange
<1> QED
  BY <1>1, <1>2, ImagesInitially, ImagesInductive, PTL DEF Spec, KeepsThePromise

(* What the device says the button installs is what it installs, at every  *)
(* moment of a switch and after every cut in one.                          *)
THEOREM NamesNeverLie ==
  ASSUME MaxFaults <= 1
  PROVE  Spec => []MarkerNeverLies
<1>1. ImagesInv => MarkerNeverLies
  BY NamesAreTrue DEF ImagesInv, Intact, Whole, MarkerNeverLies, ImagesTyped
<1> QED
  BY <1>1, ImagesInitially, ImagesInductive, PTL DEF Spec

(* The device does not serve with nothing under the button, unless an      *)
(* operation has failed since it was switched on.                          *)
THEOREM SomethingIsArmed ==
  ASSUME MaxFaults <= 1
  PROVE  Spec => []ButtonIsArmed
<1>1. ImagesInv => ButtonIsArmed
  BY RecoveryAssumption DEF ImagesInv, Intact, ImagesTyped, Progress, AtRest, ButtonIsArmed, Exists
<1> QED
  BY <1>1, ImagesInitially, ImagesInductive, PTL DEF Spec

-----------------------------------------------------------------------------
(* The ladder of boots.                                                    *)

(* Where the version that is displaced lies, at each step of an upload.    *)
Installing ==
  /\ override \in Uploads \cup {None} /\ previous \in Uploads \cup {None}
  /\ job \in [step : {"none", "write", "drop", "aside", "place"},
              image : Uploads \cup {None}, displaced : Uploads \cup {None}]
  /\ job.step = "none" => job = B!Idle
  /\ job.step # "none" => job.image \in Uploads /\ phase \in {"running", "up"}
  /\ job.step \in {"drop", "aside"} => incoming = job.image
  /\ job.step = "place" => incoming = job.image
  /\ job.step \in {"write", "drop", "aside"} /\ job.displaced # None => override = job.displaced
  /\ job.step = "place" /\ job.displaced # None => previous = job.displaced

Counted ==
  /\ attempts \in Nat /\ failures \in Nat /\ completed \in BOOLEAN
  /\ interruptions \in Nat /\ exchanged \in BOOLEAN
  /\ phase \in {"off", "starting", "running", "healthy", "up", "stock"}

(* A boot that was finished without a fault leaves nothing counted.        *)
StartsAfresh ==
  interruptions = 0 =>
    /\ phase \in {"healthy", "up"} => completed /\ failures = 0
    /\ phase = "up" => attempts = 0

(* A version that default settings make start, and the history its boots   *)
(* have when nothing disturbs them: the two counts go up together, and the *)
(* host's reaches its rung before the shim's does.                         *)
Mendable == B!Loads(override) /\ Behaviour[override] # "broken"

Mending ==
  Mendable /\ interruptions = 0 /\ ~exchanged =>
    /\ phase # "stock"
    /\ phase \in {"starting", "running"} => running = override
    /\ phase = "off" =>
         \/ completed /\ failures = 0 /\ attempts = 0
         \/ ~completed /\ attempts \in 1..SafeAt /\ failures = attempts - 1
    /\ phase = "starting" =>
         \/ completed /\ failures = 0 /\ attempts = 1
         \/ ~completed /\ attempts \in 2..(SafeAt + 1) /\ failures = attempts - 2
    /\ phase = "running" =>
         /\ ~completed /\ attempts \in 1..(SafeAt + 1) /\ failures = attempts - 1
         /\ failures >= SafeAt => settings = "defaults"

(* Past the rung of the flashed copy, each further boot takes a fault.     *)
Spending ==
  Behaviour[Flashed] = "sound" /\ interruptions < SkipEverythingAt - SkipOverrideAt =>
    /\ phase # "stock"
    /\ phase \in {"off", "up"} => attempts <= SkipOverrideAt + interruptions
    /\ phase \in {"starting", "running", "healthy"} =>
         /\ attempts <= SkipOverrideAt + interruptions + 1
         /\ attempts > SkipOverrideAt => running = Flashed

LadderInv == Installing /\ Counted /\ StartsAfresh /\ Mending /\ Spending

LEMMA Rungs ==
  /\ SafeAt \in Nat /\ SkipOverrideAt \in Nat /\ SkipEverythingAt \in Nat
  /\ MaxCount \in Nat /\ MaxFailures \in Nat
  /\ 0 < SafeAt /\ SafeAt < SkipOverrideAt /\ SafeAt <= MaxFailures
  /\ SkipOverrideAt < SkipEverythingAt /\ SkipEverythingAt <= MaxCount
  BY LadderAssumption DEF B!BootLadderAssumption

LEMMA Versions ==
  /\ Flashed \in Builds /\ Uploads \subseteq Builds /\ Flashed \notin Uploads
  /\ Behaviour \in [Builds -> {"sound", "fragile", "broken", "unloadable"}]
  /\ None \notin Builds
  BY LadderAssumption DEF B!BootLadderAssumption, B!Behaviours

LEMMA LadderInitially == B!Init => LadderInv
<1> SUFFICES ASSUME B!Init PROVE LadderInv
  OBVIOUS
<1> USE DEF B!Init
<1>1. Installing
  BY DEF Installing, B!Idle
<1>2. Counted /\ StartsAfresh
  BY DEF Counted, StartsAfresh
<1>3. Mending
  BY Versions DEF Mending, Mendable, B!Loads
<1>4. Spending
  BY Rungs DEF Spending
<1> QED
  BY <1>1, <1>2, <1>3, <1>4 DEF LadderInv

-----------------------------------------------------------------------------
(* What the shim chooses.                                                  *)
LEMMA WhatIsChosen ==
  ASSUME Counted
  PROVE  /\ B!Chosen \in {None, override, Flashed}
         /\ attempts < SkipOverrideAt /\ B!Loads(override) => B!Chosen = override
         /\ attempts \in SkipOverrideAt..(SkipEverythingAt - 1) /\ B!Loads(Flashed)
              => B!Chosen = Flashed
         /\ attempts < SkipEverythingAt /\ B!Loads(Flashed) => B!Chosen # None
<1>1. attempts < SkipEverythingAt => B!Count = attempts
  BY Rungs DEF Counted, B!Count
<1>2. B!Loads(override) => override # None
  BY Versions DEF B!Loads
<1>3. Flashed # None
  BY Versions
<1> QED
  BY <1>1, <1>2, <1>3, Rungs DEF B!Chosen, B!FirstOf, Counted

LEMMA BootsKeep == ASSUME LadderInv, B!Boot PROVE LadderInv'
<1> USE DEF LadderInv
<1>1. /\ phase = "off" /\ phase' \in {"stock", "starting"}
      /\ phase' = "stock" <=> B!Chosen = None
      /\ running' = B!Chosen
      /\ UNCHANGED <<failures, completed, override, previous, incoming, settings, job, exchanged>>
  BY DEF B!Boot, B!files
<1>2. \/ attempts' = B!Count + 1 /\ interruptions' = interruptions
      \/ attempts' \in {attempts, 0} /\ interruptions' = interruptions + 1
  BY DEF B!Boot, B!Attempts, B!Fault
<1>3. B!Count \in Nat /\ B!Count <= attempts
  BY DEF B!Count, Counted
<1>4. Counted'
  BY <1>1, <1>2, <1>3 DEF Counted
<1>5. Installing'
  BY <1>1 DEF Installing
<1>6. StartsAfresh'
  BY <1>1 DEF StartsAfresh
<1>7. Mending'
  <2> SUFFICES ASSUME Mendable', interruptions' = 0, ~exchanged' PROVE Mending'
    BY DEF Mending
  <2>1. interruptions = 0 /\ attempts' = B!Count + 1 /\ Mendable /\ ~exchanged
    BY <1>1, <1>2 DEF Counted, Mendable, B!Loads
  <2>2. \/ completed /\ failures = 0 /\ attempts = 0
        \/ ~completed /\ attempts \in 1..SafeAt /\ failures = attempts - 1
    BY <1>1, <2>1 DEF Mending
  <2>3. attempts < SkipOverrideAt /\ B!Count = attempts
    BY <2>2, Rungs DEF B!Count
  <2>4. B!Chosen = override /\ override # None
    BY <2>1, <2>3, WhatIsChosen, Versions DEF Mendable, B!Loads
  <2> QED
    BY <1>1, <2>1, <2>2, <2>3, <2>4, Rungs DEF Mending
<1>8. Spending'
  <2> SUFFICES ASSUME Behaviour[Flashed] = "sound",
                      interruptions' < SkipEverythingAt - SkipOverrideAt
               PROVE  Spending'
    BY DEF Spending
  <2>1. interruptions \in Nat /\ interruptions' \in Nat /\ interruptions <= interruptions'
    BY <1>2 DEF Counted
  <2>2. attempts \in Nat /\ attempts <= SkipOverrideAt + interruptions
    BY <1>1, <2>1, Rungs DEF Spending, Counted
  <2>3. attempts < SkipEverythingAt
    BY <2>1, <2>2, Rungs
  <2>4. B!Loads(Flashed)
    BY Versions DEF B!Loads
  <2>5. B!Chosen # None /\ (attempts >= SkipOverrideAt => B!Chosen = Flashed)
    BY <2>2, <2>3, <2>4, WhatIsChosen, Rungs
  <2>6. attempts' <= SkipOverrideAt + interruptions' + 1
    BY <1>2, <1>3, <2>1, <2>2, Rungs
  <2>7. attempts' > SkipOverrideAt => attempts >= SkipOverrideAt
    BY <1>2, <1>3, <2>2, Rungs
  <2> QED
    BY <1>1, <2>5, <2>6, <2>7 DEF Spending
<1> QED
  BY <1>4, <1>5, <1>6, <1>7, <1>8

(* What the host reads of the boots before, and remembers of this one.     *)
LEMMA WhatIsRecorded ==
  ASSUME NEW count, NEW finished, B!Record(count, finished)
  PROVE  \/ failures' = count /\ completed' = finished /\ interruptions' = interruptions
         \/ failures' = failures /\ completed' = completed /\ interruptions' = interruptions + 1
  BY DEF B!Record, B!Fault

LEMMA InitializesKeep == ASSUME LadderInv, B!Initialize PROVE LadderInv'
<1> USE DEF LadderInv
<1>1. /\ phase = "starting" /\ phase' = "running"
      /\ settings' = IF B!Failures >= SafeAt THEN "defaults" ELSE stored
      /\ UNCHANGED <<attempts, override, previous, incoming, running, job, exchanged>>
  BY DEF B!Initialize, B!files
<1>2. \/ failures' = B!Failures /\ completed' = FALSE /\ interruptions' = interruptions
      \/ failures' = failures /\ completed' = completed /\ interruptions' = interruptions + 1
  BY WhatIsRecorded DEF B!Initialize
<1>3. B!Failures \in Nat
  BY Rungs DEF B!Failures, Counted
<1>4. Counted'
  <2>1. attempts' \in Nat /\ failures' \in Nat /\ interruptions' \in Nat
    BY <1>1, <1>2, <1>3 DEF Counted
  <2>2. completed' \in BOOLEAN /\ exchanged' \in BOOLEAN
    BY <1>1, <1>2 DEF Counted
  <2> QED
    BY <1>1, <2>1, <2>2 DEF Counted
<1>5. Installing' /\ StartsAfresh'
  BY <1>1 DEF Installing, StartsAfresh
<1>6. Mending'
  <2> SUFFICES ASSUME Mendable', interruptions' = 0, ~exchanged' PROVE Mending'
    BY DEF Mending
  <2>1. /\ interruptions = 0 /\ Mendable /\ ~exchanged
        /\ failures' = B!Failures /\ completed' = FALSE
    BY <1>1, <1>2 DEF Counted, Mendable, B!Loads
  <2>2. /\ running = override
        /\ \/ completed /\ failures = 0 /\ attempts = 1
           \/ ~completed /\ attempts \in 2..(SafeAt + 1) /\ failures = attempts - 2
    BY <1>1, <2>1 DEF Mending
  <2>3. B!Failures = attempts - 1
    BY <2>2, Rungs DEF B!Failures, Counted
  <2> QED
    BY <1>1, <2>1, <2>2, <2>3, Rungs DEF Mending, Counted
<1>7. Spending'
  BY <1>1, <1>2, Rungs DEF Spending, Counted
<1> QED
  BY <1>4, <1>5, <1>6, <1>7

(* A version that is mended does not die of what default settings mend.    *)
LEMMA DeathsKeep == ASSUME LadderInv, B!Die PROVE LadderInv'
<1> USE DEF LadderInv
<1>1. /\ \/ phase = "starting" /\ Behaviour[running] = "broken"
         \/ phase = "running" /\ job = B!Idle /\ ~B!Finishes
      /\ phase' = "off"
      /\ UNCHANGED <<attempts, failures, completed, override, previous, incoming, settings, job,
                     interruptions, exchanged>>
  BY DEF B!Die, B!counters, B!files, B!history
<1>2. job.step = "none"
  BY <1>1 DEF Installing, B!Idle
<1>3. Installing' /\ Counted' /\ StartsAfresh'
  BY <1>1, <1>2 DEF Installing, Counted, StartsAfresh
<1>4. Mending'
  <2> SUFFICES ASSUME Mendable, interruptions = 0, ~exchanged PROVE Mending'
    BY <1>1 DEF Mending, Mendable, B!Loads
  <2>1. phase = "running" /\ running = override
    BY <1>1 DEF Mending, Mendable
  <2>2. Behaviour[running] \in {"sound", "fragile"}
    BY <2>1, Versions DEF Mendable, B!Loads
  <2>3. settings # "defaults"
    BY <1>1, <2>1, <2>2 DEF B!Finishes
  <2>4. ~completed /\ attempts \in 1..(SafeAt + 1) /\ failures = attempts - 1 /\ failures < SafeAt
    BY <2>1, <2>3, Rungs DEF Mending, Counted
  <2> QED
    BY <1>1, <2>4, Rungs DEF Mending
<1>5. Spending'
  <2>1. Behaviour[running] # "sound"
    BY <1>1 DEF B!Finishes
  <2> QED
    BY <1>1, <2>1, Rungs DEF Spending, Counted
<1> QED
  BY <1>3, <1>4, <1>5

LEMMA FinishesKeep == ASSUME LadderInv, B!MarkHealthy \/ B!ClearAttempts PROVE LadderInv'
<1> USE DEF LadderInv
<1>1. CASE B!MarkHealthy
  <2>1. /\ phase = "running" /\ phase' = "healthy" /\ job.step = "none"
        /\ UNCHANGED <<attempts, override, previous, incoming, running, job, exchanged>>
    BY <1>1 DEF B!MarkHealthy, B!files, B!Idle
  <2>2. \/ failures' = 0 /\ completed' = TRUE /\ interruptions' = interruptions
        \/ failures' = failures /\ completed' = completed /\ interruptions' = interruptions + 1
    BY <1>1, WhatIsRecorded DEF B!MarkHealthy
  <2>3. attempts' \in Nat /\ failures' \in Nat /\ interruptions' \in Nat /\ phase' = "healthy"
    BY <2>1, <2>2 DEF Counted
  <2>4. completed' \in BOOLEAN /\ exchanged' \in BOOLEAN
    BY <2>1, <2>2 DEF Counted
  <2>5. Installing'
    BY <2>1 DEF Installing
  <2>6. StartsAfresh'
    BY <2>1, <2>2 DEF StartsAfresh, Counted
  <2>7. Mending'
    BY <2>1 DEF Mending
  <2>8. Spending'
    BY <2>1, <2>2, Rungs DEF Spending, Counted
  <2> QED
    BY <2>3, <2>4, <2>5, <2>6, <2>7, <2>8 DEF Counted
<1>2. CASE B!ClearAttempts
  <2>1. /\ phase = "healthy" /\ phase' = "up"
        /\ UNCHANGED <<failures, completed, override, previous, incoming, job>>
    BY <1>2 DEF B!ClearAttempts, B!files
  <2>2. \/ /\ attempts' = 0
           /\ \/ completed /\ failures = 0 /\ interruptions' = 0 /\ exchanged' = FALSE
              \/ ~(completed /\ failures = 0) /\ UNCHANGED <<interruptions, exchanged>>
        \/ interruptions' = interruptions + 1 /\ UNCHANGED <<attempts, exchanged>>
    BY <1>2 DEF B!ClearAttempts, B!Fault, B!history
  <2>3. attempts' \in Nat /\ failures' \in Nat /\ interruptions' \in Nat /\ phase' = "up"
    BY <2>1, <2>2 DEF Counted
  <2>4. completed' \in BOOLEAN /\ exchanged' \in BOOLEAN
    BY <2>1, <2>2 DEF Counted
  <2>5. Installing'
    BY <2>1 DEF Installing
  <2>6. StartsAfresh'
    BY <2>1, <2>2 DEF StartsAfresh, Counted
  <2>7. Mending'
    BY <2>1 DEF Mending
  <2>8. Spending'
    BY <2>1, <2>2, Rungs DEF Spending, Counted
  <2> QED
    BY <2>3, <2>4, <2>5, <2>6, <2>7, <2>8 DEF Counted
<1> QED
  BY <1>1, <1>2

-----------------------------------------------------------------------------
(* An upload: it serves in a boot that is not finished or in one that is.  *)
LEMMA ServesWhen ==
  ASSUME Installing, B!Serving
  PROVE  phase \in {"running", "up"} /\ job.step = "none"
  BY DEF B!Serving, B!Idle

(* An exchange counts as one unless the boot is finished, in which case    *)
(* nothing has been counted.                                               *)
LEMMA ExchangesKeep ==
  ASSUME LadderInv, B!Exchanging, Installing', phase \in {"running", "up"}
  PROVE  LadderInv'
<1> USE DEF LadderInv
<1>1. /\ exchanged' = (exchanged \/ phase # "up")
      /\ UNCHANGED <<attempts, failures, completed, phase, running, settings, interruptions>>
  BY DEF B!Exchanging, B!Elsewhere, B!counters, B!process
<1>2. Counted' /\ StartsAfresh' /\ Spending'
  BY <1>1 DEF Counted, StartsAfresh, Spending
<1>3. Mending'
  BY <1>1 DEF Mending
<1> QED
  BY <1>2, <1>3

(* Before that, no version comes where another was.                        *)
LEMMA PreparationsKeep ==
  ASSUME LadderInv, B!Untouched, Installing', override' \in {override, None}
  PROVE  LadderInv'
<1> USE DEF LadderInv
<1>1. UNCHANGED <<attempts, failures, completed, phase, running, settings, interruptions, exchanged>>
  BY DEF B!Untouched, B!Elsewhere, B!counters, B!process
<1>2. Counted' /\ StartsAfresh' /\ Spending'
  BY <1>1 DEF Counted, StartsAfresh, Spending
<1>3. Mendable' => Mendable /\ override' = override
  BY Versions DEF Mendable, B!Loads
<1>4. Mending'
  BY <1>1, <1>3 DEF Mending
<1> QED
  BY <1>2, <1>4

LEMMA UploadsKeep ==
  ASSUME LadderInv, (\E b \in Uploads : B!Install(b)) \/ B!InstallStep \/ B!Rollback
  PROVE  LadderInv' /\ (job.displaced # None => job.displaced \in {override', previous'})
<1> USE DEF LadderInv, B!Untouched, B!Exchanging, B!Elsewhere, B!process
<1>1. CASE \E b \in Uploads : B!Install(b)
  <2>1. phase \in {"running", "up"} /\ job.step = "none"
    BY <1>1, ServesWhen DEF B!Install
  <2>2. Installing'
    BY <1>1, <2>1 DEF B!Install, Installing
  <2> QED
    BY <1>1, <2>1, <2>2, PreparationsKeep DEF B!Install, Installing, B!Idle
<1>2. CASE B!WriteWhole
  <2>1. Installing'
    BY <1>2 DEF B!WriteWhole, B!Step, B!Abandon, B!Idle, Installing
  <2> QED
    BY <1>2, <2>1, PreparationsKeep DEF B!WriteWhole, Installing
<1>3. CASE B!DropPrevious
  <2>1. Installing'
    BY <1>3 DEF B!DropPrevious, B!Step, Installing
  <2> QED
    BY <1>3, <2>1, PreparationsKeep DEF B!DropPrevious, Installing
<1>4. CASE B!SetAside
  <2>1. Installing'
    BY <1>4 DEF B!SetAside, B!Step, B!Abandon, B!Idle, Installing
  <2> QED
    BY <1>4, <2>1, PreparationsKeep DEF B!SetAside, Installing
<1>5. CASE B!Place
  <2>1. Installing'
    BY <1>5 DEF B!Place, B!Abandon, B!Idle, Installing
  <2> QED
    BY <1>5, <2>1, ExchangesKeep DEF B!Place, Installing
<1>6. CASE B!Rollback
  <2>1. phase \in {"running", "up"} /\ job.step = "none"
    BY <1>6, ServesWhen DEF B!Rollback
  <2>2. Installing'
    BY <1>6, <2>1 DEF B!Rollback, Installing
  <2> QED
    BY <1>6, <2>1, <2>2, ExchangesKeep DEF B!Rollback, Installing, B!Idle
<1> QED
  BY <1>1, <1>2, <1>3, <1>4, <1>5, <1>6 DEF B!InstallStep

(* A cut costs a fault; a restart comes when nothing is counted, or after  *)
(* the last rung.                                                          *)
LEMMA StopsKeep == ASSUME LadderInv, B!Restart \/ B!PowerCut PROVE LadderInv'
<1> USE DEF LadderInv
<1>1. /\ phase' = "off" /\ job' = B!Idle
      /\ UNCHANGED <<attempts, failures, completed, override, previous, incoming, running, exchanged>>
  BY DEF B!Restart, B!PowerCut, B!Stop, B!counters, B!files, B!history
<1>2. \/ phase \in {"up", "stock"} /\ interruptions' = interruptions
      \/ phase \in {"starting", "running", "healthy", "up"} /\ interruptions' = interruptions + 1
  BY DEF B!Restart, B!PowerCut, B!Fault, B!history, Installing, B!Idle
<1>3. Installing' /\ Counted' /\ StartsAfresh'
  BY <1>1, <1>2 DEF Installing, Counted, StartsAfresh, B!Idle
<1>4. Mending'
  <2> SUFFICES ASSUME Mendable', interruptions' = 0, ~exchanged' PROVE Mending'
    BY DEF Mending
  <2>1. interruptions = 0 /\ phase \in {"up", "stock"} /\ Mendable /\ ~exchanged
    BY <1>1, <1>2 DEF Counted, Mendable, B!Loads
  <2>2. phase = "up" /\ attempts = 0 /\ completed /\ failures = 0
    BY <2>1 DEF Mending, StartsAfresh
  <2> QED
    BY <1>1, <2>2 DEF Mending
<1>5. Spending'
  BY <1>1, <1>2, Rungs DEF Spending, Counted
<1> QED
  BY <1>3, <1>4, <1>5

LEMMA LadderInductive == ASSUME LadderInv, [B!Next]_(B!vars) PROVE LadderInv'
<1>1. CASE B!SaveSettings \/ UNCHANGED B!vars
  <2>1. UNCHANGED <<attempts, failures, completed, override, previous, incoming, phase, running,
                    settings, job, interruptions, exchanged>>
    BY <1>1 DEF B!SaveSettings, B!vars, B!counters, B!files, B!process, B!history
  <2> QED
    BY <2>1 DEF LadderInv, Installing, Counted, StartsAfresh, Mending, Mendable, B!Loads, Spending
<1> QED
  BY <1>1, BootsKeep, InitializesKeep, DeathsKeep, FinishesKeep, UploadsKeep, StopsKeep DEF B!Next

(* The cheap remedy comes first: default settings before the flashed copy, *)
(* and the flashed copy before the stock clock (chooseApplication,         *)
(* ApplicationHost::initialize), for every number of boots the rungs are   *)
(* apart and any number of faults.                                         *)
THEOREM CheapestRemedyFirst == B!Spec => []RungsAreTakenInTurn
<1>1. LadderInv => RungsAreTakenInTurn
  <2> SUFFICES ASSUME LadderInv PROVE B!RungsAreTakenInTurn
    BY DEF RungsAreTakenInTurn
  <2>1. B!UpdateOutlivesBadSettings
    BY Versions DEF LadderInv, Mending, Mendable, Installing, Counted, B!UpdateOutlivesBadSettings
  <2>2. B!StockIsLastResort
    BY Rungs DEF LadderInv, Spending, Counted, B!StockIsLastResort
  <2> QED
    BY <2>1, <2>2 DEF B!RungsAreTakenInTurn
<1> QED
  BY <1>1, LadderInitially, LadderInductive, PTL DEF B!Spec

(* Whichever step of an upload fails or is cut off, the version it         *)
(* displaces is there to be run or rolled back to (Tc002Upgrade::install). *)
THEOREM UploadsDisplaceNothing == B!Spec => DisplacedIsKept
<1>1. ASSUME LadderInv, [B!Next]_(B!vars), job # B!Idle, job.displaced # None
      PROVE  job.displaced \in {override', previous'}
  <2>1. CASE (\E b \in Uploads : B!Install(b)) \/ B!InstallStep \/ B!Rollback
    BY <1>1, <2>1, UploadsKeep
  <2>2. CASE UNCHANGED <<override, previous>>
    BY <1>1, <2>2 DEF LadderInv, Installing
  <2> QED
    BY <1>1, <2>1, <2>2 DEF B!Next, B!Boot, B!Initialize, B!Die, B!MarkHealthy, B!ClearAttempts,
       B!SaveSettings, B!Restart, B!PowerCut, B!Stop, B!files, B!vars
<1>2. LadderInv /\ [B!Next]_(B!vars)
        => [job # B!Idle /\ job.displaced # None => job.displaced \in {override', previous'}]_(B!vars)
  BY <1>1
<1> QED
  BY <1>2, LadderInitially, LadderInductive, PTL DEF B!Spec, DisplacedIsKept, B!DisplacedIsKept
=============================================================================
