---------------------------- MODULE NetworkProofs ----------------------------
(***************************************************************************)
(* Somebody has the radio at all times, a device that can be reached is    *)
(* left alone, and the clock asks the server that is meant: for every      *)
(* patience, timeout and length of a turn, any servers, and any number of  *)
(* threads that come back late.                                            *)
(***************************************************************************)
EXTENDS Network, Integers, TLAPS

(* NeverStranded is not inductive by itself: the step at which a lease     *)
(* arrives (Lease) only asks whether the station is associated, and would  *)
(* let an access point be bound if a station that is gone could still be   *)
(* associated.                                                             *)
GoneIsGone == station.associated => station.running

RadioInv == TypeOK /\ GoneIsGone /\ NeverStranded

(* The steps that leave the radio alone. *)
LEMMA RadioIsKept ==
  ASSUME GoneIsGone, NeverStranded, UNCHANGED radio
  PROVE  GoneIsGone' /\ NeverStranded'
  BY DEF GoneIsGone, NeverStranded, Bound, radio

(* The two ways the radio changes hands, whoever had it before. *)
LEMMA RadioIsTaken ==
  ASSUME TakeRadio
  PROVE  GoneIsGone' /\ NeverStranded'
  BY DEF TakeRadio, OnAir, Gone, GoneIsGone, NeverStranded, Bound

LEMMA RadioIsGivenBack ==
  ASSUME GiveRadioBack
  PROVE  GoneIsGone' /\ NeverStranded'
<1>1. PICK failed \in SUBSET Parts :
        /\ hotspot' = OffAir /\ station' = StationOf(failed) /\ dhcp' = ClientOf(failed)
        /\ refused' = failed
  BY DEF GiveRadioBack
<1>2. hotspot'.running = FALSE
  BY <1>1 DEF OffAir
<1>3. /\ station'.running <=> "station" \notin failed
      /\ station'.associated = FALSE
  BY <1>1 DEF StationOf, Present, Gone
<1>4. dhcp' # "off" <=> "client" \notin failed
  BY <1>1 DEF ClientOf
<1> QED
  BY <1>1, <1>2, <1>3, <1>4 DEF GoneIsGone, NeverStranded

-----------------------------------------------------------------------------
(* Which of the steps of a turn move the radio, and how. *)
LEMMA JoinMovesTheRadio ==
  ASSUME Join, TypeOK, GoneIsGone, NeverStranded
  PROVE  GoneIsGone' /\ NeverStranded'
<1>1. ASSUME UNCHANGED radio PROVE GoneIsGone' /\ NeverStranded'
  BY <1>1, RadioIsKept
<1>2. CASE NoJoin \/ Settle \/ Restored \/ Associate \/ Wait \/ Fail
  BY <1>1, <1>2 DEF NoJoin, Settle, Restored, Associate, Wait, Fail, JoinOnly
<1>3. CASE TakeBack
  BY <1>1, <1>3, RadioIsGivenBack DEF TakeBack
<1>4. CASE Configure
  BY <1>4 DEF Configure, Present, GoneIsGone, NeverStranded, Bound
<1>5. CASE AskForAddress
  <2>1. PICK failed \in SUBSET {"client"} :
          dhcp' = ClientOf(failed) /\ refused' = (refused \ {"client"}) \cup failed
    BY <1>5 DEF AskForAddress
  <2>2. UNCHANGED <<hotspot, station>>
    BY <1>5 DEF AskForAddress
  <2>3. /\ dhcp' # "bound" /\ (dhcp' # "off" <=> "client" \notin refused')
        /\ "station" \in refused' <=> "station" \in refused
    BY <2>1 DEF ClientOf
  <2> QED
    BY <2>2, <2>3 DEF GoneIsGone, NeverStranded, Bound
<1>6. CASE Addressed
  BY <1>1, <1>6 DEF Addressed
<1> QED
  BY <1>2, <1>3, <1>4, <1>5, <1>6 DEF Join

LEMMA HostMovesTheRadio ==
  ASSUME Host, GoneIsGone, NeverStranded
  PROVE  GoneIsGone' /\ NeverStranded'
<1>1. CASE Rest \/ Scan \/ AlreadyHosting \/ StartRefused
  BY <1>1, RadioIsKept DEF Rest, Scan, AlreadyHosting, StartRefused, NotTheRadio
<1>2. CASE StartHosting
  BY <1>2, RadioIsTaken DEF StartHosting
<1>3. CASE StartFails
  BY <1>3, RadioIsGivenBack DEF StartFails
<1> QED
  BY <1>1, <1>2, <1>3 DEF Host

LEMMA RevertMovesTheRadio ==
  ASSUME Revert, GoneIsGone, NeverStranded
  PROVE  GoneIsGone' /\ NeverStranded'
  BY RadioIsKept, RadioIsGivenBack DEF Revert, GiveUp, GoOn

LEMMA LeaseMovesTheRadio ==
  ASSUME NEW e \in Elapses, Lease(e), TypeOK, GoneIsGone, NeverStranded
  PROVE  GoneIsGone' /\ NeverStranded'
<1>1. hotspot'.running = hotspot.running /\ station' = station
  BY DEF Lease, Later, TypeOK
<1>2. /\ \/ dhcp' = dhcp
         \/ dhcp = "bound" /\ dhcp' = "asking"
         \/ dhcp = "asking" /\ dhcp' = "bound" /\ station.associated
      /\ refused' = refused
  BY DEF Lease
<1> QED
  BY <1>1, <1>2 DEF GoneIsGone, NeverStranded, Bound

-----------------------------------------------------------------------------
(* The types. *)

(* Any change to the timers that keeps them in range keeps loop in Loops. *)
LEMMA LoopTimers ==
  ASSUME NEW l \in Loops, NEW up \in 0..LostNetwork, NEW retry \in 0..Retry, NEW grace \in 0..ScanGrace
  PROVE  [l EXCEPT !.up = up, !.retry = retry, !.grace = grace] \in Loops
  BY DEF Loops

LEMMA TimePasses ==
  ASSUME TypeOK, NEW e \in Elapses, Lease(e)
  PROVE  TypeOK'
<1> USE SetupModeAssumption
<1>1. e \in Nat
  OBVIOUS
<1>2. loop' \in Loops
  <2>1. loop \in Loops /\ loop.up \in 0..LostNetwork /\ loop.retry \in 0..Retry /\ loop.grace \in 0..ScanGrace
    BY DEF TypeOK, Loops
  <2>2. Least(loop.up + e, LostNetwork) \in 0..LostNetwork
    BY <1>1, <2>1 DEF Least
  <2>3. Less(loop.retry, e) \in 0..Retry /\ Less(loop.grace, e) \in 0..ScanGrace
    BY <1>1, <2>1 DEF Less
  <2> QED
    BY <2>1, <2>2, <2>3, LoopTimers DEF Lease, Later
<1>3. hotspot' \in [running : BOOLEAN, left : 0..RevertAfter]
  BY <1>1 DEF Lease, Later, Less, TypeOK
<1>4. join' \in [stage : Stages, left : Nat]
  BY <1>1 DEF Lease, Later, Less, TypeOK
<1>5. away' \in 0..LostNetwork
  BY <1>1 DEF Lease, Least, TypeOK
<1> QED
  BY <1>2, <1>3, <1>4, <1>5 DEF Lease, asks, TypeOK

LEMMA LoopFlags ==
  ASSUME NEW l \in Loops, NEW leased \in BOOLEAN, NEW knob \in BOOLEAN, NEW hosted \in BOOLEAN, NEW retry \in 0..Retry
  PROVE  [l EXCEPT !.everBound = leased, !.knob = knob, !.hosted = hosted, !.retry = retry] \in Loops
  BY DEF Loops

LEMMA LoopStarts ==
  ASSUME NEW l \in Loops
  PROVE  [l EXCEPT !.hosted = TRUE, !.knob = FALSE, !.retry = Retry,
                   !.scanned = FALSE, !.grace = 0, !.showing = TRUE] \in Loops
<1>1. \A hosted, knob, scanned, showing \in BOOLEAN, retry \in 0..Retry, grace \in 0..ScanGrace :
        [l EXCEPT !.hosted = hosted, !.knob = knob, !.retry = retry,
                  !.scanned = scanned, !.grace = grace, !.showing = showing] \in Loops
  BY DEF Loops
<1>2. Retry \in 0..Retry /\ 0 \in 0..ScanGrace
  BY SetupModeAssumption
<1> QED
  BY <1>1, <1>2, Zenon

(* What a step of the decision makes of the loop's locals. *)
LEMMA Decisions ==
  ASSUME TypeOK
  PROVE  Taken \in Loops /\ Scanned \in Loops /\ Tried \in Loops /\ Hosting \in Loops
<1> USE SetupModeAssumption
<1>1. loop \in Loops /\ setup \in BOOLEAN
  BY DEF TypeOK
<1>2. loop.knob \in BOOLEAN /\ loop.hosted \in BOOLEAN /\ loop.everBound \in BOOLEAN /\ loop.retry \in 0..Retry
  BY <1>1 DEF Loops
<1>3. Taken \in Loops
  <2>1. (loop.everBound \/ Bound) \in BOOLEAN /\ (loop.knob \/ setup) \in BOOLEAN /\ (loop.hosted /\ ~setup) \in BOOLEAN
    BY <1>1, <1>2, Zenon
  <2>2. (IF setup THEN 0 ELSE loop.retry) \in 0..Retry
    BY <1>2
  <2> QED
    BY <1>1, <2>1, <2>2, LoopFlags DEF Taken
<1>4. Scanned \in Loops
  <2>1. Taken.grace \in 0..ScanGrace
    BY <1>3 DEF Loops
  <2>2. (IF loop.scanned THEN Taken.grace ELSE ScanGrace) \in 0..ScanGrace
    BY <2>1
  <2>3. \A grace \in 0..ScanGrace : [Taken EXCEPT !.scanned = TRUE, !.grace = grace] \in Loops
    BY <1>3 DEF Loops
  <2> QED
    BY <2>2, <2>3 DEF Scanned
<1>5. Tried \in Loops
  BY <1>4 DEF Tried, Loops
<1>6. Hosting \in Loops
  BY <1>3, LoopStarts DEF Hosting
<1> QED
  BY <1>3, <1>4, <1>5, <1>6

Hotspots == [running : BOOLEAN, left : 0..RevertAfter]
Stations == [running : BOOLEAN, associated : BOOLEAN]
Clients  == {"off", "asking", "bound"}

LEMMA RadioKeepsTypes ==
  ASSUME TypeOK, UNCHANGED radio \/ TakeRadio \/ GiveRadioBack
  PROVE  hotspot' \in Hotspots /\ station' \in Stations /\ dhcp' \in Clients /\ refused' \subseteq Parts
<1>1. OnAir \in Hotspots /\ OffAir \in Hotspots
  BY SetupModeAssumption DEF OnAir, OffAir, Hotspots
<1>2. Present \in Stations /\ Gone \in Stations
  BY DEF Present, Gone, Stations
<1>3. CASE UNCHANGED radio
  BY <1>3 DEF radio, TypeOK, Hotspots, Stations, Clients
<1>4. CASE TakeRadio
  BY <1>1, <1>2, <1>4 DEF TakeRadio, Clients
<1>5. CASE GiveRadioBack
  BY <1>1, <1>2, <1>5 DEF GiveRadioBack, StationOf, ClientOf, Clients
<1> QED
  BY <1>3, <1>4, <1>5

LEMMA HostKeepsTypes ==
  ASSUME TypeOK, Host
  PROVE  TypeOK'
<1>1. loop' \in Loops
  BY Decisions DEF Host, Rest, Scan, StartHosting, AlreadyHosting, StartRefused, StartFails, Decide
<1>2. UNCHANGED radio \/ TakeRadio \/ GiveRadioBack
  BY DEF Host, Rest, Scan, StartHosting, AlreadyHosting, StartRefused, StartFails, NotTheRadio
<1>3. at' = "revert" /\ setup' = FALSE /\ UNCHANGED <<requested, join, stored, away>>
  BY DEF Host, Rest, Scan, StartHosting, AlreadyHosting, StartRefused, StartFails, Decide, NotTheRadio
<1> QED
  BY <1>1, <1>2, <1>3, RadioKeepsTypes DEF TypeOK, Hotspots, Stations, Clients

LEMMA JoinKeepsTypes ==
  ASSUME TypeOK, Join
  PROVE  TypeOK'
<1> USE SetupModeAssumption
<1>1. \A next \in Stages : Enter(next) => join' \in [stage : Stages, left : Nat]
  BY DEF Enter
<1>2. join' \in [stage : Stages, left : Nat]
  BY <1>1 DEF Join, NoJoin, Settle, TakeBack, Restored, Configure, Associate, AskForAddress, Addressed, Wait, Fail,
     TypeOK, Stages, Working, Timed
<1>3. hotspot' \in Hotspots /\ station' \in Stations /\ dhcp' \in Clients /\ refused' \subseteq Parts
  <2>1. CASE UNCHANGED radio \/ GiveRadioBack
    BY <2>1, RadioKeepsTypes
  <2>2. CASE Configure
    BY <2>2 DEF Configure, Present, TypeOK, Hotspots, Stations, Clients
  <2>3. CASE AskForAddress
    <3>1. PICK failed \in SUBSET {"client"} :
            dhcp' = ClientOf(failed) /\ refused' = (refused \ {"client"}) \cup failed
      BY <2>3 DEF AskForAddress
    <3>2. dhcp' \in Clients /\ refused' \subseteq Parts
      BY <3>1 DEF ClientOf, Clients, Parts, TypeOK
    <3> QED
      BY <2>3, <3>2 DEF AskForAddress, TypeOK, Hotspots, Stations
  <2> QED
    BY <2>1, <2>2, <2>3 DEF Join, NoJoin, Settle, TakeBack, Restored, Associate, Addressed, Wait, Fail, JoinOnly
<1>5. UNCHANGED <<loop, setup, requested, away>> /\ at' = "host" /\ stored' \in {stored, TRUE}
  BY DEF Join, NoJoin, Settle, TakeBack, Restored, Configure, Associate, AskForAddress, Addressed, Wait, Fail,
     JoinOnly, Elsewhere, Poll, asks
<1> QED
  BY <1>2, <1>3, <1>5 DEF TypeOK, Hotspots, Stations, Clients

LEMMA RevertKeepsTypes ==
  ASSUME TypeOK, Revert
  PROVE  TypeOK'
<1>1. hotspot' \in Hotspots /\ station' \in Stations /\ dhcp' \in Clients /\ refused' \subseteq Parts
  BY RadioKeepsTypes DEF Revert, GiveUp, GoOn
<1>2. hotspot'.running \in BOOLEAN
  BY <1>1 DEF Hotspots
<1>3. loop' \in Loops
  <2>1. loop \in Loops /\ (loop.showing /\ hotspot'.running) \in BOOLEAN
    BY <1>2, Zenon DEF TypeOK
  <2>2. \A on \in BOOLEAN : [loop EXCEPT !.showing = on] \in Loops
    BY <2>1 DEF Loops
  <2> QED
    BY <2>1, <2>2 DEF Revert, GiveUp, GoOn, Turned
<1>4. requested' \in BOOLEAN /\ at' = "lease" /\ UNCHANGED <<setup, join, stored, away>>
  BY DEF Revert, GiveUp, GoOn, Turned
<1> QED
  BY <1>1, <1>3, <1>4 DEF TypeOK, Hotspots, Stations, Clients

-----------------------------------------------------------------------------
LEMMA RadioStarts == Init => RadioInv
<1> SUFFICES ASSUME Init PROVE RadioInv
  OBVIOUS
<1>1. TypeOK
  <2>1. loop \in Loops /\ away \in 0..LostNetwork
    BY SetupModeAssumption DEF Init, Loops
  <2>2. hotspot \in Hotspots /\ station \in Stations /\ dhcp \in Clients /\ refused \subseteq Parts
    BY SetupModeAssumption DEF Init, OffAir, Present, Gone, StationOf, ClientOf, Hotspots, Stations, Clients
  <2>3. join \in [stage : Stages, left : Nat]
    BY DEF Init, Stages
  <2> QED
    BY <2>1, <2>2, <2>3 DEF Init, TypeOK, Hotspots, Stations, Clients
<1>2. GoneIsGone /\ NeverStranded
  BY DEF Init, OffAir, Present, Gone, StationOf, ClientOf, GoneIsGone, NeverStranded
<1> QED
  BY <1>1, <1>2 DEF RadioInv

LEMMA RadioKeeps == RadioInv /\ [Next]_vars => RadioInv'
<1> SUFFICES ASSUME RadioInv, [Next]_vars PROVE RadioInv'
  OBVIOUS
<1> USE DEF RadioInv
<1>1. CASE HoldKnob \/ Rescue \/ AskJoin
  <2>1. UNCHANGED radio
    BY <1>1 DEF HoldKnob, Rescue, AskJoin
  <2>2. TypeOK'
    <3>1. CASE HoldKnob
      BY <3>1 DEF HoldKnob, radio, asks, TypeOK
    <3>2. CASE Rescue
      BY <3>2 DEF Rescue, radio, asks, TypeOK
    <3>3. CASE AskJoin
      BY <3>3 DEF AskJoin, radio, asks, TypeOK, Stages, Working
    <3> QED
      BY <1>1, <3>1, <3>2, <3>3
  <2> QED
    BY <2>1, <2>2, RadioIsKept
<1>2. CASE Roam
  <2>1. TypeOK'
    BY <1>2 DEF Roam, asks, TypeOK
  <2>2. GoneIsGone' /\ NeverStranded'
    BY <1>2 DEF Roam, TypeOK, GoneIsGone, NeverStranded, Bound
  <2> QED
    BY <2>1, <2>2
<1>3. ASSUME NEW e \in Elapses, Lease(e) PROVE RadioInv'
  BY <1>3, TimePasses, LeaseMovesTheRadio
<1>4. CASE Join
  BY <1>4, JoinKeepsTypes, JoinMovesTheRadio
<1>5. CASE Host
  BY <1>5, HostKeepsTypes, HostMovesTheRadio
<1>6. CASE Revert
  BY <1>6, RevertKeepsTypes, RevertMovesTheRadio
<1>7. CASE UNCHANGED vars
  BY <1>7 DEF vars, radio, asks, TypeOK, GoneIsGone, NeverStranded, Bound
<1> QED
  BY <1>1, <1>2, <1>3, <1>4, <1>5, <1>6, <1>7 DEF Next

(* The two invariants together are inductive. *)
THEOREM RadioInvHolds == Spec => []RadioInv
BY RadioStarts, RadioKeeps, PTL DEF Spec

(* main() and Tc002Network only ever store what they declare. *)
THEOREM TypeCorrectness == Spec => []TypeOK
<1>1. RadioInv => TypeOK
  BY DEF RadioInv
<1> QED
  BY RadioInvHolds, <1>1, PTL

(* Tc002Hotspot::stop: whatever dies or is asked for, in whatever order    *)
(* and after whatever time, the device is an access point or a station     *)
(* that asks for an address, but for a supplicant and a client that were   *)
(* asked for and did not start.                                            *)
THEOREM SomebodyHasTheRadio == Spec => []NeverStranded
<1>1. RadioInv => NeverStranded
  BY DEF RadioInv
<1> QED
  BY RadioInvHolds, <1>1, PTL

-----------------------------------------------------------------------------
(* Only a decision to host takes the radio. *)
LEMMA OnlyHostingTakesTheRadio ==
  ASSUME TypeOK, [Next]_vars, ~hotspot.running, hotspot'.running
  PROVE  StartHosting
<1>1. ~GiveRadioBack /\ ~UNCHANGED radio /\ ~UNCHANGED hotspot
  BY DEF GiveRadioBack, OffAir, radio
<1>2. \A e \in Elapses : ~Lease(e)
  BY DEF Lease, Later, TypeOK
<1>3. ~HoldKnob /\ ~Rescue /\ ~AskJoin /\ ~Roam
  BY <1>1 DEF HoldKnob, Rescue, AskJoin, Roam
<1>4. ~Join
  BY <1>1 DEF Join, NoJoin, Settle, TakeBack, Restored, Configure, Associate, AskForAddress, Addressed, Wait, Fail,
     JoinOnly
<1>5. ~Revert
  BY <1>1 DEF Revert, GiveUp, GoOn
<1>6. Host
  BY <1>1, <1>2, <1>3, <1>4, <1>5 DEF Next, vars, radio
<1> QED
  BY <1>1, <1>6 DEF Host, Rest, Scan, AlreadyHosting, StartRefused, StartFails, NotTheRadio

(* A device with an address is only taken off its network by the knob: the *)
(* wish to host is judged anew in the very turn in which the radio goes.   *)
THEOREM OnlyTheKnobTakesAReachableDevice == Spec => ReachableIsLeftAlone
<1>1. ASSUME RadioInv, [Next]_vars, ~hotspot.running, hotspot'.running
      PROVE  ~Bound \/ setup \/ loop.knob
  <2>1. Wants
    BY <1>1, OnlyHostingTakesTheRadio DEF RadioInv, StartHosting
  <2>2. Taken.knob = (loop.knob \/ setup)
    BY <1>1 DEF RadioInv, TypeOK, Loops, Taken
  <2> QED
    BY <2>1, <2>2 DEF Wants, Unreachable
<1>2. RadioInv /\ [Next]_vars => [~hotspot.running /\ hotspot'.running => ~Bound \/ setup \/ loop.knob]_vars
  BY <1>1
<1> QED
  BY RadioInvHolds, <1>2, PTL DEF Spec, ReachableIsLeftAlone

-----------------------------------------------------------------------------
(* The clock.                                                              *)
(* While a look-up is waited for, whoever may still write to its block     *)
(* looks up the server that is meant, and so does what was written there.  *)
BlockIsOurs ==
  stage = "resolving" =>
    /\ resolution.found \in {C!Nobody, server}
    /\ \A t \in lookups : t.block = resolution.id => t.host = server

(* Who may be asked, and the shapes of what is passed on.                  *)
ClockTyped ==
  /\ setting \in Servers
  /\ server \in Servers \cup {C!Nobody} /\ address \in Servers \cup {C!Nobody}
  /\ resolution \in [id : Int, done : BOOLEAN, found : Servers \cup {C!Nobody}]
  /\ lookups \subseteq [block : Int, host : Servers]
  /\ socket \in [to : Servers \cup {C!Nobody},
                 arrived : {"nothing", "time", "nonsense", "loss"}]

ClockInv == ClockTyped /\ BlockIsOurs /\ C!AsksWhoIsMeant

LEMMA ClockInitially == C!Init => ClockInv
BY DEF C!Init, ClockInv, ClockTyped, BlockIsOurs, C!AsksWhoIsMeant, C!NoBlock, C!NoSocket,
       C!Nobody

(* Beginning with a server, from whatever stage, in a block of its own. *)
LEMMA ClockStarts ==
  ASSUME NEW s \in Servers, ClockTyped, server' = s, setting' = setting, C!StartWith(s)
  PROVE  ClockInv'
<1> USE DEF ClockTyped, BlockIsOurs, C!AsksWhoIsMeant, ClockInv
<1>1. CASE s \in Literals
  BY <1>1 DEF C!StartWith, C!lookup, C!query
<1>2. CASE s \notin Literals
  <2>1. C!LookUp(s) /\ UNCHANGED <<address, socket>>
    BY <1>2 DEF C!StartWith, C!query
  <2>2. CASE C!Blocks = {}
    <3>1. C!NoThread BY <2>1, <2>2 DEF C!LookUp
    <3>2. /\ resolution' = [id |-> 0, done |-> FALSE, found |-> C!Nobody]
          /\ stage' = "idle" /\ UNCHANGED lookups
      BY <3>1 DEF C!NoThread, C!NoBlock, C!Nobody
    <3>3. QED BY <2>1, <3>1, <3>2 DEF C!Nobody
  <2>3. CASE C!Blocks # {}
    <3>1. PICK b \in C!Blocks : C!Thread(b, s)
      BY <2>1, <2>3 DEF C!LookUp
    <3>2. b \in Int /\ \A t \in lookups : t.block # b
      BY DEF C!Blocks
    <3>3. resolution' = [id |-> b, done |-> FALSE, found |-> C!Nobody]
          /\ lookups' = lookups \cup {[block |-> b, host |-> s]}
          /\ stage' = "resolving"
      BY <3>1 DEF C!Thread
    <3>4. [block |-> b, host |-> s] \in [block : Int, host : Servers]
      BY <3>2
    <3>5. resolution' \in [id : Int, done : BOOLEAN, found : Servers \cup {C!Nobody}]
      BY <3>2, <3>3
    <3>6. QED BY <2>1, <3>2, <3>3, <3>4, <3>5
  <2>4. QED BY <2>2, <2>3
<1>3. QED BY <1>1, <1>2

LEMMA ClockSteps ==
  ASSUME ClockInv, C!Step, server = setting, UNCHANGED <<server, setting>> PROVE ClockInv'
<1> USE DEF ClockTyped, BlockIsOurs, C!AsksWhoIsMeant, ClockInv
<1>1. CASE C!Idles
  BY <1>1 DEF C!Idles, C!lookup, C!query
<1>2. CASE C!Start
  <2>1. PICK s \in Servers : s = server OBVIOUS
  <2>2. server' = s /\ setting' = setting /\ C!StartWith(s) BY <1>2, <2>1 DEF C!Start
  <2>3. QED BY <2>2, ClockStarts
<1>3. CASE C!LookedUp
  BY <1>3 DEF C!LookedUp, C!NoBlock, C!Nobody, C!query
<1>4. CASE C!Ask
  BY <1>4 DEF C!Ask, C!NoSocket, C!Nobody, C!lookup
<1>5. CASE C!Use \/ C!Unusable
  BY <1>5 DEF C!Use, C!Unusable, C!Over, C!NoSocket, C!Nobody, C!lookup
<1>6. CASE C!NoAnswer
  BY <1>6 DEF C!NoAnswer, C!Over, C!NoSocket, C!Nobody, C!lookup
<1>7. QED
  BY <1>1, <1>2, <1>3, <1>4, <1>5, <1>6 DEF C!Step

(* A thread writes what it looked up to its own block. *)
LEMMA ClockReturns ==
  ASSUME ClockInv, NEW t \in lookups, C!Found(t) \/ C!NotFound(t) PROVE ClockInv'
<1> USE DEF ClockTyped, BlockIsOurs, C!AsksWhoIsMeant, ClockInv
<1>1. PICK found \in {t.host, C!Nobody} : C!Return(t, found)
  BY DEF C!Found, C!NotFound
<1>2. CASE resolution.id = t.block
  BY <1>1, <1>2 DEF C!Return, C!query, C!world
<1>3. CASE resolution.id # t.block
  BY <1>1, <1>3 DEF C!Return, C!query, C!world
<1>4. QED BY <1>2, <1>3

LEMMA ClockInductive == ClockInv /\ [C!Next]_(C!vars) => ClockInv'
<1> SUFFICES ASSUME ClockInv, [C!Next]_(C!vars) PROVE ClockInv'
  OBVIOUS
<1> USE DEF ClockTyped, BlockIsOurs, C!AsksWhoIsMeant, ClockInv
<1>1. CASE C!Turn
  <2>1. CASE C!Begin
    <3>1. PICK s \in Servers : s = setting OBVIOUS
    <3>2. server' = s /\ setting' = setting /\ C!StartWith(s)
      BY <1>1, <2>1, <3>1 DEF C!Begin, C!Turn, C!world
    <3>3. QED BY <3>2, ClockStarts
  <2>2. CASE server = setting /\ C!Step /\ UNCHANGED server
    BY <1>1, <2>2, ClockSteps DEF C!Turn, C!world
  <2>3. QED BY <1>1, <2>1, <2>2 DEF C!Turn
<1>2. CASE C!TurnWithout
  BY <1>2 DEF C!TurnWithout, C!lookup, C!world
<1>3. CASE \E t \in lookups : C!Found(t) \/ C!NotFound(t)
  BY <1>3, ClockReturns
<1>4. CASE \E what \in {"time", "nonsense", "loss"} : C!Answer(what)
  BY <1>4 DEF C!Answer, C!lookup, C!world
<1>5. CASE C!Connect \/ C!Lose \/ \E s \in Servers : C!Edit(s)
  BY <1>5 DEF C!Connect, C!Lose, C!Edit, C!client, C!lookup, C!query
<1>6. CASE UNCHANGED C!vars
  BY <1>6 DEF C!vars, C!world, C!client, C!lookup, C!query
<1>7. QED
  BY <1>1, <1>2, <1>3, <1>4, <1>5, <1>6 DEF C!Next

(* However often the setting changes and whichever threads come back late, *)
(* the client asks the server it was begun with (Tc002Sntp::tick).         *)
THEOREM TheServerMeantIsAsked == C!Spec => []AsksWhoIsMeant
<1>1. ClockInv => C!AsksWhoIsMeant
  BY DEF ClockInv
<1>2. QED
  BY ClockInitially, ClockInductive, <1>1, PTL DEF C!Spec, AsksWhoIsMeant
=============================================================================
