------------------------------ MODULE SetupMode ------------------------------
(***************************************************************************)
(* Who has the radio.  The device has one: it is a station on somebody's   *)
(* network (wpa_supplicant and the DHCP client) or an access point of its  *)
(* own (Tc002Hotspot: hostapd and dnsmasq), and whoever cannot reach it    *)
(* over one of the two cannot reach it at all.                             *)
(*                                                                         *)
(* Three parts of one turn of the main loop pull at it, in this order:     *)
(* Tc002Network's join, stage by stage; the decision to host, with its     *)
(* patience, latch, retry and scan; and the hotspot's own clock, which     *)
(* gives the radio back.  A turn is four steps here, Lease (time, and      *)
(* DHCP as one bit: see Dhcp), Join, Host and Revert.  Requests, and the   *)
(* network around the device, act between turns.                           *)
(*                                                                         *)
(* A power cycle is another behaviour: Init allows every value of what is  *)
(* stored.  The supplicant and the DHCP client may each fail to start      *)
(* whenever they are asked to; nobody asks them again for that reason.     *)
(* The --hotspot option of the test bench is left out.                     *)
(***************************************************************************)
EXTENDS Naturals

CONSTANTS
  NeverConfigured, \* kNeverConfiguredMillis
  StoredNetwork,   \* kStoredNetworkMillis
  LostNetwork,     \* kLostNetworkMillis
  Retry,           \* kHotspotRetryMillis
  ScanGrace,       \* kHotspotScanGraceMillis
  RevertAfter,     \* kRevertMillis
  Timeout,         \* how long each stage of a join may take
  Elapses          \* how long a turn of the main loop may take

(* joinStage; Addressing is "associated" until it has asked for an address. *)
Timed   == {"settling", "restoring", "associating", "associated", "addressing"}
Working == Timed \cup {"asked", "configuring"}
Stages  == Working \cup {"idle", "done", "failed"}

ASSUME SetupModeAssumption ==
  /\ NeverConfigured \in Nat /\ StoredNetwork \in Nat /\ LostNetwork \in Nat
  /\ NeverConfigured <= StoredNetwork /\ StoredNetwork <= LostNetwork
  /\ Retry \in Nat /\ ScanGrace \in Nat /\ RevertAfter \in Nat
  /\ Timeout \in [Timed -> Nat]
  /\ Elapses \subseteq Nat

VARIABLES
  at,        \* the step of the turn that comes next
  loop,      \* the locals of main() that outlive a turn
  setup,     \* the host's one-shot request for setup mode, from the knob
  requested, \* settings_.network.hotspotRequested, from the rescue gesture
  hotspot,   \* Tc002Hotspot, with the time it has left
  station,   \* wpa_supplicant
  dhcp,      \* the DHCP client: off, asking or bound
  refused,   \* "station" or "client", which did not start when last asked to
  join,      \* Tc002Network's stage, with the time it has left
  stored,    \* there is a network in wpa_supplicant.conf
  away       \* since when it is without the address it had (history)

radio == <<hotspot, station, dhcp, refused>>
asks  == <<setup, requested>>
vars  == <<at, loop, asks, radio, join, stored, away>>

Least(a, b) == IF a < b THEN a ELSE b
Less(a, b)  == IF a > b THEN a - b ELSE 0

-----------------------------------------------------------------------------
(* The radio changes hands.                                                *)

Bound   == dhcp = "bound"
OnAir   == [running |-> TRUE, left |-> RevertAfter]
OffAir  == [running |-> FALSE, left |-> 0]
Present == [running |-> TRUE, associated |-> FALSE]
Gone    == [running |-> FALSE, associated |-> FALSE]

(* start(): the lease ends, the station goes, the daemons come up. *)
TakeRadio == hotspot' = OnAir /\ station' = Gone /\ dhcp' = "off" /\ refused' = {}

Parts == {"station", "client"}

StationOf(failed) == IF "station" \in failed THEN Gone ELSE Present
ClientOf(failed) == IF "client" \in failed THEN "off" ELSE "asking"

(* Fault: the station comes back, the request for an address does not. *)
StationOnly ==
  \E failed \in SUBSET {"station"} :
    /\ hotspot' = OffAir /\ station' = StationOf(failed) /\ refused' = failed
    /\ dhcp' = IF dhcp = "bound" THEN "asking" ELSE dhcp

(* stop(): the station is asked to come back and the client to begin       *)
(* again, and neither is looked after.  It is also the way out of a        *)
(* start() that failed half way.                                           *)
GiveRadioBack ==
  \E failed \in SUBSET Parts :
    /\ hotspot' = OffAir /\ station' = StationOf(failed) /\ dhcp' = ClientOf(failed)
    /\ refused' = failed

-----------------------------------------------------------------------------
(* ensureStation and Tc002Dhcp::begin, each of which may give up. *)
Init ==
  /\ at = "lease"
  /\ loop = [up |-> 0, everBound |-> FALSE, hosted |-> FALSE, retry |-> 0,
             knob |-> FALSE, scanned |-> FALSE, grace |-> 0, showing |-> FALSE]
  /\ setup = FALSE /\ requested \in BOOLEAN /\ stored \in BOOLEAN
  /\ refused \in SUBSET Parts
  /\ hotspot = OffAir /\ station = StationOf(refused) /\ dhcp = ClientOf(refused)
  /\ join = [stage |-> "idle", left |-> 0]
  /\ away = 0

(* Requests, between two turns.  A join is asked for on the configuration  *)
(* page, which somebody has to be able to open.                            *)
HoldKnob ==
  /\ at = "lease"
  /\ setup' = TRUE
  /\ UNCHANGED <<at, loop, requested, radio, join, stored, away>>

Rescue ==
  /\ at = "lease"
  /\ requested' = TRUE
  /\ UNCHANGED <<at, loop, setup, radio, join, stored, away>>

AskJoin ==
  /\ at = "lease"
  /\ Bound \/ hotspot.running
  /\ join.stage \notin Working
  /\ join' = [stage |-> "asked", left |-> 0]
  /\ UNCHANGED <<at, loop, asks, radio, stored, away>>

(* The network comes and goes. *)
Roam ==
  /\ at = "lease"
  /\ station.running
  /\ station' = [station EXCEPT !.associated = ~@]
  /\ UNCHANGED <<at, loop, asks, hotspot, dhcp, refused, join, stored, away>>

-----------------------------------------------------------------------------

(* Time passes, and the client asks, renews or loses its lease. *)
Later(e) ==
  /\ loop' = [loop EXCEPT !.up = Least(@ + e, LostNetwork),
                          !.retry = Less(@, e), !.grace = Less(@, e)]
  /\ hotspot' = [hotspot EXCEPT !.left = Less(@, e)]
  /\ join' = [join EXCEPT !.left = Less(@, e)]

Lease(e) ==
  /\ at = "lease" /\ at' = "join"
  /\ Later(e)
  /\ \/ UNCHANGED dhcp
     \/ dhcp = "asking" /\ station.associated /\ dhcp' = "bound"
     \/ dhcp = "bound" /\ dhcp' = "asking"
  /\ away' = IF dhcp' = "bound" \/ ~loop.everBound THEN 0 ELSE Least(away + e, LostNetwork)
  /\ UNCHANGED <<asks, station, refused, stored>>

-----------------------------------------------------------------------------
(* Tc002Network::poll.                                                     *)

Enter(stage) == join' = [stage |-> stage, left |-> IF stage \in Timed THEN Timeout[stage] ELSE 0]
Overdue      == join.left = 0
Poll(stages) == at = "join" /\ at' = "host" /\ join.stage \in stages
Elsewhere    == UNCHANGED <<loop, asks, away>>
JoinOnly     == Elsewhere /\ UNCHANGED <<radio, stored>>

NoJoin == Poll(Stages \ Working) /\ JoinOnly /\ UNCHANGED join

Settle == Poll({"asked"}) /\ Enter("settling") /\ JoinOnly

(* The reply has had its moment to get out: the radio is taken back. *)
TakeBack ==
  /\ Poll({"settling"}) /\ Overdue
  /\ Enter("restoring")
  /\ IF hotspot.running THEN GiveRadioBack ELSE UNCHANGED radio
  /\ Elsewhere /\ UNCHANGED stored

(* The control socket opens; one that was opened before the supplicant     *)
(* went away still looks open.                                             *)
Restored == Poll({"restoring"}) /\ Enter("configuring") /\ JoinOnly

(* SELECT_NETWORK leaves whatever network the station was on. *)
Configure ==
  /\ Poll({"configuring"}) /\ station.running
  /\ Enter("associating")
  /\ station' = Present
  /\ Elsewhere /\ UNCHANGED <<hotspot, dhcp, refused, stored>>

Associate == Poll({"associating"}) /\ station.associated /\ Enter("associated") /\ JoinOnly

(* Tc002Dhcp::restart, whoever has the radio by now; it may fail. *)
AskForAddress ==
  /\ Poll({"associated"})
  /\ IF Overdue THEN Enter("failed") ELSE join' = [join EXCEPT !.stage = "addressing"]
  /\ \E failed \in SUBSET {"client"} :
       dhcp' = ClientOf(failed) /\ refused' = (refused \ {"client"}) \cup failed
  /\ Elsewhere /\ UNCHANGED <<hotspot, station, stored>>

(* SAVE_CONFIG; nobody looks at the answer. *)
Addressed ==
  /\ Poll({"addressing"}) /\ Bound
  /\ Enter("done")
  /\ stored' \in {stored, TRUE}
  /\ Elsewhere /\ UNCHANGED radio

(* Fault: every poll grants the stage its time anew. *)
WaitAnew ==
  /\ Poll({"settling", "restoring", "associating", "addressing"}) /\ ~Overdue
  /\ join.stage = "associating" => ~station.associated
  /\ join.stage = "addressing" => ~Bound
  /\ JoinOnly /\ Enter(join.stage)

Wait ==
  /\ Poll({"settling", "restoring", "associating", "addressing"}) /\ ~Overdue
  /\ join.stage = "associating" => ~station.associated
  /\ join.stage = "addressing" => ~Bound
  /\ JoinOnly /\ UNCHANGED join

(* The network is taken out again and not saved; the station reconnects    *)
(* (Roam) to the ones it knew.                                             *)
Fail ==
  /\ Poll({"restoring", "configuring", "associating", "addressing"})
  /\ join.stage # "configuring" => Overdue
  /\ join.stage = "associating" => ~station.associated
  /\ join.stage = "addressing" => ~Bound
  /\ Enter("failed") /\ JoinOnly

Join ==
  \/ NoJoin \/ Settle \/ TakeBack \/ Restored \/ Configure \/ Associate
  \/ AskForAddress \/ Addressed \/ Wait \/ Fail

-----------------------------------------------------------------------------
(* To host or not to host.                                                 *)

(* The knob's request is taken, and clears the latch and the retry. *)
Taken ==
  [loop EXCEPT !.everBound = @ \/ Bound, !.knob = @ \/ setup,
               !.hosted = @ /\ ~setup, !.retry = IF setup THEN 0 ELSE @]

Patience ==
  IF ~stored THEN NeverConfigured
  ELSE IF loop.everBound THEN LostNetwork ELSE StoredNetwork

Unreachable == ~Bound /\ loop.up >= Patience

(* Fault: what was wanted when the scan began is still wanted. *)
WantsSinceScan ==
  /\ ~Taken.hosted /\ Taken.retry = 0
  /\ (requested /\ Unreachable) \/ Unreachable \/ Taken.knob \/ loop.scanned

(* wantHotspot, with askedByRescue, nowhereToGo and knobPending. *)
Wants ==
  /\ ~Taken.hosted /\ Taken.retry = 0
  /\ (requested /\ Unreachable) \/ Unreachable \/ Taken.knob

Scanned ==
  [Taken EXCEPT !.scanned = TRUE, !.grace = IF loop.scanned THEN @ ELSE ScanGrace]

Decide(l)  == at = "host" /\ at' = "revert" /\ loop' = l /\ setup' = FALSE
NotTheRadio == UNCHANGED <<requested, radio, join, stored, away>>

Rest == ~Wants /\ Decide(Taken) /\ NotTheRadio

(* Nothing in the list of networks yet. *)
Scan == Wants /\ Scanned.grace > 0 /\ Decide(Scanned) /\ NotTheRadio

(* The scan has settled, with networks or without, and start() is called. *)
Hosting ==
  [Taken EXCEPT !.hosted = TRUE, !.knob = FALSE, !.retry = Retry,
                !.scanned = FALSE, !.grace = 0, !.showing = TRUE]

Tried == [Scanned EXCEPT !.retry = Retry]

StartHosting ==
  /\ Wants /\ ~hotspot.running
  /\ Decide(Hosting) /\ TakeRadio
  /\ UNCHANGED <<requested, join, stored, away>>

AlreadyHosting == Wants /\ hotspot.running /\ Decide(Hosting) /\ NotTheRadio

(* Its configuration cannot be written: nothing has been touched. *)
StartRefused == Wants /\ ~hotspot.running /\ Decide(Tried) /\ NotTheRadio

(* hostapd, ifconfig or dnsmasq fails. *)
StartFails ==
  /\ Wants /\ ~hotspot.running
  /\ Decide(Tried) /\ GiveRadioBack
  /\ UNCHANGED <<requested, join, stored, away>>

Host == Rest \/ Scan \/ StartHosting \/ AlreadyHosting \/ StartRefused \/ StartFails

-----------------------------------------------------------------------------
(* Tc002Hotspot::tick, and what the loop concludes from it.                *)

Turned ==
  /\ at = "revert" /\ at' = "lease"
  /\ loop' = [loop EXCEPT !.showing = @ /\ hotspot'.running]
  /\ requested' = (requested /\ ~(dhcp' = "bound" /\ ~hotspot'.running))
  /\ UNCHANGED <<setup, join, stored, away>>

(* A daemon has died, or nobody has set the device up in time. *)
GiveUp == hotspot.running /\ GiveRadioBack /\ Turned

GoOn == (hotspot.running => hotspot.left > 0) /\ UNCHANGED radio /\ Turned

Revert == GiveUp \/ GoOn

-----------------------------------------------------------------------------
Next ==
  \/ HoldKnob \/ Rescue \/ AskJoin \/ Roam
  \/ \E e \in Elapses : Lease(e)
  \/ Join \/ Host \/ Revert

(* The loop turns, time passes, and hostapd does not refuse for ever. *)
Fairness ==
  /\ SF_vars(\E e \in Elapses \ {0} : Lease(e))
  /\ WF_vars(Join \/ Host \/ Revert)
  /\ SF_vars(StartHosting)

Spec == Init /\ [][Next]_vars /\ Fairness

-----------------------------------------------------------------------------
(***************************************************************************)
(* Properties.                                                             *)
(***************************************************************************)

(* The fields and their bounds: no timer is above the constant it is set   *)
(* to, and the latch and its clocks stay what main() declares.             *)
Loops ==
  [up : 0..LostNetwork, everBound : BOOLEAN, hosted : BOOLEAN, retry : 0..Retry,
   knob : BOOLEAN, scanned : BOOLEAN, grace : 0..ScanGrace, showing : BOOLEAN]

TypeOK ==
  /\ at \in {"lease", "join", "host", "revert"}
  /\ loop \in Loops
  /\ setup \in BOOLEAN /\ requested \in BOOLEAN /\ stored \in BOOLEAN
  /\ hotspot \in [running : BOOLEAN, left : 0..RevertAfter]
  /\ station \in [running : BOOLEAN, associated : BOOLEAN]
  /\ dhcp \in {"off", "asking", "bound"}
  /\ refused \subseteq Parts
  /\ join \in [stage : Stages, left : Nat]
  /\ away \in 0..LostNetwork

(* Whatever dies or is asked for in whatever order, the radio is an access *)
(* point or a station with a client that asks for an address, and never    *)
(* both; what of the two is missing is what was asked for when the radio   *)
(* was last given to the station, and did not start.  An address is the    *)
(* station's, never left over on the interface of the access point.        *)
NeverStranded ==
  IF hotspot.running THEN ~station.running /\ ~Bound
  ELSE /\ station.running <=> "station" \notin refused
       /\ dhcp # "off" <=> "client" \notin refused

(* Tc002Hotspot::stop: "the one state that must never be left behind is    *)
(* 'no access point and no station'".                                      *)
NobodyIsLeftBehind == hotspot.running \/ station.running

(* Tc002Hotspot::ensureStation: "the hotspot path restarts the supplicant  *)
(* too, so a device that lands here is not stranded".                      *)
StrandedIsHelped == ~NobodyIsLeftBehind ~> NobodyIsLeftBehind

(* A device that has an address is not taken off its network unless        *)
(* somebody held the knob, however long ago the hotspot was first wanted.  *)
ReachableIsLeftAlone ==
  [][~hotspot.running /\ hotspot'.running => ~Bound \/ setup \/ loop.knob]_vars

(* Holding the knob starts the hotspot, "whether or not the device is      *)
(* already online" (recovery.md), joining, or has hosted before, and if    *)
(* hostapd fails a few times first.                                        *)
KnobIsHonoured == setup ~> hotspot.running

(* A device that never gets an address hosts, if only once: a failed start *)
(* does not use up its chance ("the latch goes on success, not on the      *)
(* attempt").                                                              *)
HostsWhenUnreachable == <>[]~Bound => <>hotspot.running

(* "It does not keep an open access point running forever" (recovery.md).  *)
HostingEnds == hotspot.running ~> ~hotspot.running

(* A join ends, done or failed, whatever becomes of the radio under it. *)
JoinEnds == join.stage \in Working ~> join.stage \in {"done", "failed"}

(* "Five minutes is long enough that a transient outage is ridden out"     *)
(* (main.cpp): a device that had an address hosts by itself only when it   *)
(* has been without one for that long.                                     *)
RidesOutOutages ==
  [][~hotspot.running /\ hotspot'.running /\ stored /\ loop.everBound
       => setup \/ loop.knob \/ away >= LostNetwork]_vars
=============================================================================
