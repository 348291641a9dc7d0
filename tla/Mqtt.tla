-------------------------------- MODULE Mqtt --------------------------------
(***************************************************************************)
(* The device at a broker: MqttService with its back-off, its discovery    *)
(* and its commands, the gateway through which scripts watch topics, the   *)
(* client with its bounded queue, and a broker that keeps what is retained *)
(* and publishes the will of a session that ends without a goodbye.        *)
(*                                                                         *)
(* One thing happens per poll of the client: a packet leaves, a packet is  *)
(* taken, or the end of the connection is noticed.  The poll in            *)
(* MqttService::tick is one that finds nothing; what there is to find was  *)
(* found by the loop's own poll just before it.                            *)
(***************************************************************************)
EXTENDS Naturals, Sequences, FiniteSets

CONSTANTS
  Filters,        \* what scripts may watch
  Secrets,        \* passwords of the broker
  Lengths,        \* the length of each
  QueueLimit,     \* kSendQueueDepth, in messages
  MaxDelay,       \* maxDelayMillis, in ticks; firstDelayMillis is one
  MaxFaults,      \* bound on drops, outages and power cuts
  MaxChanges      \* bound on changes of settings and of watches

VARIABLES
  settings,    \* settings_.mqtt
  service,     \* MqttService
  watches,     \* watches_ of the gateway
  linked,      \* its connected_
  client,      \* the client: state_, what it has queued, what it connected with
  inbox,       \* packets on their way to the device
  broker,      \* the broker: whether it can be reached, the session, what is retained
  lost,        \* whether the queue refused anything on this connection
  faults, changes

vars == <<settings, service, watches, linked, client, inbox, broker, lost, faults, changes>>

(* The scripts' watches are counted and the limits are numbers.            *)
MqttAssumption ==
  /\ IsFiniteSet(Filters)
  /\ QueueLimit \in Nat /\ MaxDelay \in Nat \ {0}

Commands == "commands"     \* the filter of the device's own commands

TypeOK ==
  /\ settings \in [enabled: BOOLEAN, secret: Secrets, discovery: BOOLEAN]
  /\ service \in [enabled: BOOLEAN, made: {0} \cup {Lengths[s] : s \in Secrets},
                  wait: 0..MaxDelay, delay: 0..MaxDelay, announced: BOOLEAN,
                  discovered: BOOLEAN, statusDue: BOOLEAN]
  /\ watches \subseteq Filters
  /\ linked \in BOOLEAN
  /\ client.state \in {"disabled", "disconnected", "connecting", "connected"}
  /\ Len(client.queue) <= QueueLimit
  /\ broker.availability \in {"none", "online", "offline"}
  /\ lost \in BOOLEAN

-----------------------------------------------------------------------------
(* The client.  A state of the device as a whole is a record of what       *)
(* changes within one call, so that the calls nest as they do in the code. *)

Now == [service |-> service, linked |-> linked, client |-> client, lost |-> lost]

Became(now) ==
  /\ service' = now.service
  /\ linked' = now.linked
  /\ client' = now.client
  /\ lost' = now.lost

(* enqueue: what finds the queue full is gone, and only that is told. *)
Enqueue(now, message) ==
  IF Len(now.client.queue) < QueueLimit
  THEN [now EXCEPT !.client.queue = Append(@, message)]
  ELSE [now EXCEPT !.lost = TRUE]

(* publish and subscribe need a connection. *)
Publish(now, message) ==
  IF now.client.state = "connected" THEN Enqueue(now, message) ELSE now

(* Some order of a set. *)
Listed(S) ==
  CHOOSE order \in [1..Cardinality(S) -> S] : \A x \in S : \E i \in DOMAIN order : order[i] = x

(* One after the other, until the queue is full. *)
EnqueueAll(now, messages) ==
  LET all == now.client.queue \o messages
      fits == Len(all) <= QueueLimit
      queued == [now EXCEPT !.client.queue = IF fits THEN all ELSE SubSeq(all, 1, QueueLimit)]
  IN  IF fits THEN queued ELSE [queued EXCEPT !.lost = TRUE]

(* ScriptGateway::resubscribe, once the gateway knows of the connection. *)
Resubscribe(now) ==
  IF ~now.linked \/ now.client.state # "connected" THEN now
  ELSE EnqueueAll(now, [i \in 1..Cardinality(watches) |->
                          [kind |-> "subscribe", filter |-> Listed(watches)[i]]])

(* MqttService::publishDiscovery. *)
PublishDiscovery(now, enabled) ==
  IF now.client.state # "connected" \/ enabled = now.service.discovered THEN now
  ELSE [Publish(now, [kind |-> "discovery", on |-> enabled])
          EXCEPT !.service.discovered = enabled]

(* Fault: the watches are sent before the gateway is told of the connection. *)
OnConnectedWatchesFirst(now) ==
  LET base == [now EXCEPT !.service.delay = 0, !.service.announced = TRUE]
      online == Publish(base, [kind |-> "availability", value |-> "online"])
      listening == Publish(online, [kind |-> "subscribe", filter |-> Commands])
      watching == [Resubscribe(listening) EXCEPT !.linked = TRUE]
  IN  [PublishDiscovery([watching EXCEPT !.service.discovered = FALSE], settings.discovery)
         EXCEPT !.service.statusDue = TRUE]

(* MqttService::onConnected. *)
OnConnected(now) ==
  LET base == [now EXCEPT !.service.delay = 0, !.service.announced = TRUE]
      online == Publish(base, [kind |-> "availability", value |-> "online"])
      listening == Publish(online, [kind |-> "subscribe", filter |-> Commands])
      watching == Resubscribe([listening EXCEPT !.linked = TRUE])
  IN  [PublishDiscovery([watching EXCEPT !.service.discovered = FALSE], settings.discovery)
         EXCEPT !.service.statusDue = TRUE]

(* MqttService::onStateChanged, for every state but connected. *)
OnEnded(now, state) ==
  [now EXCEPT !.service.discovered = FALSE, !.linked = FALSE,
              !.service.announced = @ /\ state # "disconnected"]

(* setState tells the listener only of a change, and the listener may      *)
(* publish at once.                                                        *)
SetState(now, state) ==
  IF now.client.state = state THEN now
  ELSE LET moved == [now EXCEPT !.client.state = state] IN
       IF state = "connected" THEN OnConnected(moved) ELSE OnEnded(moved, state)

(* closeSocket drops what was queued with the connection. *)
CloseSocket(now) ==
  [now EXCEPT !.client.socket = "none", !.client.queue = <<>>, !.client.joined = FALSE]

Fail(now) == SetState(CloseSocket(now), "disconnected")

(* connect: a new socket; what became of it is for the polls to find out.  *)
Connect(now) ==
  SetState([CloseSocket(now) EXCEPT !.client.socket = "opening",
                                    !.client.secret = settings.secret, !.lost = FALSE],
           "connecting")

(* disconnect writes its packet past the queue, and then drops the queue. *)
Disconnect(now) == SetState(CloseSocket(now), "disabled")

-----------------------------------------------------------------------------
(* Backoff::nextDelayMillis. *)
NextDelay(delay) == IF delay = 0 THEN 1 ELSE IF 2 * delay > MaxDelay THEN MaxDelay ELSE 2 * delay

Fingerprint == IF settings'.enabled THEN Lengths[settings'.secret] ELSE 0

(* MqttService::shutdown: "offline" is said, then the client disconnects.  *)
Shutdown(now) ==
  IF ~now.service.enabled THEN now
  ELSE LET said == IF now.client.state = "connected" /\ now.service.announced
                   THEN Publish(now, [kind |-> "availability", value |-> "offline"]) ELSE now
       IN  [Disconnect(said) EXCEPT !.service.announced = FALSE]

(* MqttService::configure, after the settings have changed. *)
Configure(now) ==
  IF settings'.enabled = now.service.enabled /\ Fingerprint = now.service.made THEN now
  ELSE [Shutdown(now) EXCEPT
          !.service = [@ EXCEPT !.enabled = settings'.enabled, !.made = Fingerprint,
                                !.delay = 0, !.wait = 0, !.announced = FALSE,
                                !.statusDue = TRUE],
          !.linked = FALSE]

(* A session whose connection ended without a goodbye leaves its will. *)
Will(b) ==
  IF ~b.live THEN b
  ELSE [b EXCEPT !.live = FALSE, !.session = {}, !.availability = "offline"]

(* What the broker makes of the end of the socket: DISCONNECT is a goodbye, *)
(* anything else is found out later.                                       *)
Parted(b) == IF client.joined /\ client.state = "connected"
             THEN [b EXCEPT !.live = FALSE, !.session = {}] ELSE b

(* What was on its way belongs to the socket it was on. *)
InboxAfter(now) == IF now.client.joined THEN inbox ELSE <<>>

Device(now) == Became(now) /\ inbox' = InboxAfter(now)

-----------------------------------------------------------------------------
Fresh ==
  [service |-> [enabled |-> FALSE, made |-> 0, wait |-> 0, delay |-> 0, announced |-> FALSE,
                discovered |-> FALSE, statusDue |-> TRUE],
   linked |-> FALSE,
   client |-> [state |-> "disabled", socket |-> "none", joined |-> FALSE, queue |-> <<>>,
               secret |-> CHOOSE s \in Secrets : TRUE],
   lost |-> FALSE]

Started(now, mqtt) ==
  [now EXCEPT !.service.enabled = mqtt.enabled,
              !.service.made = IF mqtt.enabled THEN Lengths[mqtt.secret] ELSE 0]

Init ==
  /\ settings \in [enabled: BOOLEAN, secret: Secrets, discovery: BOOLEAN]
  /\ LET now == Started(Fresh, settings) IN
       /\ service = now.service /\ linked = now.linked
       /\ client = now.client /\ lost = now.lost
  /\ watches = {}
  /\ inbox = <<>>
  /\ broker = [up |-> TRUE, live |-> FALSE, session |-> {}, availability |-> "none", entities |-> FALSE]
  /\ faults = 0
  /\ changes = 0

(* A change over HTTP: the host has the service read its settings again.   *)
ChangeSettings ==
  /\ changes < MaxChanges
  /\ changes' = changes + 1
  /\ settings' \in [enabled: BOOLEAN, secret: Secrets, discovery: BOOLEAN]
  /\ settings' # settings
  /\ LET now == Configure(Now) IN
       /\ Device([now EXCEPT !.service.statusDue = TRUE])
       /\ broker' = IF now.client.socket = "none" THEN Parted(broker) ELSE broker
  /\ UNCHANGED <<watches, faults>>

(* A script begins to watch: at once if the broker is there. *)
Watch(f) ==
  /\ changes < MaxChanges
  /\ changes' = changes + 1
  /\ f \notin watches
  /\ watches' = watches \cup {f}
  /\ Became(IF linked THEN Publish(Now, [kind |-> "subscribe", filter |-> f]) ELSE Now)
  /\ UNCHANGED <<settings, inbox, broker, faults>>

(* forget: the subscription stays until the next connection. *)
Forget(f) ==
  /\ changes < MaxChanges
  /\ changes' = changes + 1
  /\ f \in watches
  /\ watches' = watches \ {f}
  /\ UNCHANGED <<settings, service, linked, client, inbox, broker, lost, faults>>

-----------------------------------------------------------------------------
(* connectNow, when the wait is over. *)
ConnectNow(now) ==
  LET begun == Connect(now)
      delay == NextDelay(begun.service.delay)
  IN  [begun EXCEPT !.service.delay = delay, !.service.wait = delay]

(* Fault: only a connection that has failed is tried again. *)
TriesAgainIfFailed(state) == state \in {"disabled", "disconnected"}

(* Whatever is not connected when the wait is over is begun again, also a  *)
(* connection the broker never answered.                                   *)
TriesAgain(state) == state # "connected"

(* MqttService::tick. *)
Tick ==
  LET seen == PublishDiscovery(Now, settings.discovery)
      waiting == [seen EXCEPT !.service.wait = IF @ > 0 THEN @ - 1 ELSE 0]
  IN
  /\ Device(IF ~seen.service.enabled THEN seen
            ELSE IF TriesAgain(seen.client.state)
            THEN IF waiting.service.wait > 0 THEN waiting ELSE ConnectNow(waiting)
            ELSE IF seen.client.state = "connected" /\ seen.service.statusDue
            THEN [Publish(seen, [kind |-> "status"]) EXCEPT !.service.statusDue = FALSE]
            ELSE seen)
  /\ UNCHANGED <<settings, watches, broker, faults, changes>>

(* poll: the socket is up, CONNECT is sent, and the broker answers it.  An *)
(* older session of the same name ends here at the latest.                 *)
Join ==
  /\ client.socket = "opening"
  /\ broker.up
  /\ client' = [client EXCEPT !.socket = "open", !.joined = TRUE]
  /\ broker' = [Will(broker) EXCEPT !.live = TRUE]
  /\ inbox' = <<[kind |-> "connack"]>>
  /\ UNCHANGED <<settings, service, watches, linked, lost, faults, changes>>

Retain(message) ==
  CASE message.kind = "availability" -> [broker EXCEPT !.availability = message.value]
    [] message.kind = "discovery" -> [broker EXCEPT !.entities = message.on]
    [] message.kind = "subscribe" -> [broker EXCEPT !.session = @ \cup {message.filter}]
    [] OTHER -> broker

(* pumpWrites: the first message in the queue reaches the broker. *)
Write ==
  /\ client.joined /\ client.queue # <<>> /\ broker.live
  /\ broker' = Retain(Head(client.queue))
  /\ client' = [client EXCEPT !.queue = Tail(@)]
  /\ UNCHANGED <<settings, service, watches, linked, inbox, lost, faults, changes>>

(* A command: the API carries it out, the result is published, and the     *)
(* status is due if something changed.  A change of the settings is not    *)
(* followed by configure here.                                             *)
Command(now, message) ==
  [Publish(now, [kind |-> "result"]) EXCEPT !.service.statusDue = TRUE]

(* pumpReads and handlePacket. *)
Read ==
  /\ client.joined /\ inbox # <<>>
  /\ LET packet == Head(inbox) IN
       /\ settings' = IF packet.kind = "patch"
                      THEN [settings EXCEPT !.discovery = packet.discovery] ELSE settings
       /\ Became(IF packet.kind = "connack" THEN SetState(Now, "connected")
                 ELSE Command(Now, packet))
  /\ inbox' = Tail(inbox)
  /\ UNCHANGED <<watches, broker, faults, changes>>

(* The end of the connection is noticed: by a read, a write or a ping that *)
(* fails, or by the time allowed for the socket to open.                   *)
Ended ==
  /\ \/ client.joined /\ ~broker.live
     \/ client.socket = "opening" /\ ~broker.up
  /\ Device(Fail(Now))
  /\ UNCHANGED <<settings, watches, broker, faults, changes>>

-----------------------------------------------------------------------------
(* The broker and the rest of the world. *)

(* Somebody sends a command that is subscribed to. *)
Send ==
  /\ client.joined /\ client.state = "connected"
  /\ broker.live /\ Commands \in broker.session
  /\ Len(inbox) < 1
  /\ changes < MaxChanges
  /\ changes' = changes + 1
  /\ \E discovery \in BOOLEAN :
       inbox' = Append(inbox, [kind |-> "patch", discovery |-> discovery])
  /\ UNCHANGED <<settings, service, watches, linked, client, broker, lost, faults>>

(* A connection the device has left without a goodbye is found out. *)
Notice ==
  /\ broker.live /\ ~client.joined
  /\ broker' = Will(broker)
  /\ UNCHANGED <<settings, service, watches, linked, client, inbox, lost, faults, changes>>

(* The network or the broker drops the connection, with what was on it. *)
Drop ==
  /\ faults < MaxFaults
  /\ faults' = faults + 1
  /\ broker.live
  /\ broker' \in {Will(broker), [Will(broker) EXCEPT !.up = FALSE]}
  /\ inbox' = <<>>
  /\ UNCHANGED <<settings, service, watches, linked, client, lost, changes>>

(* The broker forgets its answer: CONNECT is taken, CONNACK never comes. *)
LoseConnack ==
  /\ faults < MaxFaults
  /\ faults' = faults + 1
  /\ inbox = <<[kind |-> "connack"]>>
  /\ inbox' = <<>>
  /\ UNCHANGED <<settings, service, watches, linked, client, broker, lost, changes>>

Recover ==
  /\ ~broker.up
  /\ broker' = [broker EXCEPT !.up = TRUE]
  /\ UNCHANGED <<settings, service, watches, linked, client, inbox, lost, faults, changes>>

(* Power is cut, and the device starts again; the scripts watch anew. *)
PowerCut ==
  /\ faults < MaxFaults
  /\ faults' = faults + 1
  /\ Became(Started(Fresh, settings))
  /\ watches' = {}
  /\ inbox' = <<>>
  /\ UNCHANGED <<settings, broker, changes>>

(* The process is asked to stop, says goodbye and is started again. *)
Restart ==
  /\ faults < MaxFaults
  /\ faults' = faults + 1
  /\ Became(Started(Fresh, settings))
  /\ watches' = {}
  /\ inbox' = <<>>
  /\ broker' = Parted(broker)
  /\ UNCHANGED <<settings, changes>>

Poll == Join \/ Write \/ Read \/ Ended

Next ==
  \/ ChangeSettings \/ Tick \/ Poll
  \/ \E f \in Filters : Watch(f) \/ Forget(f)
  \/ Send \/ Notice \/ Drop \/ LoseConnack \/ Recover \/ PowerCut \/ Restart

(* The loop runs on, TCP reports a dead connection one day, and the broker *)
(* comes back, notices what has left it, and does not answer too late      *)
(* every time (the wait grows to a minute).                                *)
Spec ==
  /\ Init /\ [][Next]_vars
  /\ WF_vars(Tick) /\ WF_vars(Write) /\ WF_vars(Ended)
  /\ SF_vars(Join) /\ SF_vars(Read)
  /\ WF_vars(Recover) /\ WF_vars(Notice)

-----------------------------------------------------------------------------
(* A connection on which everything queued has been sent. *)
Settled ==
  /\ client.state = "connected" /\ client.joined
  /\ broker.live
  /\ client.queue = <<>> /\ ~lost

(* On a settled connection the broker sends the device its commands and    *)
(* every topic a script watches, also one watched while there was no       *)
(* broker and one watched on a session since forgotten, and everybody who  *)
(* asks is told that the device is online, whatever the will said.         *)
SettledIsServed ==
  Settled => /\ {Commands} \cup watches \subseteq broker.session
             /\ broker.availability = "online"

(* What the broker is believed to hold it holds, or it is about to be told. *)
BelievedIsHeld ==
  service.discovered /\ ~lost =>
    \/ broker.entities
    \/ \E i \in 1..Len(client.queue) : client.queue[i] = [kind |-> "discovery", on |-> TRUE]

(* The broker lost, silent, back again or never answering: as long as MQTT *)
(* is switched on the device is connected again and again.                 *)
ComesBack == []<>(~service.enabled \/ ~broker.up \/ client.state = "connected")

(* MqttService.cpp:154-155: offline is "said explicitly rather than left   *)
(* to the will, so a clean restart shows as offline immediately".          *)
OfflineIsSaid ==
  ~service.enabled /\ client.state = "disabled" /\ ~broker.live
  => broker.availability # "online"

(* MqttService.cpp:22: changing the password "should reconnect". *)
PasswordIsUsed == client.state = "connected" => client.secret = settings.secret

(* MqttBridge.h:122-124: "Switching discovery off must remove the entities *)
(* rather than orphan them in someone's dashboard."                        *)
OffRemovesEntities ==
  Settled /\ ~settings.discovery /\ ~service.discovered => ~broker.entities
=============================================================================
