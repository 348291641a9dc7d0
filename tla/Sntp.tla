-------------------------------- MODULE Sntp --------------------------------
(***************************************************************************)
(* The clock of the device: a client that looks up the time server that is *)
(* configured, asks it, and sets the clock by what it answers.             *)
(*                                                                         *)
(* Every turn of the loop advances the client by one step while there is   *)
(* an address.  A look-up is a detached thread with a block of its own; it *)
(* may fail, be late, or outlive the setting it was for.  A query is a     *)
(* packet that may be lost, answered late or answered with nonsense.       *)
(* Servers are named by their names; an address is named by whose it is.   *)
(***************************************************************************)
EXTENDS Integers, FiniteSets

CONSTANTS
  Servers,
  Literals,     \* those that are written as addresses
  Retry,        \* kRetryMillis, in turns
  Resync,       \* kResyncMillis
  Timeout,      \* kQueryTimeoutMillis
  MaxLookups,   \* bound: more threads than this cannot be started
  MaxEdits,     \* bound on changes of the setting
  MaxFaults     \* bound on what fails: look-ups, packets, calls, the network

VARIABLES
  setting,      \* settings().clock.ntpServer
  bound,        \* dhcp().bound()
  server,       \* server_, and sntpServer of the main loop
  stage,        \* stage_
  resolution,   \* resolution_: the block of the look-up that is waited for
  lookups,      \* every thread that has not come back
  address,      \* address_
  socket,       \* socket_: whom it has asked, and what has arrived there
  wait,         \* turns until nextAttemptMillis_
  age,          \* turns since queryStartedMillis_
  synchronised, \* synchronised_
  clock,        \* whose time the clock was last set to
  edits, faults

query == <<socket, age>>
lookup == <<resolution, lookups>>
world == <<setting, bound, edits>>
client == <<server, stage, lookup, address, query, wait, synchronised, clock>>
vars == <<world, client, faults>>

NoBlock == [id |-> 0, done |-> FALSE, found |-> "none"]
NoSocket == [to |-> "none", arrived |-> "nothing"]
Nobody == "none"

TypeOK ==
  /\ setting \in Servers /\ server \in Servers \cup {Nobody}
  /\ stage \in {"idle", "resolving", "resolved", "waiting"}
  /\ resolution.id \in 0..MaxLookups
  /\ address \in Servers \cup {Nobody}
  /\ wait \in 0..Resync /\ age \in 0..Timeout
  /\ clock \in Servers \cup {Nobody}

Init ==
  /\ setting \in Servers
  /\ bound = FALSE
  /\ server = Nobody /\ stage = "idle"
  /\ resolution = NoBlock /\ lookups = {}
  /\ address = Nobody
  /\ socket = NoSocket /\ age = 0
  /\ wait = 0
  /\ synchronised = FALSE /\ clock = Nobody
  /\ edits = 0 /\ faults = 0

-----------------------------------------------------------------------------
Fault ==
  /\ faults < MaxFaults
  /\ faults' = faults + 1

(* tick(), one action for each way through it.  A turn takes time whatever *)
(* it does, and sets the deadlines from its own time on.                   *)

Later(w) == IF w = 0 THEN 0 ELSE w - 1

(* Waiting for a look-up or for the hour of the next query. *)
Idles ==
  /\ \/ stage = "resolving" /\ ~resolution.done
     \/ stage \in {"idle", "resolved"} /\ wait > 0
  /\ wait' = Later(wait)
  /\ UNCHANGED <<stage, lookup, address, query, synchronised, clock, faults>>

Blocks == 1..MaxLookups \ {t.block : t \in lookups}

(* A thread of its own, with a block that no other thread writes to. *)
Thread(block, host) ==
  /\ resolution' = [id |-> block, done |-> FALSE, found |-> Nobody]
  /\ lookups' = lookups \cup {[block |-> block, host |-> host]}
  /\ stage' = "resolving"
  /\ wait' = 0

NoThread ==
  /\ resolution' = NoBlock
  /\ stage' = "idle"
  /\ wait' = Retry
  /\ UNCHANGED lookups

(* Fault: the block of the last look-up is used again. *)
LookUpInTheSameBlock(host) == IF Blocks = {} THEN NoThread ELSE Thread(1, host)

LookUp(host) ==
  IF Blocks = {} THEN NoThread
  ELSE Thread(CHOOSE b \in Blocks : TRUE, host)

(* A server that is written as an address needs no look-up. *)
StartWith(s) ==
  /\ IF s \in Literals
     THEN address' = s /\ stage' = "resolved" /\ wait' = 0 /\ UNCHANGED lookup
     ELSE LookUp(s) /\ UNCHANGED address
  /\ UNCHANGED <<query, synchronised, clock, faults>>

Start == stage = "idle" /\ wait = 0 /\ StartWith(server)

(* Fault: a look-up that found nothing is forgotten, and waited for. *)
LookedUpInVain ==
  /\ stage = "resolving" /\ resolution.done
  /\ resolution' = NoBlock
  /\ IF resolution.found = Nobody
     THEN wait' = Retry /\ UNCHANGED <<stage, address>>
     ELSE stage' = "resolved" /\ address' = resolution.found /\ wait' = Later(wait)
  /\ UNCHANGED <<lookups, query, synchronised, clock, faults>>

LookedUp ==
  /\ stage = "resolving" /\ resolution.done
  /\ resolution' = NoBlock
  /\ IF resolution.found = Nobody
     THEN stage' = "idle" /\ wait' = Retry /\ UNCHANGED address
     ELSE stage' = "resolved" /\ address' = resolution.found /\ wait' = Later(wait)
  /\ UNCHANGED <<lookups, query, synchronised, clock, faults>>

(* startQuery(): a socket of its own for every query; no socket and a      *)
(* packet that does not go out are tried again.                            *)
Ask ==
  /\ stage = "resolved" /\ wait = 0
  /\ \/ /\ socket' = [to |-> address, arrived |-> "nothing"]
        /\ age' = 0
        /\ stage' = "waiting"
        /\ UNCHANGED <<wait, faults>>
     \/ /\ Fault
        /\ socket' = NoSocket
        /\ wait' = Retry
        /\ UNCHANGED <<age, stage>>
  /\ UNCHANGED <<lookup, address, synchronised, clock>>

(* The query is over: the socket goes, the address stays. *)
Over(delay) ==
  /\ socket' = NoSocket
  /\ wait' = delay
  /\ stage' = "resolved"
  /\ UNCHANGED <<lookup, address, age>>

(* applyTime(): the clock may refuse to be set. *)
Use ==
  /\ stage = "waiting" /\ socket.arrived = "time"
  /\ \/ synchronised' = TRUE /\ clock' = socket.to /\ UNCHANGED faults
     \/ Fault /\ UNCHANGED <<synchronised, clock>>
  /\ Over(Resync)

Unusable ==
  /\ stage = "waiting" /\ socket.arrived = "nonsense"
  /\ Over(Retry)
  /\ UNCHANGED <<synchronised, clock, faults>>

(* What is in the air for longer than Timeout is as good as lost.         *)
NoAnswer ==
  /\ stage = "waiting" /\ socket.arrived \in {"nothing", "loss"}
  /\ IF age < Timeout
     THEN age' = age + 1 /\ UNCHANGED <<socket, wait, stage, lookup, address>>
     ELSE /\ socket.arrived = "loss"
          /\ Over(IF synchronised THEN Resync ELSE Retry)
  /\ UNCHANGED <<synchronised, clock, faults>>

Step ==
  \/ Idles \/ Start \/ LookedUp \/ Ask
  \/ Use \/ Unusable \/ NoAnswer

(* begin(): the stage and the deadline are forgotten, what was being       *)
(* looked up or asked is left to itself; the same turn goes on from there. *)
Begin ==
  /\ server' = setting
  /\ StartWith(setting)

(* The main loop: a changed setting is begun with while there is an        *)
(* address, and the client stands still while there is none.               *)
Turn ==
  /\ bound
  /\ IF server # setting THEN Begin ELSE Step /\ UNCHANGED server
  /\ UNCHANGED world

TurnWithout ==
  /\ ~bound
  /\ wait' = Later(wait)
  /\ age' = IF stage = "waiting" /\ age < Timeout THEN age + 1 ELSE age
  /\ UNCHANGED <<world, server, stage, lookup, address, socket, synchronised, clock, faults>>

-----------------------------------------------------------------------------
(* The threads, the servers, the network and the settings.                 *)

(* A thread writes to its own block, whether or not anybody still reads it.*)
Return(t, found) ==
  /\ lookups' = lookups \ {t}
  /\ resolution' = IF resolution.id = t.block
                   THEN [resolution EXCEPT !.done = TRUE, !.found = found]
                   ELSE resolution
  /\ UNCHANGED <<world, server, stage, address, query, wait, synchronised, clock>>

Found(t) == t \in lookups /\ Return(t, t.host) /\ UNCHANGED faults
NotFound(t) == t \in lookups /\ Return(t, Nobody) /\ Fault

(* An answer arrives, or the packet, or its answer, never does. *)
Answer(what) ==
  /\ socket.to # Nobody /\ socket.arrived = "nothing"
  /\ socket' = [socket EXCEPT !.arrived = what]
  /\ IF what = "time" THEN UNCHANGED faults ELSE Fault
  /\ UNCHANGED <<world, server, stage, lookup, address, age, wait, synchronised, clock>>

Connect ==
  /\ ~bound /\ bound' = TRUE
  /\ UNCHANGED <<setting, edits, client, faults>>

Lose ==
  /\ bound /\ bound' = FALSE
  /\ Fault
  /\ UNCHANGED <<setting, edits, client>>

Edit(s) ==
  /\ edits < MaxEdits /\ s # setting
  /\ setting' = s /\ edits' = edits + 1
  /\ UNCHANGED <<bound, client, faults>>

Next ==
  \/ Turn
  \/ TurnWithout
  \/ \E t \in lookups : Found(t) \/ NotFound(t)
  \/ \E what \in {"time", "nonsense", "loss"} : Answer(what)
  \/ Connect
  \/ Lose
  \/ \E s \in Servers : Edit(s)

Spec == Init /\ [][Next]_vars

(* The loop goes round, threads come back, an answer that is not lost      *)
(* arrives, and there is a network in the end.                             *)
Fairness ==
  /\ WF_vars(Turn) /\ WF_vars(TurnWithout) /\ WF_vars(Connect)
  /\ WF_vars(\E t \in lookups : Found(t) \/ NotFound(t))
  /\ WF_vars(Answer("time"))

-----------------------------------------------------------------------------
(* The server that is asked is the one the client was begun with, whatever *)
(* look-ups of earlier ones come back in the meantime; and the clock is    *)
(* never set by the answer to a query that a change of the setting has     *)
(* overtaken (Tc002Sntp::begin, tick).                                     *)
AsksWhoIsMeant ==
  stage \in {"resolved", "waiting"} =>
    /\ address = server
    /\ stage = "waiting" => socket.to = server

(* When the setting is left alone, the clock is set by its server in the   *)
(* end, whoever set it before.                                             *)
TimeIsFound == \A s \in Servers : <>[](setting = s) => <>[](clock = s)
=============================================================================
