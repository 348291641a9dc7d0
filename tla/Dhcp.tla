--------------------------------- MODULE Dhcp ---------------------------------
(***************************************************************************)
(* The device's address: DhcpClient, the state machine without sockets,    *)
(* and Tc002Dhcp, which hands it what arrived, sends what it has to say    *)
(* and puts addresses on the interface, once per turn of the main loop.    *)
(* Around them a network that loses, repeats, delays and reorders replies, *)
(* servers that may answer anything or nothing, the conversations of other *)
(* devices, and the hotspot, which takes the interface away.               *)
(*                                                                         *)
(* Time is counted in units of the first retransmission gap.  The absolute *)
(* deadlines of the code are kept as the time that is left until them.     *)
(***************************************************************************)
EXTENDS Integers, FiniteSets, SequencesExt

CONSTANTS
  Addresses,
  Terms,              \* what a lease may run for: duration, T1 and T2
  Infinite,           \* kInfiniteLease
  FirstRetry,         \* kFirstRetryMillis
  MaxRetry,           \* kMaxRetryMillis
  MaxRequestAttempts, \* kMaxRequestAttempts
  MinRenew,           \* kMinRenewIntervalMillis
  Elapses,            \* how long a turn of the main loop may take
  MaxDelay,           \* how long a grant may be under way
  MaxReplies,         \* bound of the model: replies under way at once
  None

(* parse() leaves no lease with T1 or T2 past its end. *)
ASSUME DhcpAssumption ==
  /\ None \notin Addresses
  /\ Infinite \in Nat
  /\ \A t \in Terms : /\ t.duration \in 2..Infinite
                      /\ t.renew \in 0..(t.duration - 1)
                      /\ t.rebind \in 0..(t.duration - 1)
  /\ FirstRetry \in Nat \ {0} /\ MaxRetry \in Nat /\ FirstRetry <= MaxRetry
  /\ MaxRequestAttempts \in Nat \ {0} /\ MinRenew \in Nat
  /\ Elapses \subseteq Nat /\ MaxDelay \in Nat /\ MaxReplies \in Nat \ {0}

VARIABLES
  client,    \* the DhcpClient
  iface,     \* the address on the interface
  sent,      \* what the last turn put on the wire
  replies,   \* replies under way to the device
  inherited  \* iface is from before the client was started (history)

vars == <<client, iface, sent, replies, inherited>>

States == {"idle", "selecting", "requesting", "bound", "renewing", "rebinding"}
Bound(c) == c.state \in {"bound", "renewing", "rebinding"}

Least(a, b) == IF a < b THEN a ELSE b
Less(a, b)  == IF a > b THEN a - b ELSE 0

-----------------------------------------------------------------------------
(* DhcpClient.  xid counts the transactions begun in this turn: a reply in *)
(* the one the turn started with has xid 0, any other is Foreign.          *)

Foreign == -1

NoLease == [address |-> None, router |-> FALSE, server |-> FALSE]

(* The servers may have given the address to somebody else. *)
Lapsed == -MaxDelay - 1

Fresh == [state |-> "idle", xid |-> 0, lease |-> NoLease, offered |-> NoLease,
          send |-> 0, retry |-> FirstRetry, attempts |-> 0,
          renew |-> 0, rebind |-> 0, expire |-> 0, infinite |-> FALSE,
          acquired |-> FALSE, lost |-> FALSE,
          promised |-> Lapsed]  \* how long the grantor keeps it (history)

BeginTransaction(c, state) ==
  [c EXCEPT !.state = state, !.xid = @ + 1, !.send = 0,
            !.retry = FirstRetry, !.attempts = 0]

EnterSelecting(c) == BeginTransaction([c EXCEPT !.offered = NoLease], "selecting")

DropLease(c) ==
  [c EXCEPT !.lease = NoLease, !.infinite = FALSE, !.promised = Lapsed,
            !.renew = 0, !.rebind = 0, !.expire = 0]

Started(c) ==
  EnterSelecting([c EXCEPT !.lease = NoLease, !.infinite = FALSE,
                           !.acquired = FALSE, !.lost = FALSE])

Stopped(c) == [c EXCEPT !.state = "idle", !.offered = NoLease]

(* attempts_ is only ever compared with kMaxRequestAttempts. *)
ScheduleRetry(c) ==
  [c EXCEPT !.attempts = Least(@ + 1, MaxRequestAttempts),
            !.send = c.retry, !.retry = Least(2 * @, MaxRetry)]

(* T1 and T2 as adopt() corrects them. *)
RenewIn(t) ==
  IF t.renew < MinRenew THEN Least(MinRenew, t.duration \div 2) ELSE t.renew
RebindIn(t) ==
  IF t.rebind <= RenewIn(t) \/ t.rebind >= t.duration
  THEN RenewIn(t) + (t.duration - RenewIn(t)) \div 2
  ELSE t.rebind

(* Mask, router and dns of a reply stand or fall together, and the server's*)
(* identity with them; what a grant leaves out is carried forward.         *)
Completed(c, m) ==
  [address |-> m.address,
   router  |-> m.full \/ c.lease.router,
   server  |-> m.full \/ c.lease.server \/ c.offered.server]

Adopt(c, m) ==
  LET t       == m.terms
      endless == t.duration = Infinite
      next    == Completed(c, m)
  IN  [c EXCEPT
         !.state = "bound", !.lease = next, !.offered = NoLease,
         !.attempts = 0, !.retry = FirstRetry,
         !.infinite = endless,
         !.renew  = IF endless THEN 0 ELSE RenewIn(t),
         !.rebind = IF endless THEN 0 ELSE RebindIn(t),
         !.expire = IF endless THEN 0 ELSE t.duration,
         !.promised = m.promised,
         !.acquired = @ \/ next.address # c.lease.address
                        \/ next.router # c.lease.router]

(* Fault: the attempts of the DISCOVER count against the REQUEST. *)
OfferedStillTired(c, m) ==
  [c EXCEPT !.state = "requesting", !.send = 0, !.retry = FirstRetry,
            !.offered = [address |-> m.address, router |-> m.full, server |-> m.full]]

Offered(c, m) ==
  [c EXCEPT !.state = "requesting", !.send = 0,
            !.offered = [address |-> m.address, router |-> m.full, server |-> m.full],
            !.attempts = 0, !.retry = FirstRetry]

(* Fault: whether there was a lease is asked after it was dropped. *)
RefusedUnnoticed(c) ==
  LET dropped == DropLease(c)
  IN  EnterSelecting([dropped EXCEPT !.lost = @ \/ dropped.lease.address # None])

Refused(c) ==
  EnterSelecting([DropLease(c) EXCEPT !.lost = @ \/ c.lease.address # None])

Ours(c, m) == c.state # "idle" /\ m.xid = c.xid

Receive(c, m) ==
  IF ~Ours(c, m) THEN c
  ELSE CASE c.state = "selecting" /\ m.type = "offer" /\ m.address # None -> Offered(c, m)
         [] c.state \in {"requesting", "renewing", "rebinding"}
              /\ m.type = "ack" /\ m.address # None -> Adopt(c, m)
         [] c.state \in {"requesting", "renewing", "rebinding"}
              /\ m.type = "nak" -> Refused(c)
         [] OTHER -> c

(* One after the other. *)
ReceiveAll(c, heard) == FoldLeft(Receive, c, heard)

(* Time passes. *)
Keeps(p, e) == CASE p = Infinite -> Infinite
                 [] p # Infinite /\ p - e > Lapsed -> p - e
                 [] OTHER -> Lapsed

Later(c, e) ==
  [c EXCEPT !.send = Less(@, e), !.renew = Less(@, e), !.rebind = Less(@, e),
            !.expire = Less(@, e), !.promised = Keeps(@, e)]

(* The first half of tick(): what has become due. *)
Renewal(c) ==
  CASE c.state = "bound" /\ ~c.infinite /\ c.renew = 0 -> BeginTransaction(c, "renewing")
    [] c.state = "renewing" /\ c.rebind = 0 -> BeginTransaction(c, "rebinding")
    [] OTHER -> c

Expiry(c) ==
  IF c.state \in {"renewing", "rebinding"} /\ c.expire = 0
  THEN EnterSelecting([DropLease(c) EXCEPT !.lost = TRUE])
  ELSE c

StartOver(c) ==
  IF c.state = "requesting" /\ c.attempts >= MaxRequestAttempts
  THEN EnterSelecting(c) ELSE c

Due(c) == StartOver(Expiry(Renewal(c)))

(* The second half: a packet, if it is time for one. *)
Sends(c) == c.state \notin {"idle", "bound"} /\ c.send = 0

(* A renewal with no server to unicast to is a rebind. *)
Addressed(c) ==
  IF c.state = "renewing" /\ ~c.lease.server
  THEN BeginTransaction(c, "rebinding") ELSE c

Message(c) == IF c.state = "selecting" THEN "discover" ELSE "request"

-----------------------------------------------------------------------------
(* Replies.                                                                *)

AnyTerms == CHOOSE t \in Terms : TRUE

Reply(type, xid, address, terms, full, promise) ==
  [type |-> type, xid |-> xid, address |-> address, terms |-> terms,
   full |-> full, promised |-> promise]

(* A reply in somebody else's conversation, or in one that is over. *)
Stray == Reply("ack", Foreign, CHOOSE a \in Addresses : TRUE, AnyTerms, FALSE, Lapsed)

(* What is under way is of no use once c has begun another transaction. *)
Overtaken(c, ms) == IF c.xid = 0 THEN ms ELSE {Stray : m \in ms}

(* A grant that was under way for too long is taken for lost. *)
Grants(m) == m.type = "ack" /\ m.xid # Foreign /\ m.address # None
InTime(m) ==
  Grants(m) /\ m.promised # Infinite => m.terms.duration - m.promised <= MaxDelay

Arrived(e) == {m \in {[r EXCEPT !.promised = Keeps(@, e)] : r \in replies} : InTime(m)}

-----------------------------------------------------------------------------
(* Tc002Dhcp.                                                              *)

(* Where a turn leaves the client: both of its signals have been taken. *)
Settled(c) == [c EXCEPT !.xid = 0, !.acquired = FALSE, !.lost = FALSE]

(* applyLease, and setInterfaceAddress(0, 0) when the lease is lost. *)
Configured(c) ==
  LET applied == IF c.acquired THEN c.lease.address ELSE iface
  IN  IF c.lost THEN None ELSE applied

(* One tick(), e after the one before: drain the sockets of some of what   *)
(* has arrived (which the network may deliver once more), let the client   *)
(* act, send, and configure the interface.                                 *)
Turn(e, heard, again) ==
  LET due   == Due(ReceiveAll(Later(client, e), heard))
      ready == Addressed(due)
      final == IF Sends(due) THEN ScheduleRetry(ready) ELSE due
      left  == IF again THEN Arrived(e) ELSE Arrived(e) \ ToSet(heard)
  IN  /\ client.state # "idle"
      /\ client' = Settled(final)
      /\ sent' = IF Sends(due) THEN Message(ready) ELSE None
      /\ replies' = Overtaken(final, left)
      /\ iface' = Configured(final)
      /\ inherited' = (inherited /\ ~final.acquired /\ ~final.lost)

(* Up to two replies in a turn; one that is repeated comes in a later turn.*)
Drained(e) == {<<>>} \cup {<<m>> : m \in Arrived(e)}
                \cup {p \in Arrived(e) \X Arrived(e) : p[1] # p[2]}

(* begin() and restart(), which ends the client first: at the start of the *)
(* process, after a network has been joined and when the hotspot stops.    *)
Restart ==
  LET started == Started(Stopped(client))
  IN  /\ client' = Settled(started)
      /\ replies' = Overtaken(started, replies)
      /\ inherited' = (iface # None)
      /\ sent' = None
      /\ UNCHANGED iface

(* The hotspot takes the interface. *)
End ==
  /\ client.state # "idle"
  /\ client' = Stopped(client)
  /\ iface' = None
  /\ inherited' = FALSE
  /\ sent' = None
  /\ UNCHANGED replies

-----------------------------------------------------------------------------
(* The network and the servers.                                            *)

(* A reply sets off; with too many under way, the earlier ones are lost. *)
Carry(m) ==
  /\ replies' = {m} \cup IF Cardinality(replies) < MaxReplies THEN replies ELSE {}
  /\ UNCHANGED <<client, iface, sent, inherited>>

Offer(a, full) == sent = "discover" /\ Carry(Reply("offer", 0, a, AnyTerms, full, Lapsed))

(* The address is the device's from the moment it is granted. *)
Ack(a, t, full) == sent = "request" /\ Carry(Reply("ack", 0, a, t, full, t.duration))

Nak == sent = "request" /\ Carry(Reply("nak", 0, None, AnyTerms, FALSE, Lapsed))

(* A grant of nothing. *)
EmptyAck == sent = "request" /\ Carry(Reply("ack", 0, None, AnyTerms, FALSE, Lapsed))

(* A server has something to say to another device. *)
Chatter == Carry(Stray)

Init ==
  /\ client = Fresh
  /\ iface \in Addresses \cup {None}
  /\ inherited = (iface # None)
  /\ sent = None /\ replies = {}

Servers ==
  \/ \E a \in Addresses, full \in BOOLEAN : Offer(a, full)
  \/ \E a \in Addresses, t \in Terms, full \in BOOLEAN : Ack(a, t, full)
  \/ Nak \/ EmptyAck \/ Chatter

Loop(e) ==
  \E heard \in Drained(e) :
    \E again \in IF heard = <<>> THEN {FALSE} ELSE BOOLEAN : Turn(e, heard, again)

Next ==
  \/ \E e \in Elapses : Loop(e)
  \/ Restart \/ End
  \/ Servers

(* The main loop goes on turning, and the hotspot gives the radio back.    *)
Fairness ==
  /\ SF_vars(\E e \in Elapses \ {0} : Loop(e))
  /\ WF_vars(client.state = "idle" /\ Restart)

(* Some server keeps answering, and some of its answers arrive in time. *)
Hears(states, type) ==
  /\ client.state \in states
  /\ \E e \in Elapses : \E m \in Arrived(e) :
       m.type = type /\ m.xid = 0 /\ m.address # None /\ Turn(e, <<m>>, FALSE)

Service ==
  /\ SF_vars(\E a \in Addresses, full \in BOOLEAN : Offer(a, full))
  /\ SF_vars(\E a \in Addresses, t \in Terms, full \in BOOLEAN : Ack(a, t, full))
  /\ SF_vars(Hears({"selecting"}, "offer"))
  /\ SF_vars(Hears({"requesting", "renewing", "rebinding"}, "ack"))

Spec == Init /\ [][Next]_vars /\ Fairness

-----------------------------------------------------------------------------
(***************************************************************************)
(* Properties.                                                             *)
(***************************************************************************)

(* The fields of the client: a lease or an offer is an address with or     *)
(* without a route and a server, the deadlines are at most a lease away    *)
(* and the retransmission gap stays between kFirstRetryMillis and          *)
(* kMaxRetryMillis whatever doubles it (scheduleRetry).                    *)
Leases == [address : Addresses \cup {None}, router : BOOLEAN, server : BOOLEAN]

TypeOK ==
  /\ client.state \in States
  /\ client.lease \in Leases /\ client.offered \in Leases
  /\ client.retry \in FirstRetry..MaxRetry /\ client.send \in 0..MaxRetry
  /\ client.attempts \in 0..MaxRequestAttempts
  /\ {client.renew, client.rebind, client.expire} \subseteq 0..Infinite
  /\ client.promised \in Lapsed..Infinite
  /\ {client.infinite, client.acquired, client.lost} \subseteq BOOLEAN
  /\ iface \in Addresses \cup {None} /\ inherited \in BOOLEAN
  /\ sent \in {"discover", "request", None}

(* DhcpClient and the interface agree after every turn: a bound client's   *)
(* address is the one configured, and without a lease nothing is           *)
(* configured that this client put there (Tc002Dhcp::tick takes the lost   *)
(* signal after the acquired one, so a turn that raised both wrongly would *)
(* take the new address off again).                                        *)
ConfiguredIsHeld ==
  client.state # "idle" =>
    IF Bound(client) THEN iface = client.lease.address
    ELSE iface # None => inherited

(* No address is used after the servers may have given it to somebody      *)
(* else, except for the time its grant was under way: the clock of the     *)
(* lease runs from the receipt of the ACK (adopt), the server's from the   *)
(* grant.                                                                  *)
HoldsOnlyWhatIsPromised ==
  iface # None /\ ~inherited => client.promised >= -MaxDelay

(* Whatever T1 and T2 the server sends, and however short the lease, it is *)
(* renewed before it ends and rebound not later (the floor of adopt "must  *)
(* never land after the lease has already gone").                          *)
DeadlinesInOrder ==
  client.state = "bound" /\ ~client.infinite =>
    /\ client.renew < client.expire
    /\ client.renew <= client.rebind /\ client.rebind <= client.expire

(* All three: the address is held as the client believes, for as long as   *)
(* the server keeps it, and its deadlines come in the order that needs.    *)
AddressIsItsOwn == ConfiguredIsHeld /\ HoldsOnlyWhatIsPromised /\ DeadlinesInOrder

(* If a server keeps answering, the device has an address again and again, *)
(* through refusals, lost and stale replies and expired leases, unless it  *)
(* is restarted for ever.                                                  *)
ComesBack ==
  Service => []<>Bound(client) \/ []<><<Restart \/ End>>_vars
=============================================================================
