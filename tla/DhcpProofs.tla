------------------------------ MODULE DhcpProofs ------------------------------
(***************************************************************************)
(* The device's address, for any addresses, leases, gaps and delays: what  *)
(* is on the interface is what the client holds, a server still keeps it,  *)
(* and it is renewed before it ends.                                       *)
(***************************************************************************)
EXTENDS Dhcp, TLAPS

(* The client between its steps, the deadlines within the longest lease.   *)
Clients ==
  [state : States, xid : Nat, lease : Leases, offered : Leases,
   send : 0..MaxRetry, retry : FirstRetry..MaxRetry, attempts : 0..MaxRequestAttempts,
   renew : 0..Infinite, rebind : 0..Infinite, expire : 0..Infinite,
   infinite : BOOLEAN, acquired : BOOLEAN, lost : BOOLEAN, promised : Lapsed..Infinite]

(* A reply under way: in the device's own transaction it carries an        *)
(* address or none, and a lease for ever is promised for ever.             *)
IsReply(m) ==
  /\ DOMAIN m = {"type", "xid", "address", "terms", "full", "promised"}
  /\ m.xid \in {0, Foreign} /\ m.promised \in Lapsed..Infinite
  /\ m.xid = 0 => m.address \in Addresses \cup {None} /\ m.full \in BOOLEAN
  /\ Grants(m) => /\ m.terms \in Terms
                  /\ m.terms.duration = Infinite => m.promised = Infinite

(* A lease is an address for as long as its server keeps it, and a message *)
(* longer.                                                                 *)
Granted(c) ==
  /\ c.state \in {"selecting", "requesting"} => c.lease.address = None
  /\ Bound(c) =>
       /\ c.lease.address # None
       /\ c.infinite => c.promised = Infinite
       /\ ~c.infinite /\ c.expire > 0 => c.promised >= c.expire - MaxDelay

(* T1, T2 and the end come in this order, and T1 before the end unless it  *)
(* is over.                                                                *)
Ordered(c) ==
  c.state = "bound" /\ ~c.infinite =>
    /\ c.renew <= c.rebind /\ c.rebind <= c.expire
    /\ c.renew < c.expire \/ c.renew = 0

(* Between turns what was due has been done: no lease has run out.         *)
Done(c) ==
  ~c.infinite => /\ c.state = "bound" => c.renew > 0
                 /\ c.state \in {"renewing", "rebinding"} => c.expire > 0

Acts(c) == c \in Clients /\ Granted(c) /\ Ordered(c)

(* What the interface will be given is what the client holds; before this  *)
(* client has had an address, it may be one from before it.                *)
Held(c) ==
  IF Bound(c) THEN ~c.lost /\ Configured(c) = c.lease.address
  ELSE Configured(c) = None \/ (inherited /\ ~c.acquired /\ ~c.lost)

IInv ==
  /\ Acts(client) /\ Done(client) /\ Held(client)
  /\ client.xid = 0 /\ ~client.acquired /\ ~client.lost
  /\ iface \in Addresses \cup {None} /\ inherited \in BOOLEAN
  /\ \A m \in replies : IsReply(m)

-----------------------------------------------------------------------------
(* What a turn hands the client: nothing, a reply, or two.                 *)
LEMMA LargestOfTwo == Max({1, 2}) = 2 /\ Max({1}) = 1 /\ Max({2}) = 2
<1>1. \A x \in {1, 2} : (\A y \in {1, 2} : x >= y) <=> x = 2
  OBVIOUS
<1>2. \A k \in {1, 2} : \A x \in {k} : (\A y \in {k} : x >= y) <=> x = k
  OBVIOUS
<1> QED
  BY <1>1, <1>2 DEF Max

LEMMA NothingIsHeard == ASSUME NEW c PROVE ReceiveAll(c, <<>>) = c
<1> DEFINE F(f, s) == IF s = {} THEN c ELSE Receive(f[s \ {Max(s)}], <<>>[Max(s)])
           fold == CHOOSE f : f = [s \in SUBSET {} |-> F(f, s)]
           g == [s \in SUBSET {} |-> c]
<1>1. ReceiveAll(c, <<>>) = fold[{}]
  <2>1. DOMAIN <<>> = {}
    OBVIOUS
  <2> QED
    BY <2>1 DEF ReceiveAll, FoldLeft, MapThenFoldSet
<1>2. g = [s \in SUBSET {} |-> F(g, s)]
  OBVIOUS
<1>3. fold = [s \in SUBSET {} |-> F(fold, s)]
  BY <1>2
<1> QED
  BY <1>1, <1>3

LEMMA OneIsHeard == ASSUME NEW c, NEW m PROVE ReceiveAll(c, <<m>>) = Receive(c, m)
<1> DEFINE seq == <<m>>
           F(f, s) == IF s = {} THEN c ELSE Receive(f[s \ {Max(s)}], seq[Max(s)])
           fold == CHOOSE f : f = [s \in SUBSET {1} |-> F(f, s)]
           g == [s \in SUBSET {1} |-> IF s = {} THEN c ELSE Receive(c, m)]
<1>1. ReceiveAll(c, <<m>>) = fold[{1}]
  <2>1. DOMAIN seq = {1}
    OBVIOUS
  <2> QED
    BY <2>1 DEF ReceiveAll, FoldLeft, MapThenFoldSet
<1>2. seq[1] = m /\ {1} \ {1} = {} /\ \A s \in SUBSET {1} : s = {} \/ s = {1}
  OBVIOUS
<1> HIDE DEF seq
<1>3. g = [s \in SUBSET {1} |-> F(g, s)]
  <2>1. ASSUME NEW s \in SUBSET {1} PROVE g[s] = F(g, s)
    <3>1. CASE s = {}
      BY <3>1
    <3>2. CASE s = {1}
      BY <3>2, LargestOfTwo, <1>2
    <3> QED
      BY <3>1, <3>2, <1>2
  <2> QED
    BY <2>1
<1>4. fold = [s \in SUBSET {1} |-> F(fold, s)]
  BY <1>3
<1>5. fold[{}] = c
  BY <1>4
<1>6. fold[{1}] = F(fold, {1}) /\ F(fold, {1}) = Receive(fold[{1} \ {1}], seq[1])
  BY <1>4, LargestOfTwo
<1> HIDE DEF fold, F
<1> QED
  BY <1>1, <1>2, <1>5, <1>6

LEMMA TwoAreHeard ==
  ASSUME NEW c, NEW m1, NEW m2
  PROVE  ReceiveAll(c, <<m1, m2>>) = Receive(Receive(c, m1), m2)
<1> DEFINE seq == <<m1, m2>>
           F(f, s) == IF s = {} THEN c ELSE Receive(f[s \ {Max(s)}], seq[Max(s)])
           fold == CHOOSE f : f = [s \in SUBSET {1, 2} |-> F(f, s)]
           g == [s \in SUBSET {1, 2} |->
                   IF s = {} THEN c ELSE IF s = {1} THEN Receive(c, m1)
                   ELSE IF s = {2} THEN Receive(c, m2) ELSE Receive(Receive(c, m1), m2)]
<1>1. ReceiveAll(c, <<m1, m2>>) = fold[{1, 2}]
  <2>1. DOMAIN seq = {1, 2}
    OBVIOUS
  <2> QED
    BY <2>1 DEF ReceiveAll, FoldLeft, MapThenFoldSet
<1>2. /\ seq[1] = m1 /\ seq[2] = m2
      /\ {1} \ {1} = {} /\ {2} \ {2} = {} /\ {1, 2} \ {2} = {1}
      /\ {1} # {} /\ {2} # {} /\ {1} # {2} /\ {1, 2} # {} /\ {1, 2} # {1} /\ {1, 2} # {2}
  OBVIOUS
<1>3. \A s \in SUBSET {1, 2} : s = {} \/ s = {1} \/ s = {2} \/ s = {1, 2}
  <2>1. ASSUME NEW s \in SUBSET {1, 2} PROVE s = {} \/ s = {1} \/ s = {2} \/ s = {1, 2}
    <3>1. CASE 1 \in s /\ 2 \in s
      BY <3>1
    <3>2. CASE 1 \in s /\ 2 \notin s
      BY <3>2
    <3>3. CASE 1 \notin s /\ 2 \in s
      BY <3>3
    <3>4. CASE 1 \notin s /\ 2 \notin s
      BY <3>4
    <3> QED
      BY <3>1, <3>2, <3>3, <3>4
  <2> QED
    BY <2>1
<1> HIDE DEF seq
<1>4. g = [s \in SUBSET {1, 2} |-> F(g, s)]
  <2>1. ASSUME NEW s \in SUBSET {1, 2} PROVE g[s] = F(g, s)
    <3>1. CASE s = {}
      BY <3>1
    <3>2. CASE s = {1}
      BY <3>2, LargestOfTwo, <1>2
    <3>3. CASE s = {2}
      BY <3>3, LargestOfTwo, <1>2
    <3>4. CASE s = {1, 2}
      BY <3>4, LargestOfTwo, <1>2
    <3> QED
      BY <3>1, <3>2, <3>3, <3>4, <1>3
  <2> QED
    BY <2>1
<1>5. fold = [s \in SUBSET {1, 2} |-> F(fold, s)]
  BY <1>4
<1>6. fold[{}] = c
  BY <1>5
<1>7. fold[{1}] = F(fold, {1}) /\ F(fold, {1}) = Receive(fold[{1} \ {1}], seq[1])
  BY <1>5, LargestOfTwo
<1>8. fold[{1, 2}] = F(fold, {1, 2}) /\ F(fold, {1, 2}) = Receive(fold[{1, 2} \ {2}], seq[2])
  BY <1>5, LargestOfTwo
<1> HIDE DEF fold, F
<1> QED
  BY <1>1, <1>2, <1>6, <1>7, <1>8
-----------------------------------------------------------------------------
(* The deadlines of a lease, as the client corrects them.                  *)
LEMMA DeadlinesAreCorrected ==
  ASSUME NEW t \in Terms
  PROVE  /\ RenewIn(t) \in 0..Infinite /\ RebindIn(t) \in 0..Infinite /\ t.duration \in 0..Infinite
         /\ t.duration > 0
         /\ RenewIn(t) < t.duration
         /\ RenewIn(t) <= RebindIn(t) /\ RebindIn(t) <= t.duration
<1>1. /\ Infinite \in Nat /\ MinRenew \in Nat
      /\ t.duration \in Nat /\ t.duration >= 2 /\ t.duration <= Infinite
      /\ t.renew \in Nat /\ t.renew < t.duration /\ t.rebind \in Nat /\ t.rebind < t.duration
  BY DhcpAssumption
<1>2. RenewIn(t) \in Nat /\ RenewIn(t) < t.duration
  BY <1>1 DEF RenewIn, Least
<1> DEFINE gap == t.duration - RenewIn(t)
<1>3. gap \in Nat /\ gap \div 2 \in Nat /\ gap \div 2 <= gap
  BY <1>1, <1>2
<1>4. RebindIn(t) \in Nat /\ RenewIn(t) <= RebindIn(t) /\ RebindIn(t) <= t.duration
  BY <1>1, <1>2, <1>3 DEF RebindIn
<1> QED
  BY <1>1, <1>2, <1>4

(* In the middle of a turn: a client that has lost its address has begun   *)
(* a transaction in which nothing has arrived yet.                         *)
MidTurn(c) == Acts(c) /\ Held(c) /\ (c.lost => c.xid > 0)

Numbers ==
  /\ Infinite \in Nat /\ MaxDelay \in Nat /\ MinRenew \in Nat
  /\ FirstRetry \in Nat /\ MaxRetry \in Nat /\ FirstRetry > 0 /\ FirstRetry <= MaxRetry
  /\ MaxRequestAttempts \in Nat /\ MaxRequestAttempts > 0
  /\ Lapsed \in Int /\ Lapsed = -MaxDelay - 1 /\ Lapsed <= Infinite
  /\ None \notin Addresses

LEMMA NumbersAreSo == Numbers
  BY DhcpAssumption DEF Numbers, Lapsed

(* Time passes: the lease of the client runs down with its server's. *)
LEMMA LaterActs ==
  ASSUME NEW c \in Clients, Acts(c), Held(c), c.xid = 0, ~c.lost, NEW e \in Nat
  PROVE  MidTurn(Later(c, e))
<1> DEFINE d == Later(c, e)
<1>1. /\ Keeps(c.promised, e) \in Lapsed..Infinite
      /\ c.promised = Infinite => Keeps(c.promised, e) = Infinite
      /\ Keeps(c.promised, e) >= c.promised - e
  BY NumbersAreSo DEF Numbers, Keeps, Clients
<1>2. /\ Less(c.send, e) \in 0..MaxRetry /\ Less(c.renew, e) \in 0..Infinite
      /\ Less(c.rebind, e) \in 0..Infinite /\ Less(c.expire, e) \in 0..Infinite
      /\ Less(c.expire, e) > 0 => Less(c.expire, e) = c.expire - e /\ c.expire > 0
  BY NumbersAreSo DEF Numbers, Less, Clients
<1>3. /\ d.state = c.state /\ d.xid = c.xid /\ d.lease = c.lease /\ d.infinite = c.infinite
      /\ d.acquired = c.acquired /\ d.lost = c.lost
      /\ d.send = Less(c.send, e) /\ d.renew = Less(c.renew, e)
      /\ d.rebind = Less(c.rebind, e) /\ d.expire = Less(c.expire, e)
      /\ d.promised = Keeps(c.promised, e)
  BY DEF Later, Clients
<1>4. d \in Clients
  BY <1>1, <1>2 DEF Later, Clients
<1> HIDE DEF d
<1>5. Granted(d)
  <2>1. ASSUME Bound(d) PROVE d.lease.address # None /\ (d.infinite => d.promised = Infinite)
    BY <1>1, <1>3, <2>1 DEF Acts, Granted, Bound
  <2>2. ASSUME Bound(d), ~d.infinite, d.expire > 0 PROVE d.promised >= d.expire - MaxDelay
    <3>1. c.promised >= c.expire - MaxDelay /\ d.expire = c.expire - e
      BY <1>2, <1>3, <2>2 DEF Acts, Granted, Bound
    <3> QED
      BY <1>1, <1>2, <1>3, <3>1, NumbersAreSo DEF Numbers, Clients
  <2>3. d.state \in {"selecting", "requesting"} => d.lease.address = None
    BY <1>3 DEF Acts, Granted
  <2> QED
    BY <2>1, <2>2, <2>3 DEF Granted
<1>6. Ordered(d)
  BY <1>3, NumbersAreSo DEF Acts, Ordered, Numbers, Less, Clients
<1>7. Held(d)
  BY <1>3 DEF Held, Bound, Configured
<1>8. MidTurn(d)
  BY <1>3, <1>4, <1>5, <1>6, <1>7 DEF MidTurn, Acts
<1> QED
  BY <1>8 DEF d

(* What the client makes of an offer, a grant and a refusal.               *)
LEMMA OfferedActs ==
  ASSUME NEW c, MidTurn(c), NEW m, IsReply(m), Ours(c, m),
         c.state = "selecting", m.address # None
  PROVE  MidTurn(Offered(c, m))
<1> DEFINE d == Offered(c, m)
<1>0. c \in Clients /\ m.xid = 0 /\ c.lease.address = None
  BY DEF MidTurn, Acts, Granted, Ours, IsReply, Foreign, Clients
<1>1. [address |-> m.address, router |-> m.full, server |-> m.full] \in Leases
  BY <1>0 DEF IsReply, Leases
<1>2. /\ d.state = "requesting" /\ d.xid = c.xid /\ d.lease = c.lease
      /\ d.acquired = c.acquired /\ d.lost = c.lost
  BY <1>0 DEF Offered, Clients
<1>3. d \in Clients
  <2>1. /\ FirstRetry \in FirstRetry..MaxRetry /\ 0 \in 0..MaxRequestAttempts
        /\ 0 \in 0..MaxRetry /\ "requesting" \in States
    BY NumbersAreSo DEF Numbers, States
  <2> QED
    BY <1>0, <1>1, <2>1 DEF Offered, Clients
<1> HIDE DEF d
<1>4. Granted(d) /\ Ordered(d)
  BY <1>0, <1>2 DEF Granted, Ordered, Bound
<1>5. Held(d)
  BY <1>2 DEF MidTurn, Held, Bound, Configured
<1>6. MidTurn(d)
  BY <1>2, <1>3, <1>4, <1>5 DEF MidTurn, Acts
<1> QED
  BY <1>6 DEF d

LEMMA AdoptActs ==
  ASSUME NEW c, MidTurn(c), NEW m, IsReply(m), InTime(m), Ours(c, m),
         c.state \in {"requesting", "renewing", "rebinding"},
         m.type = "ack", m.address # None
  PROVE  MidTurn(Adopt(c, m))
<1> DEFINE d == Adopt(c, m)
           t == m.terms
<1>0. c \in Clients /\ m.xid = 0 /\ c.xid = 0 /\ ~c.lost
  BY DEF MidTurn, Acts, Ours, IsReply, Foreign, Clients
<1>1. /\ t \in Terms /\ (t.duration = Infinite => m.promised = Infinite)
      /\ m.promised \in Lapsed..Infinite
      /\ m.promised # Infinite => t.duration - m.promised <= MaxDelay
      /\ m.address \in Addresses \cup {None} /\ m.full \in BOOLEAN
  BY <1>0 DEF IsReply, InTime, Grants, Foreign
<1>2. Completed(c, m) \in Leases /\ Completed(c, m).address = m.address
  BY <1>0, <1>1 DEF Completed, Leases, Clients
<1>3. /\ d.state = "bound" /\ d.xid = 0 /\ d.lease = Completed(c, m) /\ ~d.lost
      /\ d.infinite = (t.duration = Infinite) /\ d.promised = m.promised
      /\ d.acquired = (c.acquired \/ m.address # c.lease.address
                         \/ Completed(c, m).router # c.lease.router)
  BY <1>0, <1>2 DEF Adopt, Clients
<1>4. /\ d.infinite => d.renew = 0 /\ d.rebind = 0 /\ d.expire = 0
      /\ ~d.infinite => d.renew = RenewIn(t) /\ d.rebind = RebindIn(t) /\ d.expire = t.duration
  BY <1>0 DEF Adopt, Clients
<1>5. d \in Clients
  <2>1. /\ (IF t.duration = Infinite THEN 0 ELSE RenewIn(t)) \in 0..Infinite
        /\ (IF t.duration = Infinite THEN 0 ELSE RebindIn(t)) \in 0..Infinite
        /\ (IF t.duration = Infinite THEN 0 ELSE t.duration) \in 0..Infinite
    BY <1>1, DeadlinesAreCorrected, NumbersAreSo DEF Numbers
  <2>2. NoLease \in Leases
    BY DEF NoLease, Leases
  <2>3. FirstRetry \in FirstRetry..MaxRetry /\ 0 \in 0..MaxRequestAttempts
    BY NumbersAreSo DEF Numbers
  <2> QED
    BY <1>0, <1>1, <1>2, <2>1, <2>2, <2>3 DEF Adopt, Clients, States
<1> HIDE DEF d
<1>6. Ordered(d)
  BY <1>1, <1>3, <1>4, DeadlinesAreCorrected, NumbersAreSo DEF Numbers, Ordered
<1>7. Granted(d)
  <2>1. d.lease.address # None
    BY <1>2, <1>3
  <2>2. d.infinite => d.promised = Infinite
    BY <1>1, <1>3
  <2>3. ~d.infinite => d.promised >= d.expire - MaxDelay
    BY <1>1, <1>3, <1>4, DeadlinesAreCorrected, NumbersAreSo DEF Numbers
  <2> QED
    BY <1>3, <2>1, <2>2, <2>3 DEF Granted
<1>8. Configured(d) = d.lease.address
  <2>1. CASE d.acquired
    BY <1>3, <2>1 DEF Configured
  <2>2. CASE ~d.acquired
    <3>1. ~c.acquired /\ m.address = c.lease.address
      BY <1>3, <2>2
    <3>2. Bound(c)
      BY <3>1 DEF MidTurn, Acts, Granted, Bound
    <3>3. Configured(c) = c.lease.address
      BY <3>2 DEF MidTurn, Held
    <3> QED
      BY <1>0, <1>2, <1>3, <2>2, <3>1, <3>3 DEF Configured
  <2> QED
    BY <2>1, <2>2
<1>9. Held(d)
  BY <1>3, <1>8 DEF Held, Bound
<1>10. MidTurn(d)
  BY <1>3, <1>5, <1>6, <1>7, <1>9 DEF MidTurn, Acts
<1> QED
  BY <1>10 DEF d
(* A transaction begins; looking for a lease, with or without giving one up. *)
LEMMA TransactionBegins ==
  ASSUME NEW c \in Clients, NEW state \in States
  PROVE  LET d == BeginTransaction(c, state)
         IN  /\ d \in Clients /\ d.state = state /\ d.xid = c.xid + 1
             /\ d.lease = c.lease /\ d.infinite = c.infinite /\ d.promised = c.promised
             /\ d.renew = c.renew /\ d.rebind = c.rebind /\ d.expire = c.expire
             /\ d.acquired = c.acquired /\ d.lost = c.lost
<1>1. /\ FirstRetry \in FirstRetry..MaxRetry /\ 0 \in 0..MaxRequestAttempts
      /\ 0 \in 0..MaxRetry /\ c.xid + 1 \in Nat
  BY NumbersAreSo DEF Numbers, Clients
<1> QED
  BY <1>1 DEF BeginTransaction, Clients

LEMMA SelectingBegins ==
  ASSUME NEW c \in Clients
  PROVE  LET d == EnterSelecting(c)
         IN  /\ d \in Clients /\ d.state = "selecting" /\ d.xid = c.xid + 1
             /\ d.lease = c.lease /\ d.acquired = c.acquired /\ d.lost = c.lost
<1> DEFINE b == [c EXCEPT !.offered = NoLease]
<1>1. /\ b \in Clients /\ b.xid = c.xid /\ b.lease = c.lease
      /\ b.acquired = c.acquired /\ b.lost = c.lost
  BY DEF Clients, NoLease, Leases
<1>2. "selecting" \in States /\ EnterSelecting(c) = BeginTransaction(b, "selecting")
  BY DEF States, EnterSelecting
<1> HIDE DEF b
<1> QED
  BY <1>1, <1>2, TransactionBegins

LEMMA LeaseIsDropped ==
  ASSUME NEW c \in Clients, NEW lost \in BOOLEAN
  PROVE  LET d == EnterSelecting([DropLease(c) EXCEPT !.lost = lost])
         IN  /\ d \in Clients /\ d.state = "selecting" /\ d.xid = c.xid + 1
             /\ d.lease = NoLease /\ d.acquired = c.acquired /\ d.lost = lost
<1> DEFINE b == [DropLease(c) EXCEPT !.lost = lost]
<1>1. b \in Clients
  <2>1. 0 \in 0..Infinite /\ Lapsed \in Lapsed..Infinite /\ NoLease \in Leases
    BY NumbersAreSo DEF Numbers, NoLease, Leases
  <2> QED
    BY <2>1 DEF DropLease, Clients
<1>2. b.xid = c.xid /\ b.lease = NoLease /\ b.acquired = c.acquired /\ b.lost = lost
  BY DEF DropLease, Clients
<1> HIDE DEF b
<1>3. LET d == EnterSelecting(b)
      IN  /\ d \in Clients /\ d.state = "selecting" /\ d.xid = c.xid + 1
          /\ d.lease = NoLease /\ d.acquired = c.acquired /\ d.lost = lost
  BY <1>1, <1>2, SelectingBegins
<1> QED
  BY <1>3 DEF b

(* Looking for a lease, with nothing on the interface or what was there    *)
(* before.                                                                 *)
LEMMA SelectingActs ==
  ASSUME NEW c \in Clients, c.state = "selecting", c.lease.address = None, c.lost => c.xid > 0,
         Configured(c) = None \/ (inherited /\ ~c.acquired /\ ~c.lost)
  PROVE  MidTurn(c)
  BY DEF MidTurn, Acts, Granted, Ordered, Held, Bound

LEMMA RefusedActs ==
  ASSUME NEW c, MidTurn(c), c.state \in {"requesting", "renewing", "rebinding"}
  PROVE  MidTurn(Refused(c))
<1> DEFINE lost == c.lost \/ c.lease.address # None
           d == EnterSelecting([DropLease(c) EXCEPT !.lost = lost])
<1>1. c \in Clients /\ c.xid \in Nat /\ lost \in BOOLEAN
  BY DEF MidTurn, Acts, Clients
<1>2. Refused(c) = d
  BY <1>1 DEF Refused, DropLease, Clients
<1>3. /\ d \in Clients /\ d.state = "selecting" /\ d.xid = c.xid + 1
      /\ d.lease = NoLease /\ d.acquired = c.acquired /\ d.lost = lost
  BY <1>1, LeaseIsDropped
<1> HIDE DEF d
<1>4. Configured(d) = None \/ (inherited /\ ~d.acquired /\ ~d.lost)
  <2>1. CASE lost
    BY <1>3, <2>1 DEF Configured
  <2>2. CASE ~lost
    <3>1. ~Bound(c) /\ ~c.lost
      BY <2>2 DEF MidTurn, Acts, Granted
    <3>2. c.acquired => Configured(c) = None \/ (inherited /\ ~c.acquired /\ ~c.lost)
      BY <3>1 DEF MidTurn, Held
    <3>3. c.acquired => Configured(d) = None
      BY <1>3, <2>2, NumbersAreSo DEF Configured, NoLease
    <3>4. ~c.acquired => Configured(d) = Configured(c)
      BY <1>3, <2>2, <3>1 DEF Configured
    <3> QED
      BY <1>3, <2>2, <3>1, <3>3, <3>4 DEF MidTurn, Held
  <2> QED
    BY <2>1, <2>2
<1> QED
  BY <1>1, <1>2, <1>3, <1>4, SelectingActs DEF NoLease

LEMMA ReceiveActs ==
  ASSUME NEW c, MidTurn(c), NEW m, IsReply(m), InTime(m)
  PROVE  MidTurn(Receive(c, m))
<1>1. CASE Ours(c, m) /\ c.state = "selecting" /\ m.type = "offer" /\ m.address # None
  <2>1. Receive(c, m) = Offered(c, m)
    BY <1>1 DEF Receive
  <2> QED
    BY <1>1, <2>1, OfferedActs
<1>2. CASE /\ Ours(c, m) /\ c.state \in {"requesting", "renewing", "rebinding"}
           /\ m.type = "ack" /\ m.address # None
  <2>1. Receive(c, m) = Adopt(c, m)
    BY <1>2 DEF Receive
  <2> QED
    BY <1>2, <2>1, AdoptActs
<1>3. CASE Ours(c, m) /\ c.state \in {"requesting", "renewing", "rebinding"} /\ m.type = "nak"
  <2>1. Receive(c, m) = Refused(c)
    BY <1>3 DEF Receive
  <2> QED
    BY <1>3, <2>1, RefusedActs
<1>4. CASE ~Ours(c, m)
  BY <1>4 DEF Receive
<1>5. CASE /\ Ours(c, m)
           /\ ~(c.state = "selecting" /\ m.type = "offer" /\ m.address # None)
           /\ ~(/\ c.state \in {"requesting", "renewing", "rebinding"}
                /\ m.type = "ack" /\ m.address # None)
           /\ ~(c.state \in {"requesting", "renewing", "rebinding"} /\ m.type = "nak")
  BY <1>5 DEF Receive
<1> QED
  BY <1>1, <1>2, <1>3, <1>4, <1>5

LEMMA TwoAct ==
  ASSUME NEW c, MidTurn(c), NEW m1, NEW m2, IsReply(m1), InTime(m1), IsReply(m2), InTime(m2)
  PROVE  MidTurn(ReceiveAll(c, <<m1, m2>>))
<1>1. MidTurn(Receive(c, m1))
  BY ReceiveActs
<1>2. MidTurn(Receive(Receive(c, m1), m2))
  BY <1>1, ReceiveActs
<1>3. ReceiveAll(c, <<m1, m2>>) = Receive(Receive(c, m1), m2)
  BY TwoAreHeard
<1> QED
  BY <1>2, <1>3

-----------------------------------------------------------------------------
(* What has become due. *)
LEMMA BegunActs ==
  ASSUME NEW c, MidTurn(c), Bound(c), NEW state \in {"renewing", "rebinding"}
  PROVE  MidTurn(BeginTransaction(c, state))
<1> DEFINE d == BeginTransaction(c, state)
<1>1. c \in Clients /\ state \in States
  BY DEF MidTurn, Acts, States
<1>2. /\ d \in Clients /\ d.state = state /\ d.xid = c.xid + 1
      /\ d.lease = c.lease /\ d.infinite = c.infinite /\ d.promised = c.promised
      /\ d.expire = c.expire /\ d.acquired = c.acquired /\ d.lost = c.lost
  BY <1>1, TransactionBegins
<1> HIDE DEF d
<1>3. Bound(d) /\ d.state \notin {"bound", "selecting", "requesting"}
  BY <1>2 DEF Bound
<1>4. Granted(d) /\ Ordered(d)
  BY <1>2, <1>3 DEF MidTurn, Acts, Granted, Ordered
<1>5. Held(d)
  BY <1>2, <1>3 DEF MidTurn, Held, Configured
<1>6. d.lost => d.xid > 0
  BY <1>1, <1>2 DEF Clients
<1>7. MidTurn(d)
  BY <1>2, <1>4, <1>5, <1>6 DEF MidTurn, Acts
<1> QED
  BY <1>7 DEF d

LEMMA RenewalActs ==
  ASSUME NEW c, MidTurn(c)
  PROVE  /\ MidTurn(Renewal(c))
         /\ Renewal(c).state = "bound" /\ ~Renewal(c).infinite => Renewal(c).renew > 0
<1>1. c \in Clients /\ c.renew \in Nat
  BY NumbersAreSo DEF MidTurn, Acts, Clients, Numbers
<1>2. CASE c.state = "bound" /\ ~c.infinite /\ c.renew = 0
  <2>1. Renewal(c) = BeginTransaction(c, "renewing")
    BY <1>2 DEF Renewal
  <2>2. BeginTransaction(c, "renewing").state = "renewing"
    BY <1>1, TransactionBegins DEF States
  <2> QED
    BY <1>2, <2>1, <2>2, BegunActs DEF Bound
<1>3. CASE /\ ~(c.state = "bound" /\ ~c.infinite /\ c.renew = 0)
           /\ c.state = "renewing" /\ c.rebind = 0
  <2>1. Renewal(c) = BeginTransaction(c, "rebinding")
    BY <1>3 DEF Renewal
  <2>2. BeginTransaction(c, "rebinding").state = "rebinding"
    BY <1>1, TransactionBegins DEF States
  <2> QED
    BY <1>3, <2>1, <2>2, BegunActs DEF Bound
<1>4. CASE /\ ~(c.state = "bound" /\ ~c.infinite /\ c.renew = 0)
           /\ ~(c.state = "renewing" /\ c.rebind = 0)
  <2>1. Renewal(c) = c
    BY <1>4 DEF Renewal
  <2> QED
    BY <1>1, <1>4, <2>1
<1> QED
  BY <1>2, <1>3, <1>4

(* A lease that has run out is given up. *)
LEMMA DueActs ==
  ASSUME NEW c, MidTurn(c)
  PROVE  MidTurn(Due(c)) /\ Done(Due(c))
<1> DEFINE r == Renewal(c)
           x == Expiry(r)
<1>1. MidTurn(r) /\ (r.state = "bound" /\ ~r.infinite => r.renew > 0)
  BY RenewalActs
<1> HIDE DEF r
<1>2. r \in Clients /\ r.xid \in Nat /\ r.expire \in Nat
  BY <1>1, NumbersAreSo DEF MidTurn, Acts, Clients, Numbers
<1>3. MidTurn(x) /\ Done(x)
  <2>1. CASE r.state \in {"renewing", "rebinding"} /\ r.expire = 0
    <3>1. x = EnterSelecting([DropLease(r) EXCEPT !.lost = TRUE])
      BY <2>1 DEF Expiry
    <3>2. x \in Clients /\ x.state = "selecting" /\ x.xid = r.xid + 1 /\ x.lease = NoLease /\ x.lost
      BY <1>2, <3>1, LeaseIsDropped
    <3> HIDE DEF x
    <3>3. MidTurn(x)
      BY <1>2, <3>2, SelectingActs DEF NoLease, Configured
    <3> QED
      BY <3>2, <3>3 DEF Done
  <2>2. CASE ~(r.state \in {"renewing", "rebinding"} /\ r.expire = 0)
    <3>1. x = r
      BY <2>2 DEF Expiry
    <3> QED
      BY <1>1, <1>2, <2>2, <3>1 DEF Done
  <2> QED
    BY <2>1, <2>2
<1>4. Due(c) = StartOver(x)
  BY DEF Due, r
<1> HIDE DEF x
<1>5. CASE x.state = "requesting" /\ x.attempts >= MaxRequestAttempts
  <2> DEFINE d == EnterSelecting(x)
  <2>1. x \in Clients /\ x.xid \in Nat /\ x.lease.address = None
    BY <1>3, <1>5 DEF MidTurn, Acts, Granted, Clients
  <2>2. /\ d \in Clients /\ d.state = "selecting" /\ d.xid = x.xid + 1
        /\ d.lease = x.lease /\ d.acquired = x.acquired /\ d.lost = x.lost
    BY <2>1, SelectingBegins
  <2> HIDE DEF d
  <2>3. Configured(d) = None \/ (inherited /\ ~d.acquired /\ ~d.lost)
    BY <1>3, <1>5, <2>2 DEF MidTurn, Held, Bound, Configured
  <2>4. MidTurn(d) /\ Done(d)
    BY <2>1, <2>2, <2>3, SelectingActs DEF Done
  <2> QED
    BY <1>4, <1>5, <2>4 DEF StartOver, d
<1>6. CASE ~(x.state = "requesting" /\ x.attempts >= MaxRequestAttempts)
  BY <1>3, <1>4, <1>6 DEF StartOver
<1> QED
  BY <1>5, <1>6

(* A packet is sent, and when to send the next one is decided.             *)
LEMMA AddressedActs ==
  ASSUME NEW c, MidTurn(c), Done(c)
  PROVE  MidTurn(Addressed(c)) /\ Done(Addressed(c))
<1>1. CASE c.state = "renewing" /\ ~c.lease.server
  <2> DEFINE d == BeginTransaction(c, "rebinding")
  <2>1. MidTurn(d)
    BY <1>1, BegunActs DEF Bound
  <2>2. d.state = "rebinding" /\ d.infinite = c.infinite /\ d.expire = c.expire
    BY TransactionBegins DEF MidTurn, Acts, States
  <2> HIDE DEF d
  <2>3. Done(d)
    BY <1>1, <2>2 DEF Done
  <2> QED
    BY <1>1, <2>1, <2>3 DEF Addressed, d
<1>2. CASE ~(c.state = "renewing" /\ ~c.lease.server)
  BY <1>2 DEF Addressed
<1> QED
  BY <1>1, <1>2

LEMMA RetryActs ==
  ASSUME NEW c, MidTurn(c), Done(c)
  PROVE  MidTurn(ScheduleRetry(c)) /\ Done(ScheduleRetry(c))
<1> DEFINE d == ScheduleRetry(c)
<1>0. c \in Clients
  BY DEF MidTurn, Acts
<1>1. d \in Clients
  <2>1. /\ Least(c.attempts + 1, MaxRequestAttempts) \in 0..MaxRequestAttempts
        /\ Least(2 * c.retry, MaxRetry) \in FirstRetry..MaxRetry
        /\ c.retry \in 0..MaxRetry
    BY <1>0, NumbersAreSo DEF Numbers, Least, Clients
  <2> QED
    BY <1>0, <2>1 DEF ScheduleRetry, Clients
<1>2. /\ d.state = c.state /\ d.xid = c.xid /\ d.lease = c.lease /\ d.infinite = c.infinite
      /\ d.renew = c.renew /\ d.rebind = c.rebind /\ d.expire = c.expire
      /\ d.promised = c.promised /\ d.acquired = c.acquired /\ d.lost = c.lost
  BY <1>0 DEF ScheduleRetry, Clients
<1> HIDE DEF d
<1>3. Granted(d) /\ Ordered(d) /\ Held(d) /\ Done(d)
  BY <1>2 DEF MidTurn, Acts, Granted, Ordered, Held, Done, Bound, Configured
<1>4. MidTurn(d) /\ Done(d)
  BY <1>1, <1>2, <1>3 DEF MidTurn, Acts
<1> QED
  BY <1>4 DEF d
-----------------------------------------------------------------------------
(* The network carries nothing that was not sent.                          *)
LEMMA ArrivedAreReplies ==
  ASSUME IInv, NEW e \in Nat
  PROVE  \A m \in Arrived(e) : IsReply(m) /\ InTime(m)
<1> SUFFICES ASSUME NEW r \in replies,
                    NEW m, m = [r EXCEPT !.promised = Keeps(r.promised, e)], InTime(m)
             PROVE  IsReply(m)
  BY DEF Arrived
<1>1. IsReply(r)
  BY DEF IInv
<1>2. /\ Keeps(r.promised, e) \in Lapsed..Infinite
      /\ r.promised = Infinite => Keeps(r.promised, e) = Infinite
  BY <1>1, NumbersAreSo DEF Numbers, Keeps, IsReply
<1>3. /\ DOMAIN m = DOMAIN r /\ m.promised = Keeps(r.promised, e)
      /\ m.type = r.type /\ m.xid = r.xid /\ m.address = r.address
      /\ m.terms = r.terms /\ m.full = r.full
  BY <1>1 DEF IsReply
<1> QED
  BY <1>1, <1>2, <1>3 DEF IsReply, Grants

LEMMA StrayIsReply == IsReply(Stray)
  BY NumbersAreSo DEF Numbers, Stray, Reply, IsReply, Grants, Foreign

LEMMA OvertakenAreReplies ==
  ASSUME NEW c, NEW ms, \A m \in ms : IsReply(m)
  PROVE  \A m \in Overtaken(c, ms) : IsReply(m)
  BY StrayIsReply DEF Overtaken

(* Between two turns both signals have been taken. *)
LEMMA SettledActs ==
  ASSUME NEW c, MidTurn(c)
  PROVE  /\ Acts(Settled(c)) /\ Settled(c).xid = 0
         /\ ~Settled(c).acquired /\ ~Settled(c).lost
         /\ Settled(c).state = c.state /\ Settled(c).lease = c.lease
         /\ Done(c) => Done(Settled(c))
<1> DEFINE d == Settled(c)
<1>0. c \in Clients
  BY DEF MidTurn, Acts
<1>1. d \in Clients
  BY <1>0 DEF Settled, Clients
<1>2. /\ d.xid = 0 /\ ~d.acquired /\ ~d.lost
      /\ d.state = c.state /\ d.lease = c.lease /\ d.infinite = c.infinite
      /\ d.renew = c.renew /\ d.rebind = c.rebind /\ d.expire = c.expire
      /\ d.promised = c.promised
  BY <1>0 DEF Settled, Clients
<1> HIDE DEF d
<1>3. Acts(d) /\ (Done(c) => Done(d))
  BY <1>1, <1>2 DEF MidTurn, Acts, Granted, Ordered, Done, Bound
<1> QED
  BY <1>2, <1>3 DEF d

LEMMA TurnsKeep ==
  ASSUME IInv, NEW e \in Nat, NEW heard \in Drained(e), NEW again, Turn(e, heard, again)
  PROVE  IInv'
<1> DEFINE later == Later(client, e)
           read == ReceiveAll(later, heard)
           due == Due(read)
           ready == Addressed(due)
           final == IF Sends(due) THEN ScheduleRetry(ready) ELSE due
           left == IF again THEN Arrived(e) ELSE Arrived(e) \ ToSet(heard)
<1>1. MidTurn(later)
  BY LaterActs DEF IInv, Acts
<1>2. \A m \in Arrived(e) : IsReply(m) /\ InTime(m)
  BY ArrivedAreReplies
<1> HIDE DEF later
<1>3. MidTurn(read)
  <2>1. CASE heard = <<>>
    BY <1>1, <2>1, NothingIsHeard
  <2>2. ASSUME NEW m \in Arrived(e), heard = <<m>> PROVE MidTurn(read)
    BY <1>1, <1>2, <2>2, OneIsHeard, ReceiveActs
  <2>3. ASSUME NEW m1 \in Arrived(e), NEW m2 \in Arrived(e), heard = <<m1, m2>>
        PROVE  MidTurn(read)
    <3>1. MidTurn(ReceiveAll(later, <<m1, m2>>))
      BY <1>1, <1>2, TwoAct
    <3> QED
      BY <2>3, <3>1
  <2>4. \/ heard = <<>> \/ \E m \in Arrived(e) : heard = <<m>>
        \/ \E m1, m2 \in Arrived(e) : heard = <<m1, m2>>
    BY DEF Drained
  <2> QED
    BY <2>1, <2>2, <2>3, <2>4
<1> HIDE DEF read
<1>4. MidTurn(due) /\ Done(due)
  BY <1>3, DueActs
<1> HIDE DEF due
<1>5. MidTurn(final) /\ Done(final)
  BY <1>4, AddressedActs, RetryActs
<1>6. /\ client' = Settled(final) /\ iface' = Configured(final)
      /\ inherited' = (inherited /\ ~final.acquired /\ ~final.lost)
      /\ replies' = Overtaken(final, left)
  BY DEF Turn, later, read, due
<1> HIDE DEF final
<1>7. \A m \in replies' : IsReply(m)
  BY <1>2, <1>6, OvertakenAreReplies
<1>8. /\ Acts(client') /\ client'.xid = 0 /\ ~client'.acquired /\ ~client'.lost
      /\ Done(client') /\ client'.state = final.state /\ client'.lease = final.lease
  BY <1>5, <1>6, SettledActs
<1>9. iface' \in Addresses \cup {None} /\ inherited' \in BOOLEAN
  BY <1>5, <1>6 DEF MidTurn, Acts, Clients, Leases, Configured, IInv
<1>10. Held(client)'
  <2>1. Bound(final) <=> Bound(client')
    BY <1>8 DEF Bound
  <2>2. Configured(client)' = iface'
    BY <1>8 DEF Configured
  <2>3. CASE Bound(final)
    BY <1>5, <1>6, <1>8, <2>1, <2>2, <2>3 DEF MidTurn, Held
  <2>4. CASE ~Bound(final)
    BY <1>5, <1>6, <1>8, <2>1, <2>2, <2>4 DEF MidTurn, Held
  <2> QED
    BY <2>3, <2>4
<1> QED
  BY <1>7, <1>8, <1>9, <1>10 DEF IInv

-----------------------------------------------------------------------------
LEMMA Initially == Init => IInv
<1> SUFFICES ASSUME Init PROVE IInv
  OBVIOUS
<1>1. client \in Clients
  <2>1. /\ FirstRetry \in FirstRetry..MaxRetry /\ 0 \in 0..MaxRequestAttempts
        /\ 0 \in 0..MaxRetry /\ 0 \in 0..Infinite /\ Lapsed \in Lapsed..Infinite
    BY NumbersAreSo DEF Numbers
  <2> QED
    BY <2>1 DEF Init, Fresh, Clients, States, Leases, NoLease
<1>2. Granted(client) /\ Ordered(client) /\ Done(client) /\ Held(client)
  BY DEF Init, Fresh, NoLease, Granted, Ordered, Done, Held, Bound, Configured
<1> QED
  BY <1>1, <1>2 DEF Init, Fresh, IInv, Acts

(* A restart forgets the lease and keeps what is on the interface.         *)
LEMMA RestartsKeep == ASSUME IInv, Restart PROVE IInv'
<1> DEFINE b == [Stopped(client) EXCEPT !.lease = NoLease, !.infinite = FALSE,
                                         !.acquired = FALSE, !.lost = FALSE]
           s == Started(Stopped(client))
<1>1. b \in Clients /\ b.xid = 0 /\ b.lease = NoLease /\ ~b.acquired /\ ~b.lost
  <2>1. client \in Clients /\ client.xid = 0 /\ NoLease \in Leases /\ "idle" \in States
    BY DEF IInv, Acts, States, NoLease, Leases
  <2> QED
    BY <2>1 DEF Stopped, Clients
<1> HIDE DEF b
<1>2. s = EnterSelecting(b)
  BY DEF Started, b
<1>3. /\ s \in Clients /\ s.state = "selecting" /\ s.xid = 1 /\ s.lease = NoLease
      /\ ~s.acquired /\ ~s.lost
  BY <1>1, <1>2, SelectingBegins
<1>4. /\ client' = Settled(s) /\ replies' = Overtaken(s, replies)
      /\ inherited' = (iface # None) /\ iface' = iface
  BY DEF Restart
<1> HIDE DEF s
<1>5. client' \in Clients
  BY <1>3, <1>4 DEF Settled, Clients
<1>6. /\ client'.state = "selecting" /\ client'.xid = 0 /\ client'.lease = NoLease
      /\ ~client'.acquired /\ ~client'.lost
  BY <1>3, <1>4 DEF Settled, Clients
<1>7. Acts(client') /\ Done(client')
  BY <1>5, <1>6 DEF Acts, Granted, Ordered, Done, Bound, NoLease
<1>8. Held(client)'
  BY <1>4, <1>6 DEF Held, Bound, Configured
<1>9. \A m \in replies' : IsReply(m)
  BY <1>4, OvertakenAreReplies DEF IInv
<1> QED
  BY <1>4, <1>6, <1>7, <1>8, <1>9 DEF IInv

LEMMA EndsKeep == ASSUME IInv, End PROVE IInv'
<1>1. client' \in Clients
  <2>1. client \in Clients /\ NoLease \in Leases /\ "idle" \in States
    BY DEF IInv, Acts, States, NoLease, Leases
  <2> QED
    BY <2>1 DEF End, Stopped, Clients
<1>2. /\ client'.state = "idle" /\ client'.xid = client.xid
      /\ client'.acquired = client.acquired /\ client'.lost = client.lost
  BY DEF End, IInv, Acts, Stopped, Clients
<1>3. Acts(client') /\ Done(client')
  BY <1>1, <1>2 DEF Acts, Granted, Ordered, Done, Bound
<1>4. Held(client)'
  BY <1>2 DEF End, IInv, Held, Bound, Configured
<1> QED
  BY <1>2, <1>3, <1>4 DEF End, IInv

LEMMA CarriesKeep == ASSUME IInv, NEW m, IsReply(m), Carry(m) PROVE IInv'
  BY DEF Carry, IInv, Held, Bound, Configured

(* What servers may say.                                                   *)
LEMMA ServersKeep == ASSUME IInv, Servers PROVE IInv'
<1>1. ASSUME NEW a \in Addresses, NEW full \in BOOLEAN, Offer(a, full) PROVE IInv'
  <2>1. IsReply(Reply("offer", 0, a, AnyTerms, full, Lapsed))
    BY NumbersAreSo DEF Numbers, Reply, IsReply, Grants
  <2> QED
    BY <1>1, <2>1, CarriesKeep DEF Offer
<1>2. ASSUME NEW a \in Addresses, NEW t \in Terms, NEW full \in BOOLEAN, Ack(a, t, full)
      PROVE  IInv'
  <2>1. t.duration \in Lapsed..Infinite
    BY DhcpAssumption, NumbersAreSo DEF Numbers
  <2>2. IsReply(Reply("ack", 0, a, t, full, t.duration))
    BY <2>1 DEF Reply, IsReply, Grants
  <2> QED
    BY <1>2, <2>2, CarriesKeep DEF Ack
<1>3. CASE Nak
  <2>1. IsReply(Reply("nak", 0, None, AnyTerms, FALSE, Lapsed))
    BY NumbersAreSo DEF Numbers, Reply, IsReply, Grants
  <2> QED
    BY <1>3, <2>1, CarriesKeep DEF Nak
<1>4. CASE EmptyAck
  <2>1. IsReply(Reply("ack", 0, None, AnyTerms, FALSE, Lapsed))
    BY NumbersAreSo DEF Numbers, Reply, IsReply, Grants
  <2> QED
    BY <1>4, <2>1, CarriesKeep DEF EmptyAck
<1>5. CASE Chatter
  BY <1>5, StrayIsReply, CarriesKeep DEF Chatter
<1> QED
  BY <1>1, <1>2, <1>3, <1>4, <1>5 DEF Servers

LEMMA Inductive == IInv /\ [Next]_vars => IInv'
<1> SUFFICES ASSUME IInv, [Next]_vars PROVE IInv'
  OBVIOUS
<1>1. ASSUME NEW e \in Elapses, Loop(e) PROVE IInv'
  <2>1. e \in Nat
    BY DhcpAssumption
  <2> QED
    BY <1>1, <2>1, TurnsKeep DEF Loop
<1>2. CASE UNCHANGED vars
  BY <1>2 DEF vars, IInv, Held, Bound, Configured
<1> QED
  BY <1>1, <1>2, RestartsKeep, EndsKeep, ServersKeep DEF Next

-----------------------------------------------------------------------------
LEMMA InvariantGivesAddress == IInv => AddressIsItsOwn
<1> SUFFICES ASSUME IInv PROVE AddressIsItsOwn
  OBVIOUS
<1>1. Configured(client) = iface
  BY DEF IInv, Configured
<1>2. ConfiguredIsHeld
  BY <1>1 DEF IInv, Held, ConfiguredIsHeld
<1>3. HoldsOnlyWhatIsPromised
  <2> SUFFICES ASSUME iface # None, ~inherited PROVE client.promised >= -MaxDelay
    BY DEF HoldsOnlyWhatIsPromised
  <2>1. Bound(client)
    BY <1>1 DEF IInv, Held
  <2>2. /\ client.expire \in Nat /\ client.promised \in Int /\ client.renew \in Nat
        /\ client.state \in {"bound", "renewing", "rebinding"}
    BY <2>1, NumbersAreSo DEF IInv, Acts, Clients, Numbers, Bound
  <2>3. CASE client.infinite
    BY <2>1, <2>3, NumbersAreSo DEF IInv, Acts, Granted, Numbers
  <2>4. CASE ~client.infinite
    <3>1. client.expire > 0
      BY <2>2, <2>4 DEF IInv, Acts, Ordered, Done
    <3> QED
      BY <2>1, <2>2, <2>4, <3>1, NumbersAreSo DEF IInv, Acts, Granted, Numbers
  <2> QED
    BY <2>3, <2>4
<1>4. DeadlinesInOrder
  BY DEF IInv, Acts, Ordered, Done, DeadlinesInOrder
<1> QED
  BY <1>2, <1>3, <1>4 DEF AddressIsItsOwn

(* Whatever servers answer, and however replies are lost, repeated, late   *)
(* or overtaken: after every turn of DhcpClient and Tc002Dhcp the address  *)
(* on the interface is the one the client holds, no server has yet given   *)
(* it to anybody else, and it will be renewed before it ends.              *)
THEOREM TheAddressIsOurs == Spec => []AddressIsItsOwn
  BY Initially, Inductive, InvariantGivesAddress, PTL DEF Spec

SaysLittle == sent \in {"discover", "request", None}

LEMMA PacketsAreTwo == SaysLittle /\ [Next]_vars => SaysLittle'
  BY DEF SaysLittle, Next, Loop, Turn, Message, Restart, End, Servers, Offer, Ack, Nak, EmptyAck,
         Chatter, Carry, vars

(* Every field of the client stays what it is meant to be: deadlines not   *)
(* further than a lease away, and a gap between sends that doubles no      *)
(* further than kMaxRetryMillis (DhcpClient::scheduleRetry).               *)
THEOREM TypeCorrectness == Spec => []TypeOK
<1>1. IInv /\ SaysLittle => TypeOK
  BY DEF SaysLittle, IInv, Acts, Clients, TypeOK
<1>2. Init => SaysLittle
  BY DEF Init, SaysLittle
<1> QED
  BY <1>1, <1>2, Initially, Inductive, PacketsAreTwo, PTL DEF Spec
===============================================================================
