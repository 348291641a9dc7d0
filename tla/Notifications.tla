--------------------------- MODULE Notifications ---------------------------
(***************************************************************************)
(* The notification queue (notify::NotificationQueue), as ApplicationHost, *)
(* the HTTP API and the buttons drive it.                                  *)
(*                                                                         *)
(* The queue is fed by the HTTP API and by MQTT (push, dismiss,            *)
(* dismissAll), by the buttons (dismissActive) and by the main loop        *)
(* (tick).  They all run on one thread, so each call is one action; what   *)
(* is not under the code's control is their order.                         *)
(*                                                                         *)
(* queued_ is a vector in the code, but nothing depends on the order of    *)
(* its elements: the best and the worst are picked by priority and         *)
(* sequence number, and an entry is found by its id.  It is a set here,    *)
(* and the invariants UniqueIds and UniqueSequences are what make that     *)
(* abstraction exact.                                                      *)
(***************************************************************************)
EXTENDS Integers, FiniteSets

CONSTANTS
  MaxQueued,    \* kMaxQueued: notifications that may wait
  MaxPriority,  \* the highest rank of the priority ladder
  ClientIds,    \* the ids clients choose; a number k stands for the text "n<k>"
  Content,      \* what clients post: priority, duration (s), hold, dismissible
  MaxSequence,  \* bound of the model: pushes that get a sequence number
  NoId,         \* the empty id
  None          \* no notification

Posts == [priority: 0..MaxPriority, duration: Int, hold: BOOLEAN, dismissible: BOOLEAN]

Id == ClientIds \cup Nat

Notification ==
  [id: Id, priority: 0..MaxPriority, duration: Nat \ {0},
   hold: BOOLEAN, dismissible: BOOLEAN, sequence: Nat]

ASSUME NotificationsAssumption ==
  /\ MaxQueued \in Nat
  /\ MaxPriority \in Nat
  /\ MaxSequence \in Nat
  /\ Content \subseteq Posts
  /\ NoId \notin Id
  /\ None \notin Notification

VARIABLES
  active,        \* active_ while hasActive_, otherwise None
  elapsed,       \* seconds active has been showing (activeElapsedMillis)
  queued,        \* queued_
  nextSequence,  \* nextSequence_
  dropped        \* dropped_

vars == <<active, elapsed, queued, nextSequence, dropped>>

-----------------------------------------------------------------------------
Live == queued \cup (IF active = None THEN {} ELSE {active})

(* Priority first, then arrival order. *)
RanksAhead(a, b) ==
  \/ a.priority > b.priority
  \/ a.priority = b.priority /\ a.sequence < b.sequence

(* Fault: the oldest is picked, whatever its priority. *)
IsOldest(n, S) == n \in S /\ \A m \in S : n.sequence <= m.sequence

IsBest(n, S)  == n \in S /\ \A m \in S : ~RanksAhead(m, n)
IsWorst(n, S) == n \in S /\ \A m \in S : ~RanksAhead(n, m)

(* "n" + nextSequence_ when the caller left the id out. *)
Identity(id) == IF id = NoId THEN nextSequence ELSE id

Stamp(id, post, seq) ==
  [id |-> id, priority |-> post.priority,
   duration |-> IF post.duration < 1 THEN 1 ELSE post.duration,
   hold |-> post.hold, dismissible |-> post.dismissible, sequence |-> seq]

(* n takes the screen and starts its duration afresh. *)
Show(n) == active' = n /\ elapsed' = 0

(* The best of S takes the screen, or the screen is empty; what stays      *)
(* waiting is the rest of S together with displaced.                       *)
PromoteFrom(S, displaced) ==
  \/ /\ S = {}
     /\ Show(None)
     /\ queued' = displaced
  \/ \E best \in S :
       /\ IsBest(best, S)
       /\ Show(best)
       /\ queued' = (S \ {best}) \cup displaced

Init ==
  /\ active = None
  /\ elapsed = 0
  /\ queued = {}
  /\ nextSequence = 1
  /\ dropped = 0

-----------------------------------------------------------------------------
(* push, one action per outcome.                                           *)

(* Fault: only the screen is searched for the id. *)
KnownOnScreen(id) == active # None /\ active.id = id

Known(id) == \E n \in Live : n.id = id

(* The id is the one on screen: replaced in place, shown again in full. *)
RefreshActive(id, post) ==
  /\ active # None
  /\ active.id = Identity(id)
  /\ Show(Stamp(Identity(id), post, active.sequence))
  /\ UNCHANGED <<queued, nextSequence, dropped>>

(* The id is waiting: replaced, keeping its arrival order. *)
RefreshQueued(id, post) ==
  /\ active # None => active.id # Identity(id)
  /\ \E old \in queued :
       /\ old.id = Identity(id)
       /\ queued' = (queued \ {old}) \cup {Stamp(old.id, post, old.sequence)}
  /\ UNCHANGED <<active, elapsed, nextSequence, dropped>>

Arrive(id) ==
  /\ nextSequence <= MaxSequence
  /\ ~Known(Identity(id))
  /\ nextSequence' = nextSequence + 1

Arrival(id, post) == Stamp(Identity(id), post, nextSequence)

ShowFirst(id, post) ==
  /\ Arrive(id)
  /\ active = None
  /\ Show(Arrival(id, post))
  /\ UNCHANGED <<queued, dropped>>

(* Fault: equal priority preempts too. *)
PreemptEqual(id, post) ==
  /\ Arrive(id)
  /\ active # None
  /\ post.priority >= active.priority
  /\ Show(Arrival(id, post))
  /\ queued' = queued \cup {active}
  /\ UNCHANGED dropped

(* Strictly higher priority preempts; the displaced one waits again.  The  *)
(* depth of the queue is not looked at here.                               *)
Preempt(id, post) ==
  /\ Arrive(id)
  /\ active # None
  /\ post.priority > active.priority
  /\ Show(Arrival(id, post))
  /\ queued' = queued \cup {active}
  /\ UNCHANGED dropped

MustWait(post) == active # None /\ post.priority <= active.priority

Full == Cardinality(queued) >= MaxQueued

Enqueue(id, post) ==
  /\ Arrive(id)
  /\ MustWait(post)
  /\ ~Full
  /\ queued' = queued \cup {Arrival(id, post)}
  /\ UNCHANGED <<active, elapsed, dropped>>

(* Full: the lowest priority, newest entry makes room... *)
Evict(id, post) ==
  /\ Arrive(id)
  /\ MustWait(post)
  /\ Full
  /\ \E worst \in queued :
       /\ IsWorst(worst, queued)
       /\ RanksAhead(Arrival(id, post), worst)
       /\ queued' = (queued \ {worst}) \cup {Arrival(id, post)}
  /\ dropped' = dropped + 1
  /\ UNCHANGED <<active, elapsed>>

(* ...unless it is the incoming one that ranks last (429 to the client). *)
Reject(id, post) ==
  /\ Arrive(id)
  /\ MustWait(post)
  /\ Full
  /\ \A worst \in queued :
       IsWorst(worst, queued) => ~RanksAhead(Arrival(id, post), worst)
  /\ dropped' = dropped + 1
  /\ UNCHANGED <<active, elapsed, queued>>

Refresh(id, post) == RefreshActive(id, post) \/ RefreshQueued(id, post)

Push(id, post) ==
  \/ Refresh(id, post)
  \/ ShowFirst(id, post)
  \/ Preempt(id, post)
  \/ Enqueue(id, post)
  \/ Evict(id, post)
  \/ Reject(id, post)

-----------------------------------------------------------------------------
(* dismiss; dismissActive is dismiss(active_.id). *)

(* Fault: the next message is left for the tick to find. *)
DismissActiveOnly(id) ==
  /\ active # None
  /\ active.id = id
  /\ active.dismissible
  /\ Show(None)
  /\ UNCHANGED <<queued, nextSequence, dropped>>

DismissActive(id) ==
  /\ active # None
  /\ active.id = id
  /\ active.dismissible
  /\ PromoteFrom(queued, {})
  /\ UNCHANGED <<nextSequence, dropped>>

DismissQueued(id) ==
  /\ active # None => active.id # id
  /\ \E n \in queued :
       /\ n.id = id
       /\ n.dismissible
       /\ queued' = queued \ {n}
  /\ UNCHANGED <<active, elapsed, nextSequence, dropped>>

Dismiss(id) == DismissActive(id) \/ DismissQueued(id)

Kept == {n \in queued : ~n.dismissible}

DismissAll ==
  /\ IF active # None /\ active.dismissible
     THEN PromoteFrom(Kept, {})
     ELSE queued' = Kept /\ UNCHANGED <<active, elapsed>>
  /\ UNCHANGED <<nextSequence, dropped>>

(* clear keeps nextSequence_, so ids and arrival order stay unique. *)
Clear ==
  /\ Show(None)
  /\ queued' = {}
  /\ dropped' = 0
  /\ UNCHANGED <<nextSequence>>

-----------------------------------------------------------------------------
(* One turn of the main loop: NotificationQueue::tick.                     *)

Expired == active # None /\ ~active.hold /\ elapsed >= active.duration

Outranked == active # None /\ \E n \in queued : n.priority > active.priority

(* Fault: a tick looks at the queue only when the screen falls free. *)
TickWithoutPreemption ==
  /\ IF active = None \/ Expired THEN PromoteFrom(queued, {})
     ELSE UNCHANGED <<active, elapsed, queued>>
  /\ UNCHANGED <<nextSequence, dropped>>

Tick ==
  /\ IF active = None \/ Expired THEN PromoteFrom(queued, {})
     ELSE IF Outranked THEN PromoteFrom(queued, {active})
     ELSE UNCHANGED <<active, elapsed, queued>>
  /\ UNCHANGED <<nextSequence, dropped>>

(* A second passes.  Once a message that can expire is overdue, more of    *)
(* the same changes nothing.                                               *)
Elapse ==
  /\ active # None
  /\ elapsed < active.duration
  /\ elapsed' = elapsed + 1
  /\ UNCHANGED <<active, queued, nextSequence, dropped>>

Client ==
  \/ \E id \in ClientIds \cup {NoId}, post \in Content : Push(id, post)
  \/ \E n \in Live : Dismiss(n.id)
  \/ DismissAll
  \/ Clear

Next == Client \/ Tick \/ Elapse

(* The main loop never stops ticking and time never stops passing; clients *)
(* owe nothing.                                                            *)
Spec == Init /\ [][Next]_vars /\ WF_vars(Tick) /\ WF_vars(Elapse)

-----------------------------------------------------------------------------
(* Every variable has its type, and sequence numbers in use were issued. *)
TypeOK ==
  /\ active \in Notification \cup {None}
  /\ elapsed \in Nat
  /\ queued \subseteq Notification
  /\ nextSequence \in Nat \ {0}
  /\ dropped \in Nat

(* No id is live twice, so that an update or a DELETE by id can only mean  *)
(* one notification (push looks the id up in active_ and then in queued_). *)
UniqueIds ==
  /\ \A m, n \in queued : m.id = n.id => m = n
  /\ active # None => \A n \in queued : n.id # active.id

(* No two live notifications share an arrival number, so ranksAhead is a   *)
(* total order on them: "two notifications never tie" (Notifications.h).   *)
UniqueSequences ==
  /\ \A n \in Live : n.sequence < nextSequence
  /\ \A m, n \in queued : m.sequence = n.sequence => m = n
  /\ active # None => \A n \in queued : n.sequence # active.sequence

(* Nothing ever waits behind an empty screen: without it a push onto the   *)
(* empty screen would overtake everything already waiting.                 *)
NoneWaitsForNothing == active = None => queued = {}

(* Whatever an update left behind, one tick puts right. *)
TickRestoresRank == [][Tick => ~Outranked']_vars

(* A message never takes the screen past a waiting one that ranks ahead of *)
(* it: equal priorities are shown in arrival order, also after preemptions,*)
(* refreshes and evictions, unless an update had already disturbed the     *)
(* ranks.                                                                  *)
ShownInOrder ==
  [][~Outranked /\ active' # None /\ (active = None \/ active.sequence # active'.sequence)
       => IsBest(active', Live')]_vars

(* "Dropping the oldest would let a flood of chatter push out an important *)
(* message": an arrival removes at most one message, and one that ranks    *)
(* behind every message that stays.                                        *)
Lost == {n \in Live : \A m \in Live' : m.id # n.id}
ChatterNeverEvicts ==
  [][nextSequence' # nextSequence
       => \A n \in Lost, m \in Live' : m.priority >= n.priority]_vars

(* An alarm that insists leaves only by running out, by being outranked    *)
(* when the queue is full, or by the unconditional reset.                  *)
InsistentStays ==
  [][(DismissAll \/ \E n \in Live : Dismiss(n.id))
       => \A n \in Lost : n.dismissible]_vars

(* If the clients fall silent, the screen is given back to the apps in the *)
(* end, or to a message that was posted to be held and that none of those  *)
(* still waiting outranks.                                                 *)
QuietDrains ==
  <>[][~Client]_vars => <>[](active = None \/ (active.hold /\ ~Outranked))
=============================================================================
