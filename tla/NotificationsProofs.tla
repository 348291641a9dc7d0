------------------------ MODULE NotificationsProofs ------------------------
(***************************************************************************)
(* What holds of the notification queue for every depth, every ladder of   *)
(* priorities and every set of clients.                                    *)
(***************************************************************************)
EXTENDS Notifications, TLAPS

(* What a client posts becomes a notification once it has an id and a      *)
(* place in the arrival order.                                             *)
LEMMA StampIsNotification ==
  ASSUME NEW id \in Id, NEW post \in Content, NEW seq \in Nat
  PROVE  /\ Stamp(id, post, seq) \in Notification
         /\ Stamp(id, post, seq).id = id
         /\ Stamp(id, post, seq).priority = post.priority
         /\ Stamp(id, post, seq).sequence = seq
BY NotificationsAssumption DEF Stamp, Notification, Posts

LEMMA IdentityIsId ==
  ASSUME nextSequence \in Nat, NEW id \in ClientIds \cup {NoId}
  PROVE  Identity(id) \in Id
BY DEF Identity, Id

(* Whichever way the screen is given away, what is shown was waiting, and  *)
(* nothing that was not there before waits.                                *)
LEMMA PromotionIsConservative ==
  ASSUME NEW S, NEW D, PromoteFrom(S, D)
  PROVE  /\ elapsed' = 0
         /\ \/ S = {} /\ active' = None /\ queued' = D
            \/ active' \in S /\ IsBest(active', S) /\ queued' = (S \ {active'}) \cup D
BY DEF PromoteFrom, Show

-----------------------------------------------------------------------------
(* The types: every step leaves notifications in active and queued. *)
LEMMA TypeOKStep == TypeOK /\ [Next]_vars => TypeOK'
<1> SUFFICES ASSUME TypeOK, [Next]_vars PROVE TypeOK'
  OBVIOUS
<1> USE DEF TypeOK
<1>1. ASSUME NEW id \in ClientIds \cup {NoId}, NEW post \in Content, Push(id, post)
      PROVE  TypeOK'
  <2>1. Identity(id) \in Id
    BY IdentityIsId
  <2>2. \A seq \in Nat : Stamp(Identity(id), post, seq) \in Notification
    BY <2>1, StampIsNotification
  <2>3. Arrival(id, post) \in Notification
    BY <2>2 DEF Arrival
  <2>4. CASE RefreshActive(id, post)
    <3>1. active.sequence \in Nat
      BY <2>4, NotificationsAssumption DEF RefreshActive, Notification
    <3> QED BY <2>2, <2>4, <3>1 DEF RefreshActive, Show
  <2>5. CASE RefreshQueued(id, post)
    <3>1. PICK old \in queued :
            /\ old.id = Identity(id)
            /\ queued' = (queued \ {old}) \cup {Stamp(old.id, post, old.sequence)}
      BY <2>5 DEF RefreshQueued
    <3>2. old.sequence \in Nat
      BY DEF Notification
    <3>3. Stamp(old.id, post, old.sequence) \in Notification
      BY <2>2, <3>1, <3>2
    <3> QED BY <2>5, <3>1, <3>3 DEF RefreshQueued
  <2>6. CASE ShowFirst(id, post)
    BY <2>3, <2>6 DEF ShowFirst, Show, Arrive
  <2>7. CASE Preempt(id, post)
    BY <2>3, <2>7 DEF Preempt, Show, Arrive
  <2>8. CASE Enqueue(id, post)
    BY <2>3, <2>8 DEF Enqueue, Arrive
  <2>9. CASE Evict(id, post)
    BY <2>3, <2>9 DEF Evict, Arrive
  <2>10. CASE Reject(id, post)
    BY <2>10 DEF Reject, Arrive
  <2> QED BY <1>1, <2>4, <2>5, <2>6, <2>7, <2>8, <2>9, <2>10 DEF Push, Refresh
<1>2. ASSUME NEW n \in Live, Dismiss(n.id)
      PROVE  TypeOK'
  <2>1. CASE DismissActive(n.id)
    BY <2>1, PromotionIsConservative DEF DismissActive
  <2>2. CASE DismissQueued(n.id)
    BY <2>2 DEF DismissQueued
  <2> QED BY <1>2, <2>1, <2>2 DEF Dismiss
<1>3. CASE DismissAll
  BY <1>3, PromotionIsConservative DEF DismissAll, Kept
<1>4. CASE Clear
  BY <1>4 DEF Clear, Show
<1>5. CASE Tick
  <2>1. CASE PromoteFrom(queued, {})
    BY <1>5, <2>1, PromotionIsConservative DEF Tick
  <2>2. CASE active # None /\ PromoteFrom(queued, {active})
    BY <1>5, <2>2, PromotionIsConservative DEF Tick
  <2>3. CASE UNCHANGED <<active, elapsed, queued>>
    BY <1>5, <2>3 DEF Tick
  <2> QED BY <1>5, <2>1, <2>2, <2>3 DEF Tick
<1>6. CASE Elapse
  BY <1>6 DEF Elapse
<1>7. CASE UNCHANGED vars
  BY <1>7 DEF vars
<1> QED BY <1>1, <1>2, <1>3, <1>4, <1>5, <1>6, <1>7 DEF Next, Client

(* Everything on screen or waiting is a notification, at all times. *)
THEOREM TypeCorrectness == Spec => []TypeOK
<1>1. Init => TypeOK
  BY DEF Init, TypeOK
<1> QED BY <1>1, TypeOKStep, PTL DEF Spec

-----------------------------------------------------------------------------
(* What keeps ids and arrival numbers apart.  The three invariants need    *)
(* one another: a promotion empties the screen only when nobody waits, an  *)
(* arrival is numbered past everything live, and its id is searched for    *)
(* both on the screen and in the queue.                                    *)
IInv == TypeOK /\ UniqueIds /\ UniqueSequences /\ NoneWaitsForNothing

(* Taking one of the live messages onto the screen and keeping some of the *)
(* rest waiting preserves all of them.                                     *)
LEMMA RearrangingKeepsIInv ==
  ASSUME IInv, TypeOK', nextSequence' = nextSequence,
         queued' \subseteq Live,
         active' # None => active' \in Live \ queued',
         active' = None => queued' = {}
  PROVE  IInv'
<1> USE DEF IInv, Live
<1>1. \A m, n \in Live : m.id = n.id => m = n
  BY DEF UniqueIds
<1>2. \A m, n \in Live : m.sequence = n.sequence => m = n
  BY DEF UniqueSequences
<1>3. UniqueIds'
  BY <1>1 DEF UniqueIds
<1>4. UniqueSequences'
  BY <1>2 DEF UniqueSequences
<1> QED BY <1>3, <1>4 DEF NoneWaitsForNothing

LEMMA IInvStep == IInv /\ [Next]_vars => IInv'
<1> SUFFICES ASSUME IInv, [Next]_vars PROVE IInv'
  OBVIOUS
<1>0. TypeOK'
  BY TypeOKStep DEF IInv
<1>q. None \notin queued
  BY NotificationsAssumption DEF IInv, TypeOK
<1>n. active # None => active \in Notification
  BY DEF IInv, TypeOK
<1>1. ASSUME NEW id \in ClientIds \cup {NoId}, NEW post \in Content, Push(id, post)
      PROVE  IInv'
  <2>1. Identity(id) \in Id /\ nextSequence \in Nat
    BY IdentityIsId DEF IInv, TypeOK
  <2>2. \A seq \in Nat :
          /\ Stamp(Identity(id), post, seq).id = Identity(id)
          /\ Stamp(Identity(id), post, seq).sequence = seq
          /\ Stamp(Identity(id), post, seq) \in Notification
    BY <2>1, StampIsNotification
  <2>3. /\ Arrival(id, post).id = Identity(id)
        /\ Arrival(id, post).sequence = nextSequence
        /\ Arrival(id, post) # None
    BY <2>1, <2>2, NotificationsAssumption DEF Arrival
  <2>4. CASE RefreshActive(id, post)
    <3>1. active.sequence \in Nat /\ active # None /\ active.id = Identity(id)
      BY <1>n, <2>4 DEF RefreshActive, Notification
    <3>2. /\ active' = Stamp(Identity(id), post, active.sequence)
          /\ UNCHANGED <<queued, nextSequence>>
      BY <2>4 DEF RefreshActive, Show
    <3>3. /\ active'.id = active.id
          /\ active'.sequence = active.sequence
          /\ active' # None
      BY <2>2, <3>1, <3>2, NotificationsAssumption
    <3>4. UniqueIds'
      BY <3>1, <3>2, <3>3 DEF IInv, UniqueIds
    <3>5. UniqueSequences'
      BY <3>1, <3>2, <3>3 DEF IInv, UniqueSequences, Live
    <3> QED BY <1>0, <3>3, <3>4, <3>5 DEF IInv, NoneWaitsForNothing
  <2>5. CASE RefreshQueued(id, post)
    <3>1. PICK old \in queued :
            /\ old.id = Identity(id)
            /\ queued' = (queued \ {old}) \cup {Stamp(old.id, post, old.sequence)}
      BY <2>5 DEF RefreshQueued
    <3> DEFINE new == Stamp(old.id, post, old.sequence)
    <3>2. old.sequence \in Nat
      BY DEF IInv, TypeOK, Notification
    <3>3. new.id = old.id /\ new.sequence = old.sequence
      BY <2>2, <3>1, <3>2
    <3>4. UNCHANGED <<active, nextSequence>>
      BY <2>5 DEF RefreshQueued
    <3> HIDE DEF new
    <3>5. queued' = (queued \ {old}) \cup {new}
      BY <3>1 DEF new
    <3>6. UniqueIds'
      BY <3>3, <3>4, <3>5 DEF IInv, UniqueIds
    <3>7. UniqueSequences'
      BY <3>3, <3>4, <3>5 DEF IInv, UniqueSequences, Live
    <3> QED BY <1>0, <3>4, <3>6, <3>7 DEF IInv, NoneWaitsForNothing
  <2>6. CASE Arrive(id) /\ (ShowFirst(id, post) \/ Preempt(id, post))
    <3>1. /\ active' = Arrival(id, post)
          /\ queued' = Live
          /\ nextSequence' = nextSequence + 1
      BY <2>6 DEF Arrive, ShowFirst, Preempt, Show, Live, IInv, NoneWaitsForNothing
    <3>2. \A n \in Live : n.id # Identity(id) /\ n.sequence \in Nat
                          /\ n.sequence < nextSequence
      BY <1>n, <2>6
         DEF Arrive, Known, IInv, UniqueSequences, TypeOK, Live, Notification
    <3>3. UniqueIds'
      BY <2>3, <3>1, <3>2 DEF IInv, UniqueIds, Live
    <3>4. UniqueSequences'
      BY <2>1, <2>3, <3>1, <3>2 DEF IInv, UniqueSequences, Live
    <3> QED BY <1>0, <2>3, <3>1, <3>3, <3>4 DEF IInv, NoneWaitsForNothing
  <2>7. CASE Arrive(id) /\ (\/ Enqueue(id, post) \/ Evict(id, post) \/ Reject(id, post))
    <3>1. /\ active # None /\ active' = active
          /\ queued' \subseteq queued \cup {Arrival(id, post)}
          /\ nextSequence' = nextSequence + 1
      BY <2>7 DEF Arrive, Enqueue, Evict, Reject, MustWait
    <3>2. \A n \in Live : n.id # Identity(id) /\ n.sequence \in Nat
                          /\ n.sequence < nextSequence
      BY <1>n, <2>7
         DEF Arrive, Known, IInv, UniqueSequences, TypeOK, Live, Notification
    <3>3. UniqueIds'
      BY <2>3, <3>1, <3>2 DEF IInv, UniqueIds, Live
    <3>4. UniqueSequences'
      BY <2>1, <2>3, <3>1, <3>2 DEF IInv, UniqueSequences, Live
    <3> QED BY <1>0, <3>1, <3>3, <3>4 DEF IInv, NoneWaitsForNothing
  <2> QED
    BY <1>1, <2>4, <2>5, <2>6, <2>7
       DEF Push, Refresh, ShowFirst, Preempt, Enqueue, Evict, Reject
<1>2. ASSUME NEW n \in Live, Dismiss(n.id)
      PROVE  IInv'
  <2>1. CASE DismissActive(n.id)
    <3>1. /\ nextSequence' = nextSequence
          /\ \/ queued = {} /\ active' = None /\ queued' = {}
             \/ active' \in queued /\ queued' = queued \ {active'}
      BY <2>1, PromotionIsConservative DEF DismissActive
    <3> QED BY <1>q, <1>0, <3>1, RearrangingKeepsIInv DEF Live
  <2>2. CASE DismissQueued(n.id)
    <3>1. /\ UNCHANGED <<active, nextSequence>>
          /\ queued' \subseteq queued
      BY <2>2 DEF DismissQueued
    <3> QED BY <1>0, <3>1, RearrangingKeepsIInv
            DEF Live, IInv, UniqueIds, NoneWaitsForNothing
  <2> QED BY <1>2, <2>1, <2>2 DEF Dismiss
<1>3. CASE DismissAll
  <2>1. CASE PromoteFrom(Kept, {})
    <3>1. /\ nextSequence' = nextSequence
          /\ \/ Kept = {} /\ active' = None /\ queued' = {}
             \/ active' \in Kept /\ queued' = Kept \ {active'}
      BY <1>3, <2>1, PromotionIsConservative DEF DismissAll
    <3> QED BY <1>q, <1>0, <3>1, RearrangingKeepsIInv DEF Live, Kept
  <2>2. CASE queued' = Kept /\ UNCHANGED active
    <3>1. nextSequence' = nextSequence
      BY <1>3 DEF DismissAll
    <3> QED BY <1>0, <2>2, <3>1, RearrangingKeepsIInv
            DEF Live, Kept, IInv, UniqueIds, NoneWaitsForNothing
  <2> QED BY <1>3, <2>1, <2>2 DEF DismissAll
<1>4. CASE Clear
  BY <1>0, <1>4, RearrangingKeepsIInv DEF Clear, Show
<1>5. CASE Tick
  <2>n. nextSequence' = nextSequence
    BY <1>5 DEF Tick
  <2>1. CASE PromoteFrom(queued, {})
    <3>1. \/ queued = {} /\ active' = None /\ queued' = {}
          \/ active' \in queued /\ queued' = queued \ {active'}
      BY <2>1, PromotionIsConservative
    <3> QED BY <1>q, <1>0, <2>n, <3>1, RearrangingKeepsIInv DEF Live
  <2>2. CASE active # None /\ queued # {} /\ PromoteFrom(queued, {active})
    <3>1. active' \in queued /\ queued' = (queued \ {active'}) \cup {active}
      BY <2>2, PromotionIsConservative
    <3>2. active \notin queued
      BY <2>2 DEF IInv, UniqueIds
    <3>3. active' # None
      BY <3>1, NotificationsAssumption DEF IInv, TypeOK
    <3> QED BY <1>0, <2>n, <2>2, <3>1, <3>2, <3>3, RearrangingKeepsIInv DEF Live
  <2>3. CASE UNCHANGED <<active, elapsed, queued>>
    BY <1>0, <2>n, <2>3, RearrangingKeepsIInv
       DEF Live, IInv, UniqueIds, NoneWaitsForNothing
  <2> QED BY <1>5, <2>1, <2>2, <2>3 DEF Tick, Outranked
<1>6. CASE Elapse
  BY <1>0, <1>6, RearrangingKeepsIInv
     DEF Elapse, Live, IInv, UniqueIds, NoneWaitsForNothing
<1>7. CASE UNCHANGED vars
  BY <1>0, <1>7, RearrangingKeepsIInv
     DEF vars, Live, IInv, UniqueIds, NoneWaitsForNothing
<1> QED BY <1>1, <1>2, <1>3, <1>4, <1>5, <1>6, <1>7 DEF Next, Client

(* The inductive invariant holds throughout. *)
THEOREM IInvHolds == Spec => []IInv
<1>1. Init => IInv
  BY DEF Init, IInv, TypeOK, UniqueIds, UniqueSequences, NoneWaitsForNothing, Live
<1> QED BY <1>1, IInvStep, PTL DEF Spec

(* An update or a DELETE by id can only ever mean one notification. *)
THEOREM IdsAreUnique == Spec => []UniqueIds
BY IInvHolds, PTL DEF IInv

(* Two notifications never tie: arrival numbers order all that are live. *)
THEOREM SequencesAreUnique == Spec => []UniqueSequences
BY IInvHolds, PTL DEF IInv

(* The screen is never left empty in front of a queue. *)
THEOREM NoneWaits == Spec => []NoneWaitsForNothing
BY IInvHolds, PTL DEF IInv

-----------------------------------------------------------------------------
(* Outranking is about priorities; the best of a set is outranked by none. *)
LEMMA TheBestIsNotOutranked ==
  ASSUME NEW S \in SUBSET Notification, NEW best \in S, IsBest(best, S)
  PROVE  \A m \in S : m.priority <= best.priority
BY NotificationsAssumption DEF IsBest, RanksAhead, Notification

(* The same of a promotion: whoever takes the screen is outranked by none  *)
(* of those it was chosen from.                                            *)
LEMMA PromotionPicksTheBest ==
  ASSUME TypeOK, NEW D, PromoteFrom(queued, D), queued # {}
  PROVE  /\ active' \in queued
         /\ queued' = (queued \ {active'}) \cup D
         /\ \A m \in queued : m.priority <= active'.priority
<1>1. PICK best \in queued :
        /\ IsBest(best, queued)
        /\ active' = best
        /\ queued' = (queued \ {best}) \cup D
  BY DEF PromoteFrom, Show
<1>2. \A m \in queued : m.priority <= best.priority
  BY <1>1, TheBestIsNotOutranked DEF TypeOK
<1> QED BY <1>1, <1>2

(* Whatever an update left behind, one tick puts right. *)
THEOREM TicksRestoreRank == Spec => TickRestoresRank
<1>0. \A n \in Notification : n.priority \in Int
  BY NotificationsAssumption DEF Notification
<1>1. ASSUME TypeOK, Tick PROVE ~Outranked'
  <2>0. queued \subseteq Notification
    BY <1>1 DEF TypeOK
  <2>1. CASE PromoteFrom(queued, {}) /\ queued = {}
    BY <2>1 DEF PromoteFrom, Outranked, Show
  <2>2. CASE PromoteFrom(queued, {}) /\ queued # {}
    <3>1. /\ active' \in queued
          /\ queued' \subseteq queued
          /\ \A m \in queued : m.priority <= active'.priority
      BY <1>1, <2>2, PromotionPicksTheBest
    <3> QED BY <1>0, <2>0, <3>1 DEF Outranked
  <2>3. CASE Outranked /\ PromoteFrom(queued, {active})
    <3>1. PICK n \in queued : n.priority > active.priority
      BY <2>3 DEF Outranked
    <3>2. active \in Notification
      BY <1>1, <2>3 DEF Outranked, TypeOK
    <3>3. /\ active' \in queued
          /\ queued' = (queued \ {active'}) \cup {active}
          /\ \A m \in queued : m.priority <= active'.priority
      BY <1>1, <2>3, <3>1, PromotionPicksTheBest
    <3>4. active.priority <= active'.priority
      BY <1>0, <2>0, <3>1, <3>2, <3>3
    <3>5. \A m \in queued' : ~(m.priority > active'.priority)
      BY <1>0, <2>0, <3>2, <3>3, <3>4
    <3> QED BY <3>5 DEF Outranked
  <2>4. CASE ~Outranked /\ UNCHANGED <<active, elapsed, queued>>
    BY <2>4 DEF Outranked
  <2> QED BY <1>1, <2>1, <2>2, <2>3, <2>4 DEF Tick
<1> QED BY <1>1, TypeCorrectness, PTL DEF TickRestoresRank

LEMMA PromotedIsBestOfLive ==
  ASSUME NEW S, PromoteFrom(S, {}), active' # None
  PROVE  IsBest(active', Live')
<1>1. active' \in S /\ IsBest(active', S) /\ queued' = S \ {active'}
  BY PromotionIsConservative
<1>2. Live' = S
  BY <1>1 DEF Live
<1> QED BY <1>1, <1>2 DEF IsBest

(* No message takes the screen past one that ranks ahead of it. *)
THEOREM MessagesAreShownInOrder == Spec => ShownInOrder
<1> DEFINE Taken == active' # None /\ (active = None \/ active.sequence # active'.sequence)
<1>0. \A n \in Notification : n.priority \in Int /\ n.sequence \in Int
  BY NotificationsAssumption DEF Notification
<1>1. ASSUME IInv, TypeOK', [Next]_vars, ~Outranked, Taken
      PROVE  IsBest(active', Live')
  <2>0. /\ queued \subseteq Notification
        /\ active # None => active \in Notification
        /\ active' \in Notification
    BY <1>1 DEF IInv, TypeOK
  <2>1. ASSUME NEW id \in ClientIds \cup {NoId}, NEW post \in Content, Push(id, post)
        PROVE  IsBest(active', Live')
    <3>1. active' = Arrival(id, post) /\ (ShowFirst(id, post) \/ Preempt(id, post))
      <4>1. CASE RefreshActive(id, post)
        <5>1. active # None /\ active.sequence \in Nat /\ Identity(id) \in Id
          BY <1>1, <2>0, <4>1, IdentityIsId DEF RefreshActive, Notification, IInv, TypeOK
        <5>2. active'.sequence = active.sequence
          BY <4>1, <5>1, StampIsNotification DEF RefreshActive, Show
        <5> QED BY <1>1, <5>1, <5>2
      <4>2. CASE active' = active
        BY <1>1, <4>2
      <4> QED BY <2>1, <4>1, <4>2
              DEF Push, Refresh, RefreshQueued, ShowFirst, Preempt, Enqueue, Evict, Reject, Show
    <3>2. CASE ShowFirst(id, post)
      <4>1. Live' = {active'}
        BY <1>1, <3>2 DEF ShowFirst, Live, IInv, NoneWaitsForNothing
      <4> QED BY <1>0, <2>0, <4>1 DEF IsBest, RanksAhead
    <3>3. CASE Preempt(id, post)
      <4>1. Live' = queued \cup {active, active'} /\ active # None
        BY <1>1, <3>3 DEF Preempt, Live
      <4>2. Identity(id) \in Id /\ nextSequence \in Nat
        BY <1>1, IdentityIsId DEF IInv, TypeOK
      <4>3. active'.priority = post.priority
        BY <3>1, <4>2, StampIsNotification DEF Arrival
      <4>4. active'.priority > active.priority
        BY <3>3, <4>3 DEF Preempt
      <4>5. \A m \in queued : ~(m.priority > active.priority)
        BY <1>1, <4>1 DEF Outranked
      <4>6. \A m \in queued \cup {active} : active'.priority > m.priority
        BY <1>0, <2>0, <4>1, <4>4, <4>5
      <4> QED BY <1>0, <2>0, <4>1, <4>6 DEF IsBest, RanksAhead
    <3> QED BY <3>1, <3>2, <3>3
  <2>2. ASSUME NEW n \in Live, Dismiss(n.id)
        PROVE  IsBest(active', Live')
    <3>1. active' # active
      BY <1>1
    <3>2. PromoteFrom(queued, {})
      BY <2>2, <3>1 DEF Dismiss, DismissActive, DismissQueued
    <3> QED BY <1>1, <3>2, PromotedIsBestOfLive
  <2>3. CASE DismissAll
    <3>1. PromoteFrom(Kept, {})
      BY <1>1, <2>3 DEF DismissAll
    <3> QED BY <1>1, <3>1, PromotedIsBestOfLive
  <2>4. CASE Clear
    BY <1>1, <2>4 DEF Clear, Show
  <2>5. CASE Tick
    <3>1. PromoteFrom(queued, {})
      BY <1>1, <2>5 DEF Tick
    <3> QED BY <1>1, <3>1, PromotedIsBestOfLive
  <2>6. CASE UNCHANGED active
    BY <1>1, <2>6
  <2> QED BY <1>1, <2>1, <2>2, <2>3, <2>4, <2>5, <2>6 DEF Next, Client, Elapse, vars
<1>2. IInv /\ TypeOK' /\ [Next]_vars
        => [~Outranked /\ active' # None
              /\ (active = None \/ active.sequence # active'.sequence)
              => IsBest(active', Live')]_vars
  BY <1>1
<1> QED BY <1>2, IInvHolds, TypeCorrectness, PTL DEF Spec, ShownInOrder
=============================================================================
