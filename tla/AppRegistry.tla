---------------------------- MODULE AppRegistry ----------------------------
(***************************************************************************)
(* The ordered collection of apps (app::AppRegistry), as operators on a    *)
(* sequence of app records.  Positions are counted from 1 and 0 stands for *)
(* the code's index -1, "not there".                                       *)
(*                                                                         *)
(* An app is [id, source, enabled, deadline]: the deadline (expiresAtMillis)*)
(* is none, ahead or past, and counts for Temporary apps only.  Names,     *)
(* scenes and durations do not matter to any property and are left out.    *)
(***************************************************************************)
EXTENDS Integers, Sequences, SequencesExt

CONSTANT MaxApps  \* kMaxApps

MaxAppsAssumption == MaxApps \in Nat \ {0}

Sources == {"system", "remote", "temporary", "local", "integration"}

Deadlines == {"none", "ahead", "past"}

Apps(ids) == [id: ids, source: Sources, enabled: BOOLEAN, deadline: Deadlines]

-----------------------------------------------------------------------------
Ids(apps) == {apps[i].id : i \in DOMAIN apps}

PositionOf(apps, id) ==
  IF id \in Ids(apps) THEN CHOOSE i \in DOMAIN apps : apps[i].id = id ELSE 0

Find(apps, id) == apps[PositionOf(apps, id)]

IsEnabled(apps, id) == \E i \in DOMAIN apps : apps[i].id = id /\ apps[i].enabled

Offered(apps) == {id \in Ids(apps) : IsEnabled(apps, id)}

(* put: replace in place, or append while there is room (else refused). *)
Put(apps, app) ==
  IF app.id \in Ids(apps)
  THEN [apps EXCEPT ![PositionOf(apps, app.id)] = app]
  ELSE IF Len(apps) < MaxApps THEN Append(apps, app) ELSE apps

(* The entries at some places, in the order they had: SelectSeq, by the    *)
(* places instead of by a test (remove_if of the C++ library).             *)
Kept(seq, places) ==
  IF places = DOMAIN seq THEN seq ELSE
  LET upto[n \in 0..Len(seq)] ==
        IF n = 0 THEN <<>>
        ELSE IF n \in places THEN Append(upto[n - 1], seq[n]) ELSE upto[n - 1]
  IN  upto[Len(seq)]

Without(apps, id) == Kept(apps, {i \in DOMAIN apps : apps[i].id # id})

Move(apps, id, position) ==
  IF position \in DOMAIN apps /\ id \in Ids(apps)
  THEN InsertAt(Without(apps, id), position, Find(apps, id))
  ELSE apps

SetEnabled(apps, id, enabled) ==
  [i \in DOMAIN apps |->
     IF apps[i].id = id THEN [apps[i] EXCEPT !.enabled = enabled] ELSE apps[i]]

(* clear keeps the System apps. *)
SystemOnly(apps) == Kept(apps, {i \in DOMAIN apps : apps[i].source = "system"})

Expire(apps) ==
  Kept(apps, {i \in DOMAIN apps : ~(apps[i].source = "temporary" /\ apps[i].deadline = "past")})

(* applyStoredAppOrder: each app named moves to the front of the remainder *)
(* and takes the stored switch; names of absent apps are passed over.      *)
ApplyOrder(reg, wanted) ==
  LET known == Kept(wanted, {i \in DOMAIN wanted : wanted[i].id \in Ids(reg)})
      Placed[k \in 0..Len(known)] ==
        IF k = 0 THEN reg
        ELSE SetEnabled(Move(Placed[k-1], known[k].id, k), known[k].id, known[k].enabled)
  IN  Placed[Len(known)]

(* The position reached from one place in the ring after some steps in a   *)
(* direction (1 or -1); the whole ring is walked, so a lone enabled app    *)
(* finds itself.                                                           *)
Around(apps, from, steps) == ((from - 1 + steps) % Len(apps)) + 1

FirstEnabledAround(apps, from, direction) ==
  LET hits == {k \in DOMAIN apps : apps[Around(apps, from, direction * k)].enabled}
  IN  IF hits = {} THEN 0 ELSE Around(apps, from, direction * Min(hits))

(* Faults: the walk restarts at the head of the list; or it steps from the *)
(* app before.                                                             *)
NextFromTheHead(apps, from)    == FirstEnabledAround(apps, 0, 1)
PreviousOfPrevious(apps, from) == FirstEnabledAround(apps, from - 1, -1)

NextEnabled(apps, from)     == FirstEnabledAround(apps, from, 1)
PreviousEnabled(apps, from) == FirstEnabledAround(apps, from, -1)
=============================================================================
