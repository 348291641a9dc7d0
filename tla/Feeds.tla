-------------------------------- MODULE Feeds --------------------------------
(***************************************************************************)
(* What scripts fetch: a script asks for a feed whenever it draws, a       *)
(* schedule shared by all scripts fetches one feed at a time through one   *)
(* client, and a detached thread per fetch hands its result over through a *)
(* block that only the two of them know.                                   *)
(*                                                                         *)
(* A script may be replaced or deleted, and its feeds with it; one that    *)
(* failed never runs again, but its feeds are fetched on.  A thread may    *)
(* answer, fail or never come back.  A body is named by the address it is  *)
(* of.  Times are in ticks; a wait below zero has been due for that long,  *)
(* and what is due for longer than Overdue is not told apart.              *)
(***************************************************************************)
EXTENDS Integers, Sequences, FiniteSets

CONSTANTS
  Scripts,
  Urls,
  Wanted,           \* the addresses each script asks for, and how often
  MinInterval,      \* kMinIntervalMillis
  MaxInterval,      \* kMaxIntervalMillis
  FeedsPerScript,   \* kMaxFeedsPerScript
  FeedsInAll,       \* kMaxFeedsTotal
  Timeout,          \* kFetchTimeoutMillis
  Backoff,          \* kFailureBackoffMillis
  MaxThreads,       \* bound: more threads than this cannot be started
  Overdue,          \* bound
  MaxEdits          \* bound on scripts put and deleted

VARIABLES
  scripts,    \* the ids that hold a script
  feeds,      \* feeds_
  running,    \* running_, counted from one; zero for none
  age,        \* since startedMillis_
  client,     \* stage_, and the exchange it shares with a thread
  threads,    \* every thread that has not come back
  up,         \* networkUp_
  since,      \* for each script and address, ticks since a fetch began,
              \* up to MinInterval
  excused,    \* those that an edit lets be fetched again before their time
  edits

vars == <<scripts, feeds, running, age, client, threads, up, since, excused, edits>>
history == <<since, excused>>

(* No script may ask for less than the shortest interval, and a fetch that *)
(* failed is not tried again before it either.                             *)
FeedsAssumption ==
  /\ MinInterval \in Nat \ {0} /\ MaxInterval \in Nat /\ MinInterval <= MaxInterval
  /\ Backoff \in Nat /\ MinInterval <= Backoff
  /\ Timeout \in Nat /\ Overdue \in Nat /\ FeedsInAll \in Nat
  /\ \A s \in Scripts : Wanted[s] \subseteq [url : Urls, interval : Int]

Wishes == {p \in Scripts \X Urls : \E wish \in Wanted[p[1]] : wish.url = p[2]}

Idle == [stage |-> "idle", exchange |-> 0, body |-> "none", status |-> "none"]

TypeOK ==
  /\ scripts \subseteq Scripts
  /\ Len(feeds) <= FeedsInAll
  /\ running \in 0..Len(feeds)
  /\ age \in 0..Timeout
  /\ client.stage \in {"idle", "running", "done", "failed"}
  /\ \A t \in threads : t.id \in 1..MaxThreads
  /\ up \in BOOLEAN

Init ==
  /\ scripts = Scripts
  /\ feeds = <<>>
  /\ running = 0
  /\ age = 0
  /\ client = Idle
  /\ threads = {}
  /\ up \in BOOLEAN
  /\ since = [p \in Wishes |-> MinInterval]
  /\ excused = {}
  /\ edits = 0

-----------------------------------------------------------------------------
Places(s) == {i \in 1..Len(feeds) : feeds[i].script = s}
Held(s, u) == \E i \in Places(s) : feeds[i].url = u

(* dueMillis of a feed that was never fetched. *)
Never == -Overdue - 1

Clamp(interval) ==
  IF interval < MinInterval THEN MinInterval
  ELSE IF interval > MaxInterval THEN MaxInterval ELSE interval

NewFeed(s, u, interval) ==
  [script |-> s, url |-> u, interval |-> interval, wait |-> Never,
   body |-> "none"]

(* Where the feed of an address is. *)
Place(s, u) == CHOOSE i \in Places(s) : feeds[i].url = u

(* follow, of a feed that is not held: due at once, if there is room.      *)
Begun(s, u, interval) ==
  IF Cardinality(Places(s)) >= FeedsPerScript \/ Len(feeds) >= FeedsInAll THEN feeds
  ELSE Append(feeds, NewFeed(s, u, interval))

(* Fault: a feed that is to be fetched more often is fetched at once. *)
FollowSooner(s, u, interval) ==
  IF ~Held(s, u) THEN Begun(s, u, interval)
  ELSE LET f == feeds[Place(s, u)]
       IN  [feeds EXCEPT ![Place(s, u)].interval = interval,
                         ![Place(s, u)].wait = IF interval < f.interval THEN 0 ELSE @]

(* follow: asking again changes how often, not when next. *)
Follow(s, u, interval) ==
  IF ~Held(s, u) THEN Begun(s, u, interval)
  ELSE [feeds EXCEPT ![Place(s, u)].interval = interval]

(* The entries at some places, in the order they had. *)
Kept(seq, places) ==
  LET upto[n \in 0..Len(seq)] ==
        IF n = 0 THEN <<>>
        ELSE IF n \in places THEN Append(upto[n - 1], seq[n]) ELSE upto[n - 1]
  IN  upto[Len(seq)]

Others(s) == Kept(feeds, DOMAIN feeds \ Places(s))

(* Fault: the place of the fetch in flight is left as it is. *)
ForgetKeepsPlace(s) ==
  /\ feeds' = Others(s)
  /\ UNCHANGED <<running, client>>

(* forget: the feeds of a script go; whatever is in flight is abandoned,   *)
(* because its place may have moved.                                       *)
Forget(s) ==
  IF Places(s) = {} THEN UNCHANGED <<feeds, running, client>>
  ELSE feeds' = Others(s) /\ running' = 0 /\ client' = Idle

(* What an edit lets be fetched before its time: what the edited script    *)
(* asks for, and whatever was in flight, of another script too, because it *)
(* stays due.                                                              *)
InFlight == IF running > 0 THEN {<<feeds[running].script, feeds[running].url>>} ELSE {}

Excuse(s) ==
  /\ LET anew == {p \in Wishes : p[1] = s} \cup IF Places(s) # {} THEN InFlight ELSE {}
     IN  excused' = {p \in excused \cup anew : since[p] < MinInterval}
  /\ UNCHANGED since

(* ScriptStore::put: a fresh interpreter; a replaced script is forgotten.  *)
Put(s) ==
  /\ edits < MaxEdits
  /\ edits' = edits + 1
  /\ scripts' = scripts \cup {s}
  /\ IF s \in scripts THEN Forget(s) /\ Excuse(s)
     ELSE UNCHANGED <<feeds, running, client, history>>
  /\ UNCHANGED <<age, threads, up>>

(* ScriptStore::remove. *)
Remove(s) ==
  /\ edits < MaxEdits
  /\ edits' = edits + 1
  /\ s \in scripts
  /\ scripts' = scripts \ {s}
  /\ Forget(s) /\ Excuse(s)
  /\ UNCHANGED <<age, threads, up>>

(* ScriptHost::draw or button: the script asks for a feed.                 *)
Run(s) ==
  /\ s \in scripts
  /\ \E wish \in Wanted[s] : feeds' = Follow(s, wish.url, Clamp(wish.interval))
  /\ UNCHANGED <<scripts, running, age, client, threads, up, history, edits>>

-----------------------------------------------------------------------------
(* collect: how a fetch in flight ends, with what its feed becomes. *)
After(feed, c) ==
  CASE c.stage = "done" /\ c.status = "ok" ->
         [feed EXCEPT !.body = c.body, !.wait = feed.interval]
    [] c.stage = "done" /\ c.status = "error" ->
         [feed EXCEPT !.wait = feed.interval]
    [] OTHER -> [feed EXCEPT !.wait = Backoff]

(* The backstop for a thread that never comes back. *)
Ended(c, old) == c.stage \in {"done", "failed"} \/ (c.stage = "running" /\ old >= Timeout)

(* start: whichever feed has been due longest; one that was never fetched   *)
(* before any that was.  Which of those due as long is left open.          *)
Due(queue) == {i \in 1..Len(queue) : queue[i].wait <= 0}

(* Fault: the first that is due. *)
FirstDue(queue) == {i \in Due(queue) : \A j \in Due(queue) : i <= j}

Longest(queue) == {i \in Due(queue) : \A j \in Due(queue) : queue[i].wait <= queue[j].wait}

(* How long each feed has been waiting for, d later. *)
Older(d) ==
  [i \in 1..Len(feeds) |->
     [feeds[i] EXCEPT !.wait = IF @ - d >= -Overdue THEN @ - d ELSE @]]

AgeAfter(d) == IF running > 0 /\ age + d <= Timeout THEN age + d ELSE age
ExcusedAfter(d) == {p \in excused : since[p] + d < MinInterval}
SinceAfter(d) == [p \in Wishes |-> IF since[p] + d <= MinInterval THEN since[p] + d ELSE since[p]]

Rest(queue, d) ==
  /\ feeds' = queue /\ running' = 0 /\ client' = Idle
  /\ age' = 0
  /\ since' = SinceAfter(d) /\ excused' = ExcusedAfter(d)
  /\ UNCHANGED threads

(* begin: a thread of its own for each fetch; which one does not matter.   *)
Free == 1..MaxThreads \ {t.id : t \in threads}

Begin(queue, i, d) ==
  \E id \in Free :
    /\ \A other \in Free : id <= other
    /\ feeds' = queue
    /\ running' = i
    /\ client' = [stage |-> "running", exchange |-> id, body |-> "none", status |-> "none"]
    /\ threads' = threads \cup {[id |-> id, url |-> queue[i].url]}
    /\ age' = 0
    /\ since' = [SinceAfter(d) EXCEPT ![<<queue[i].script, queue[i].url>>] = 0]
    /\ excused' = ExcusedAfter(d) \ {<<queue[i].script, queue[i].url>>}

(* begin may refuse: no TLS in this build, no thread to be had.            *)
Start(queue, d) ==
  IF Due(queue) = {} \/ ~up THEN Rest(queue, d)
  ELSE \E i \in Longest(queue) :
    \/ Begin(queue, i, d)
    \/ Rest([queue EXCEPT ![i].wait = Backoff], d)

(* tick, d after the last: what has ended is put away, and then the next   *)
(* is begun.                                                               *)
Tick(d) ==
  /\ IF running = 0 THEN Start(Older(d), d)
     ELSE IF Ended(client, AgeAfter(d))
       THEN Start([Older(d) EXCEPT ![running] = After(@, client)], d)
     ELSE /\ feeds' = Older(d)
          /\ age' = AgeAfter(d)
          /\ since' = SinceAfter(d) /\ excused' = ExcusedAfter(d)
          /\ UNCHANGED <<running, client, threads>>
  /\ UNCHANGED <<scripts, up, edits>>

(* A thread comes back, with an answer or without; if its exchange was     *)
(* given up, nobody looks.                                                 *)
Return(t) ==
  /\ threads' = threads \ {t}
  /\ IF client.stage = "running" /\ client.exchange = t.id
     THEN client' \in {[client EXCEPT !.stage = "done", !.status = "ok", !.body = t.url],
                       [client EXCEPT !.stage = "done", !.status = "error"],
                       [client EXCEPT !.stage = "failed"]}
     ELSE UNCHANGED client
  /\ UNCHANGED <<scripts, feeds, running, age, up, history, edits>>

Network ==
  /\ up' = ~up
  /\ UNCHANGED <<scripts, feeds, running, age, client, threads, history, edits>>

Next ==
  \/ \E s \in Scripts : Put(s) \/ Remove(s) \/ Run(s)
  \/ \E d \in {0, 1} : Tick(d)
  \/ Network
  \/ \E t \in threads : Return(t)

(* Frames follow one another and time passes, never so much between two    *)
(* that a feed is waited for twice; a thread need never return.            *)
Spec == Init /\ [][Next]_vars /\ WF_vars(Tick(1))

-----------------------------------------------------------------------------
(* Whatever is edited while a fetch is in flight, and whenever an          *)
(* abandoned thread comes back, the body a script reads came from the      *)
(* address it asked for.                                                   *)
BodiesAreTheirOwn ==
  \A i \in 1..Len(feeds) : feeds[i].body \in {"none", feeds[i].url}

(* No feed is asked for more often than the shortest interval allows: not  *)
(* by a script that asks again and again for less, and not when it fails;  *)
(* unless an edit of the script, or one that cut off the fetch, lets it be *)
(* asked for anew.  The last tick may pass in the very step that begins    *)
(* the fetch.                                                              *)
NobodyIsHammered ==
  [][threads' \ threads # {}
     => LET p == <<feeds'[running'].script, feeds'[running'].url>>
        IN  p \in excused \/ since[p] >= MinInterval - 1]_vars

(* IScriptHttp.h:34: "The floor on how often a URL is re-fetched, whatever *)
(* a script asks".  It is one for each script that asks for the URL.       *)
UrlsAreSpared ==
  [][\A t \in threads' \ threads, p \in Wishes :
       p[2] = t.url => p \in excused \/ since[p] >= MinInterval - 1]_vars

(* ScriptFetcher.cpp:101-102: "A fetch already in flight for this script   *)
(* is abandoned"; so is one for another script, and asked for again.       *)
OthersAreLeftAlone ==
  [][\A s \in Scripts : Put(s) \/ Remove(s) => InFlight \subseteq {s} \X Urls \/ running' > 0]_vars

(* Every feed has its turn as long as there is a network, although threads *)
(* may never come back and other feeds ask to be fetched more often.       *)
EveryFeedHasItsTurn ==
  \A p \in Wishes :
    <>[]up => []<>(\A i \in Places(p[1]) : feeds[i].url = p[2] => feeds[i].wait > 0)

(* Tc002HttpClient.cpp:66-67: "only one fetch runs at a time anyway". *)
OneFetchAtATime == \A t, other \in threads : t = other

(* ScriptFetcher.h:46-48: the wait after a failure is "longer than the     *)
(* interval on purpose".                                                   *)
FailureWaitsLonger ==
  [][\A i \in 1..Len(feeds) :
       running = i /\ client.stage = "failed" /\ running' # i /\ UNCHANGED scripts
       => feeds'[i].wait >= feeds'[i].interval]_vars
=============================================================================
