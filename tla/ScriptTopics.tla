---------------------------- MODULE ScriptTopics ----------------------------
(***************************************************************************)
(* What scripts hear from a broker and what they say to it: the gateway's  *)
(* list of watches with the last message of each, the rules for filters    *)
(* and for names, the walk that decides which watch a message belongs to,  *)
(* and the number of messages of one call.                                 *)
(*                                                                         *)
(* A topic, a filter or a leaf is the sequence of its levels, the texts    *)
(* between the slashes.  Of a payload only the number of its message is    *)
(* kept, so that what is cut off beyond its limit is left out.  How a      *)
(* connection is kept up, and that every watch is subscribed on it, is in  *)
(* Mqtt; here the connection comes and goes.                               *)
(***************************************************************************)
EXTENDS Naturals, Sequences, FiniteSets

CONSTANTS
  Scripts,
  Filters,             \* what scripts ask for, usable or not
  Leaves,              \* what they publish to, usable or not
  Topics,              \* what others publish to
  Dollar,              \* levels that begin with $
  Mixed,               \* levels with a wildcard and something else
  Unusable,            \* levels that do not print, or are too long
  WatchesPerScript,    \* kMaxWatchesPerScript
  WatchesInAll,        \* kMaxWatchesTotal
  PublishesPerCall,    \* kMaxPublishesPerCall
  MaxAsks,             \* bound on the watches accepted
  MaxMessages,         \* bound on the messages that arrive
  MaxNow               \* bound on the clock

VARIABLES
  watches,      \* watches_ of the gateway
  linked,       \* its connected_
  now,          \* its now_
  subscribed,   \* the filters the broker holds for this connection
  call,         \* the script that runs, and its publishes
  said,         \* the topics the call has published to
  messages,     \* how many messages have arrived
  newest,       \* for each script and each filter it asked for, the last message
                \* the standard gives it since then
  asks

vars == <<watches, linked, now, subscribed, call, said, messages, newest, asks>>

Wildcards == {"+", "#"}

(* Everything that is named has a level.  An id of a script is made of     *)
(* small letters, digits, dashes and underscores (validScriptId).          *)
TopicsAssumption ==
  /\ Filters \cup Topics \cup Leaves \subseteq Seq(STRING) \ {<<>>}
  /\ Scripts \cap (Wildcards \cup {".."}) = {}

Last(s) == s[Len(s)]
Has(levels, some) == \E i \in 1..Len(levels) : levels[i] \in some

Nothing == [number |-> 0, at |-> 0]
NoCall == [script |-> "none", publishes |-> 0]

-----------------------------------------------------------------------------

(* An empty level is a slash too many, wherever it is. *)
ValidPublishLeaf(leaf) == ~Has(leaf, {"", ".."} \cup Wildcards \cup Mixed \cup Unusable)

(* A wildcard takes a whole level, and # the last one. *)
ValidWatchFilter(filter) ==
  /\ filter[1] # ""
  /\ ~Has(filter, Mixed \cup Unusable)
  /\ \A i \in 1..Len(filter) - 1 : filter[i] # "#"

(* One level of the filter against the level of the topic beside it. *)
LevelFits(filter, topic, i) ==
  IF filter[i] = "+" THEN ~(i = 1 /\ topic[i] \in Dollar) ELSE filter[i] = topic[i]

(* Fault: a topic is not its own parent. *)
TopicMatchesWithoutParent(filter, topic) ==
  LET Walk[i \in 1..Len(filter)] ==
        \/ filter[i] = "#" /\ ~(i = 1 /\ topic[1] \in Dollar)
        \/ /\ filter[i] # "#" /\ ~(i = Len(filter) /\ filter[i] = "")
           /\ LevelFits(filter, topic, i)
           /\ \/ i = Len(topic) /\ i = Len(filter)
              \/ i < Len(topic) /\ i < Len(filter) /\ Walk[i + 1]
  IN  Walk[1]

(* Level by level.  # takes what is left, at the root nothing of the       *)
(* broker's own; where the topic ends, the filter does too, or has only a  *)
(* # to come.  The walk is over before an empty level at the end of a      *)
(* filter has been looked at, and has found nothing then.                  *)
TopicMatches(filter, topic) ==
  LET Walk[i \in 1..Len(filter)] ==
        \/ filter[i] = "#" /\ ~(i = 1 /\ topic[1] \in Dollar)
        \/ /\ filter[i] # "#" /\ ~(i = Len(filter) /\ filter[i] = "")
           /\ LevelFits(filter, topic, i)
           /\ \/ i = Len(topic) /\ i = Len(filter)
              \/ i = Len(topic) /\ i + 1 = Len(filter) /\ filter[i + 1] = "#"
              \/ i < Len(topic) /\ i < Len(filter) /\ Walk[i + 1]
  IN  Walk[1]

(* The standard's rules, as the broker applies them. *)
Covers(filter, topic) ==
  LET open == Last(filter) = "#"
      levels == IF open THEN Len(filter) - 1 ELSE Len(filter)
  IN
  /\ IF open THEN Len(topic) >= levels ELSE Len(topic) = levels
  /\ \A i \in 1..levels : filter[i] \in {"+", topic[i]}
  /\ filter[1] \in Wildcards => topic[1] \notin Dollar

-----------------------------------------------------------------------------
Of(s) == {i \in 1..Len(watches) : watches[i].script = s}
Find(s, f) == {i \in Of(s) : watches[i].filter = f}

Init ==
  /\ watches = <<>>
  /\ linked = FALSE
  /\ now = 0
  /\ subscribed = {}
  /\ call = NoCall
  /\ said = {}
  /\ messages = 0
  /\ newest = <<>>
  /\ asks = 0

(* A script is entered with a budget of its own. *)
Enter(s) ==
  /\ call = NoCall
  /\ call' = [script |-> s, publishes |-> 0]
  /\ UNCHANGED <<watches, linked, now, subscribed, said, messages, newest, asks>>

Leave ==
  /\ call # NoCall
  /\ call' = NoCall
  /\ said' = {}
  /\ UNCHANGED <<watches, linked, now, subscribed, messages, newest, asks>>

(* A usable filter that is not watched yet, while there is room for it. *)
MayWatch(s, f) ==
  /\ ValidWatchFilter(f) /\ Find(s, f) = {}
  /\ Cardinality(Of(s)) < WatchesPerScript /\ Len(watches) < WatchesInAll

(* b_mqtt_watch: with a connection the subscription follows at once. *)
Watch(f) ==
  LET s == call.script IN
  /\ call # NoCall /\ asks < MaxAsks
  /\ MayWatch(s, f)
  /\ watches' = Append(watches, [script |-> s, filter |-> f, seen |-> FALSE,
                                 payload |-> 0, arrived |-> 0])
  /\ subscribed' = IF linked THEN subscribed \cup {f} ELSE subscribed
  /\ newest' = [p \in DOMAIN newest \cup {<<s, f>>} |->
                 IF p = <<s, f>> THEN Nothing ELSE newest[p]]
  /\ asks' = asks + 1
  /\ UNCHANGED <<linked, now, call, said, messages>>

(* publish of the gateway: now, or not at all. *)
Sent(s, leaf) ==
  IF linked /\ ValidPublishLeaf(leaf) THEN {<<"base", "script", s>> \o leaf} ELSE {}

(* b_mqtt_publish: an attempt is counted, whatever becomes of it. *)
Publish(leaf) ==
  /\ call # NoCall /\ call.publishes < PublishesPerCall
  /\ call' = [call EXCEPT !.publishes = @ + 1]
  /\ said' = said \cup Sent(call.script, leaf)
  /\ UNCHANGED <<watches, linked, now, subscribed, messages, newest, asks>>

(* latest of the gateway: the watch, if anything has arrived for it. *)
Seen(s, f) == {i \in Find(s, f) : watches[i].seen}

(* b_mqtt_get and b_mqtt_age_ms: nothing known is not an empty text. *)
Latest(s, f) ==
  IF Seen(s, f) = {} THEN [known |-> FALSE]
  ELSE LET w == watches[CHOOSE i \in Seen(s, f) : TRUE]
       IN  [known |-> TRUE, payload |-> w.payload, age |-> now - w.arrived]

(* The entries at some places, in the order they had. *)
Kept(seq, places) ==
  LET upto[n \in 0..Len(seq)] ==
        IF n = 0 THEN <<>>
        ELSE IF n \in places THEN Append(upto[n - 1], seq[n]) ELSE upto[n - 1]
  IN  upto[Len(seq)]

(* A script is replaced or deleted: what the broker holds stays. *)
Forget(s) ==
  /\ call = NoCall
  /\ Of(s) # {}
  /\ watches' = Kept(watches, DOMAIN watches \ Of(s))
  /\ newest' = [p \in {p \in DOMAIN newest : p[1] # s} |-> newest[p]]
  /\ UNCHANGED <<linked, now, subscribed, call, said, messages, asks>>

(* deliver: every watch that matches keeps it. *)
Deliver(topic) ==
  /\ messages' = messages + 1
  /\ watches' = [i \in 1..Len(watches) |->
       IF TopicMatches(watches[i].filter, topic)
       THEN [watches[i] EXCEPT !.seen = TRUE, !.payload = messages', !.arrived = now]
       ELSE watches[i]]
  /\ UNCHANGED <<linked, now, subscribed, call, said, asks>>

(* A message the broker has a subscription for, be it of a script gone. *)
Arrive(topic) ==
  /\ call = NoCall /\ linked /\ messages < MaxMessages
  /\ \E f \in subscribed : Covers(f, topic)
  /\ Deliver(topic)
  /\ newest' = [p \in DOMAIN newest |->
       IF Covers(p[2], topic) THEN [number |-> messages', at |-> now] ELSE newest[p]]

(* The connection comes, and every watch is subscribed on it; it goes, and *)
(* the broker forgets them.                                                *)
SetConnected(up) ==
  /\ call = NoCall /\ linked # up
  /\ linked' = up
  /\ subscribed' = IF up THEN {watches[i].filter : i \in 1..Len(watches)} ELSE {}
  /\ UNCHANGED <<watches, now, call, said, messages, newest, asks>>

SetNow ==
  /\ call = NoCall /\ now < MaxNow
  /\ now' = now + 1
  /\ UNCHANGED <<watches, linked, subscribed, call, said, messages, newest, asks>>

Next ==
  \/ \E s \in Scripts : Enter(s) \/ Forget(s)
  \/ \E f \in Filters : Watch(f)
  \/ \E leaf \in Leaves : Publish(leaf)
  \/ \E topic \in Topics : Arrive(topic)
  \/ \E up \in BOOLEAN : SetConnected(up)
  \/ Leave \/ SetNow

Spec == Init /\ [][Next]_vars

-----------------------------------------------------------------------------
TypeOK ==
  /\ \A i \in 1..Len(watches) : watches[i].script \in Scripts /\ watches[i].filter \in Filters
  /\ Len(watches) <= WatchesInAll
  /\ linked \in BOOLEAN
  /\ call.publishes \in 0..PublishesPerCall

(* What a script reads of a watch is the newest message the standard gives *)
(* its filter since it asked, and how old that is; nothing, if there was   *)
(* none.  Connections, other scripts that come and go, and subscriptions   *)
(* left behind by them make no difference.                                 *)
Hears(s, f) ==
  Latest(s, f) = IF newest[<<s, f>>] = Nothing THEN [known |-> FALSE]
                 ELSE [known |-> TRUE, payload |-> newest[<<s, f>>].number,
                       age |-> now - newest[<<s, f>>].at]

WatchersHear ==
  \A p \in DOMAIN newest : Last(p[2]) # "" => Hears(p[1], p[2])

(* "A script that wrote it would sit there showing nothing for ever with   *)
(* no error anywhere" (ScriptMqtt.cpp:86-89): no filter that is accepted   *)
(* does.  TLC refutes it for one that ends with a slash.                   *)
AcceptedFiltersHear == \A p \in DOMAIN newest : Hears(p[1], p[2])

(* Where a path leads that takes a level of two dots for the one above. *)
LeadsTo(topic) ==
  LET At[i \in 0..Len(topic)] ==
        IF i = 0 THEN <<>>
        ELSE IF topic[i] # ".." THEN Append(At[i - 1], topic[i])
        ELSE IF At[i - 1] = <<>> THEN <<>> ELSE SubSeq(At[i - 1], 1, Len(At[i - 1]) - 1)
  IN  At[Len(topic)]

(* What a script says is under its own id, also for those downstream who   *)
(* take a topic for a path, and is the name of one topic.                  *)
SaidStaysInside ==
  \A topic \in said :
    LET way == LeadsTo(topic) IN
    /\ Len(way) >= 4 /\ SubSeq(way, 1, 3) = SubSeq(topic, 1, 3)
    /\ ~Has(topic, Wildcards)

(* Both: scripts hear what they watch and say what is theirs to say. *)
TopicsAreTheirs == WatchersHear /\ SaidStaysInside
=============================================================================
