------------------------------ MODULE MCRemote ------------------------------
(* What the device does with others of its own accord, on small instances.  *)
(* In each part of the behaviours one of four moves and the others rest:    *)
(* "mqtt" (its connection to a broker), "topics" (what scripts hear and say *)
(* there), "feeds" or "turns" (what they fetch) and "fetch" (one thread of  *)
(* those, byte by byte).                                                    *)
(*                                                                          *)
(* Mqtt: one password.  Feeds: two scripts, of which one asks now and then  *)
(* more often.  Topics: every filter of one or two levels, usable or not,   *)
(* against every topic of one or two and some of three.                     *)
EXTENDS Remote, Integers, TLC

CONSTANTS script1, script2

VARIABLES
  part,
  site, phase, conf, queried, preferred, reply, left, parser, total, result, cut, fetches

OneLong == [s \in Secrets |-> 1]

Wish(u, i) == [url |-> u, interval |-> i]
SomeWanted == (script1 :> {Wish("weather", 1), Wish("news", 1)})
              @@ (script2 :> {Wish("weather", 1), Wish("weather", 3)})

Ask(feed) == <<feed.script, feed.url, feed.interval>>
InTurn == <<<<script1, "weather", 2>>, <<script1, "news", 2>>, <<script2, "weather", 2>>>>

Bytes(n) == [i \in 1..n |-> <<"byte", i>>]
Plain == [status |-> 200, headers |-> <<>>, framing |-> "close", declared |-> 0,
          chunks |-> <<Bytes(1)>>, extension |-> 0, crlf |-> TRUE]
WithLength(n, body) == [Plain EXCEPT !.framing = "length", !.declared = n, !.chunks = <<body>>]
Chunks(chunks) == [Plain EXCEPT !.framing = "chunked", !.chunks = chunks]

\* Bodies with, without and beside a length, one byte longer than what is kept,
\* longer than a transfer, shorter or longer than announced, with an end of line
\* inside a chunk, or none at all; chunks that end with a transfer and beyond it,
\* and extensions as long as may be and longer; headers that may be too long and
\* that are, and replies that are none.
SomeReplies ==
  {[WithLength(2, Bytes(2)) EXCEPT !.headers = <<<<"other", 0>>>>, !.crlf = FALSE],
   WithLength(3, Bytes(2)), WithLength(5, Bytes(5)), WithLength(1, Bytes(2)),
   [Chunks(<<<<<<"byte", 1>>, <<"cr", 0>>, <<"lf", 0>>>>, Bytes(2)>>) EXCEPT !.status = 500],
   [Chunks(<<Bytes(2)>>) EXCEPT !.headers = <<<<"length", 1>>>>, !.crlf = FALSE],
   [Plain EXCEPT !.chunks = <<Bytes(5)>>], Plain,
   [Plain EXCEPT !.status = 204, !.chunks = <<>>],
   WithLength(20, Bytes(20)), Chunks(<<Bytes(9), Bytes(2)>>), Chunks(<<Bytes(2), Bytes(12)>>),
   [Chunks(<<Bytes(1)>>) EXCEPT !.extension = 4], [Chunks(<<Bytes(1)>>) EXCEPT !.extension = 6],
   [Plain EXCEPT !.headers = [i \in 1..2 |-> <<"other", 0>>]],
   [Plain EXCEPT !.headers = [i \in 1..4 |-> <<"other", 0>>]],
   [Plain EXCEPT !.headers = <<<<"junk", 0>>>>],
   [Plain EXCEPT !.status = 0]}

Answered(own, records) ==
  [own |-> own, response |-> TRUE, short |-> FALSE, code |-> "ok", records |-> records]

H == INSTANCE Fetch WITH
       Replies <- SomeReplies, Servers <- {"ns1", "ns2"}, Public <- "public",
       Confs <- {<<>>, <<"ns1", "v6", "ns1", "ns2">>, <<"ns2">>},
       Messages <- {Answered(TRUE, <<"cname", "a">>), Answered(FALSE, <<"a">>)},
       MaxNameservers <- 3, MaxBody <- 4, MaxHeader <- 16, MaxTransfer <- 22,
       MaxSizeLine <- 6, Piece <- 3, MaxFetches <- 2, asked <- queried

Levels == {"home", "+", "#", ""}
Names == {"home", "$sys", ""}
SomeFilters ==
  {<<x>> : x \in Levels} \cup {<<x, y>> : x \in Levels \ {""}, y \in Levels}
  \cup {<<"", "home">>, <<"$sys", "#">>, <<"ho+", "home">>}
SomeLeaves == {<<"state">>, <<"state", "+">>, <<"..", "..", "status">>}
SomeTopics ==
  {<<x>> : x \in Names \ {""}} \cup {<<x, y>> : x, y \in Names}
  \cup {<<"home", "home", x>> : x \in Names}

mqtt == <<settings, service, watches, linked, connection, inbox, broker, lost, faults, changes>>
polls == <<loaded, feeds, running, age, client, threads, up, since, excused, replacements>>
fetch == <<site, phase, conf, queried, preferred, reply, left, parser, total, result, cut,
           fetches>>
topics == <<list, linkedScripts, clock, subscribed, calling, said, messages, newest, asks>>
vars == <<part, mqtt, topics, polls, fetch>>

Init ==
  /\ M!Init /\ F!Init /\ H!Init /\ T!Init
  /\ part \in {"mqtt", "topics", "feeds", "turns", "fetch"}
  /\ part # "turns" => up
  /\ part # "mqtt" => settings = [enabled |-> FALSE, secret |-> "secret", discovery |-> FALSE]
  /\ part # "fetch" => conf = <<>> /\ reply = Plain

Mqtt(A) == part = "mqtt" /\ A /\ UNCHANGED <<part, topics, polls, fetch>>
Polls(A) == A /\ UNCHANGED <<part, mqtt, topics, fetch>>

\* Of the feeds, in one part two of different addresses with every edit, while
\* the network stays; in the other three, two of one address, that are followed
\* in one order, never edited, and answered with errors, or not at all.
Feeds(A) ==
  /\ part = "feeds"
  /\ Polls(A)
  /\ up'
  /\ \A i \in DOMAIN feeds' : feeds'[i].script = script1 => feeds'[i].url = "news"
Turns(A) ==
  /\ part = "turns"
  /\ Polls(A)
  /\ replacements' = 0 /\ client'.status # "ok"
  /\ \A i \in DOMAIN feeds' : Ask(feeds'[i]) = InTurn[i]
Fetches(A) == part = "fetch" /\ A /\ UNCHANGED <<part, mqtt, topics, polls>>
Listens(A) == part = "topics" /\ A /\ UNCHANGED <<part, mqtt, polls, fetch>>

Next == Mqtt(M!Next) \/ Feeds(F!Next) \/ Turns(F!Next) \/ Fetches(H!Next) \/ Listens(T!Next)

Spec ==
  /\ Init /\ [][Next]_vars
  /\ WF_vars(Mqtt(M!Tick)) /\ WF_vars(Mqtt(M!Write)) /\ WF_vars(Mqtt(M!Ended))
  /\ SF_vars(Mqtt(M!Join)) /\ SF_vars(Mqtt(M!Read))
  /\ WF_vars(Mqtt(M!Recover)) /\ WF_vars(Mqtt(M!Notice))
  /\ WF_vars(Feeds(F!Tick(1))) /\ WF_vars(Turns(F!Tick(1)))

ComesBack == part = "mqtt" => M!ComesBack
OfflineIsSaid == M!OfflineIsSaid
EveryFeedHasItsTurn == part \in {"feeds", "turns"} => F!EveryFeedHasItsTurn
AcceptedFiltersHear == T!AcceptedFiltersHear
=============================================================================
