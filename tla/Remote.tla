------------------------------- MODULE Remote -------------------------------
(***************************************************************************)
(* What the device asks of others: its connection to a broker, what        *)
(* scripts hear and say there, and what they fetch.  MqttService brings    *)
(* the connection and hands messages to the gateway of the scripts, whose  *)
(* rules ScriptTopics has and whose watches Mqtt keeps subscribed; feeds   *)
(* go past both, through a client of their own.                            *)
(***************************************************************************)
CONSTANTS
  Secrets, Lengths, Watchable, QueueLimit, MaxDelay, MaxFaults, MaxChanges,    \* of Mqtt
  Scripts,                                                                \* of the others
  Urls, Wanted, MinInterval, MaxInterval, FeedsPerScript, FeedsInAll,     \* of Feeds
  Timeout, Backoff, MaxThreads, Overdue, MaxReplacements,
  Filters, Leaves, Topics, Dollar, Mixed, Unusable,                       \* of ScriptTopics
  WatchesPerScript, WatchesInAll, PublishesPerCall, MaxAsks, MaxMessages, MaxNow

VARIABLES
  settings, service, watches, linked, connection, inbox, broker, lost, faults, changes,
  loaded, feeds, running, age, client, threads, up, since, excused, replacements,
  list, linkedScripts, clock, subscribed, calling, said, messages, newest, asks

M == INSTANCE Mqtt WITH Filters <- Watchable, client <- connection

F == INSTANCE Feeds WITH
       MaxEdits <- MaxReplacements, scripts <- loaded, edits <- replacements

T == INSTANCE ScriptTopics WITH
       watches <- list, linked <- linkedScripts, now <- clock, call <- calling

ASSUME RemoteAssumption == M!MqttAssumption /\ F!FeedsAssumption /\ T!TopicsAssumption

-----------------------------------------------------------------------------
(* On a connection that is settled the broker has what the device wants    *)
(* and says it is online (MqttService::onConnected, ScriptGateway).        *)
SettledIsServed == M!SettledIsServed

(* A body is of the address it was asked of (ScriptFetcher::collect).      *)
BodiesAreTheirOwn == F!BodiesAreTheirOwn

(* No feed is asked for more often than the shortest interval allows,      *)
(* unless an edit lets it (ScriptFetcher::follow, start, forget).          *)
NobodyIsHammered == F!NobodyIsHammered

(* Scripts hear what they watch and say what is theirs to say              *)
(* (ScriptGateway::deliver, topicMatches, validPublishLeaf).               *)
TopicsAreTheirs == T!TopicsAreTheirs
=============================================================================
