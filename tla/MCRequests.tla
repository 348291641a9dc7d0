----------------------------- MODULE MCRequests -----------------------------
(* Whom the device lets in, on small instances: in one part of the           *)
(* behaviours callers come to its web server, in the other a script that     *)
(* one of them has sent runs.                                                *)
EXTENDS Requests

CONSTANTS caller1, caller2

VARIABLE part

Text(n) == [kind |-> "text", n |-> n]
Number(n) == [kind |-> "number", n |-> n]
TextField == [key |-> "name", type |-> "text", limit |-> 3,
              hasMin |-> FALSE, min |-> 0, hasMax |-> FALSE, max |-> 0, bounded |-> FALSE]
Bounded == [key |-> "speed", type |-> "number", limit |-> 0,
            hasMin |-> TRUE, min |-> 1, hasMax |-> TRUE, max |-> 2, bounded |-> TRUE]
OnlyMin == [Bounded EXCEPT !.key = "count", !.hasMax = FALSE, !.max = 0]

\* A script without any method, one that does not compile, a game that takes
\* every control, and an app that asks for more settings than it has keys.
Bare == [compiles |-> TRUE, draw |-> {"undefined"}, button |-> {"undefined"},
         duration |-> {"undefined"}, fields |-> <<>>, writes |-> {}, input |-> "action",
         catches |-> FALSE]
Typo == [Bare EXCEPT !.compiles = FALSE]
Game == [Bare EXCEPT !.draw = {"handled", "failed"}, !.button = {"handled", "failed"},
                     !.fields = <<Bounded>>, !.writes = {"best"}, !.input = "exclusive"]
Feed == [Bare EXCEPT !.draw = {"handled"}, !.duration = {"handled", "failed"},
                     !.fields = <<TextField, OnlyMin>>, !.writes = {"name"}, !.catches = TRUE]

SomeSources == {Game, Feed, Typo, Bare}
SomeValues == {Text(1), Text(3), Number(1), Number(9)}

Sent(class, size, sense, wants) ==
  [class |-> class, size |-> size, sense |-> sense, login |-> "no password", wants |-> wants]

\* The password is set by a caller that names none; a head that makes no sense
\* with too much behind it; and an upload without the password.
SomeRequests == {Sent("plain", 1, TRUE, "one"), Sent("plain", 2, FALSE, "change"),
                 Sent("image", 2, TRUE, "change")}

BothCallers == {caller1, caller2}

server == <<callers, due, elapsed, password, firstRun>>
all == <<part, vars, server>>

MCInit == part \in {"scripts", "callers"} /\ Init /\ H!Init

Scripts(A) == part = "scripts" /\ A /\ UNCHANGED <<part, server>>
Server(A) == part = "callers" /\ A /\ UNCHANGED <<part, vars>>

MCNext == Scripts(Next) \/ Server(H!Next)

\* The interpreter goes on and the loop polls on; nothing is asked of a script
\* or of a caller.
MCSpec ==
  /\ MCInit /\ [][MCNext]_all
  /\ WF_all(Scripts(Beat)) /\ WF_all(Scripts(Running /\ ~Runs /\ Return))
  /\ WF_all(Server(H!Accept)) /\ SF_all(Server(H!Tick))
  /\ WF_all(Server(H!Service(caller1))) /\ WF_all(Server(H!Service(caller2)))
=============================================================================
