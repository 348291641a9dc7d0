-------------------------------- MODULE Http --------------------------------
(***************************************************************************)
(* The web server of the device and the gate in front of its API: a fixed  *)
(* number of connections, read and written a piece at a time between two   *)
(* frames, one request each, and the password asked for when the request   *)
(* is complete.                                                            *)
(*                                                                         *)
(* A caller sends its request in pieces, or stops in the middle, or closes *)
(* its half of the connection, or resets it, or does not read the answer;  *)
(* nothing is assumed of it.  A pass of poll takes in who is waiting, then *)
(* serves every connection once.  Sizes are counted in pieces.             *)
(***************************************************************************)
EXTENDS Naturals, FiniteSets, FiniteSetsExt

CONSTANTS
  Callers,
  Requests,          \* what a caller may send, a set of Request
  Passwords,         \* settings_.web: the passwords that may be set
  Slots,             \* kMaxConnections
  IdleLimit,         \* kIdleTimeoutMillis, in ticks of the clock
  SmallCeiling,      \* kMaxRequestBytes
  UploadCeiling,     \* kMaxUploadBytes
  BodyCeiling,       \* maxBodyBytes of the API
  IconCeiling,       \* maxIconBytes
  ImageCeiling,      \* maxImageBytes
  AnswerSize         \* pieces of an answer

NoPassword == "no password"

(* What is sent: where to, in how many pieces, whether its head can be     *)
(* read, with which password, and what it asks for ("read", "change", or a *)
(* password to be set).                                                    *)
Request ==
  [class: {"page", "plain", "icon", "image", "unknown"}, size: Nat \ {0},
   sense: BOOLEAN, login: Passwords \cup {NoPassword},
   wants: {"read", "change"} \cup Passwords]

(* There are places, everybody sends something, and the ceilings and the   *)
(* patience are numbers.                                                   *)
HttpAssumption ==
  /\ IsFiniteSet(Callers)
  /\ Requests # {} /\ Requests \subseteq Request
  /\ Slots \in Nat /\ IdleLimit \in Nat /\ AnswerSize \in Nat
  /\ SmallCeiling \in Nat /\ UploadCeiling \in Nat

VARIABLES
  callers,    \* what each caller and its connection, if any, are at
  due,        \* connections that this pass of poll has yet to serve
  elapsed,    \* how far the clock moved since the pass before
  password,   \* of settings_.web, or NoPassword
  firstRun    \* firstRun_

vars == <<callers, due, elapsed, password, firstRun>>

Idle(request) ==
  [state |-> "away", request |-> request, sent |-> 0, got |-> 0, ends |-> "open",
   left |-> 0, quiet |-> 0, answer |-> "none"]

(* closeConnection gives the place back, and nothing of the caller is kept. *)
Absent == Idle(CHOOSE request \in Requests : TRUE)

TypeOK ==
  /\ \A c \in Callers :
       /\ callers[c].state \in {"away", "waiting", "open", "answering"}
       /\ callers[c].request \in Requests
       /\ callers[c].got <= callers[c].sent /\ callers[c].sent <= callers[c].request.size
       /\ callers[c].quiet \in 0..IdleLimit + 1
       /\ callers[c].answer \in {"none", "ok", "refused", "malformed", "too large", "denied"}
  /\ due \subseteq Callers
  /\ elapsed \in 0..IdleLimit + 1
  /\ password \in Passwords \cup {NoPassword}
  /\ firstRun \in BOOLEAN

Connected == {c \in Callers : callers[c].state \in {"open", "answering"}}
Waiting == {c \in Callers : callers[c].state = "waiting"}

Init ==
  /\ callers = [c \in Callers |-> Absent]
  /\ due = {}
  /\ elapsed = 0
  /\ password = NoPassword
  /\ firstRun = TRUE

-----------------------------------------------------------------------------
(* The callers, at any moment. *)

Become(c, record) ==
  /\ callers' = [callers EXCEPT ![c] = record]
  /\ UNCHANGED <<due, elapsed, password, firstRun>>

Connect(c) ==
  /\ callers[c].state = "away"
  /\ \E request \in Requests : Become(c, [Idle(request) EXCEPT !.state = "waiting"])

(* What is sent before the connection is taken in waits in the socket. *)
Send(c) ==
  /\ callers[c].state = "open"
  /\ callers[c].ends = "open"
  /\ callers[c].sent < callers[c].request.size
  /\ Become(c, [callers[c] EXCEPT !.sent = @ + 1])

(* No more to come, although the answer would still be read. *)
HalfClose(c) ==
  /\ callers[c].state = "open"
  /\ callers[c].ends = "open"
  /\ Become(c, [callers[c] EXCEPT !.ends = "half"])

Reset(c) ==
  /\ callers[c].state \in {"open", "answering"}
  /\ callers[c].ends # "reset"
  /\ Become(c, [callers[c] EXCEPT !.ends = "reset"])

(* The clock of the device, 15 ms or many seconds between two passes. *)
Tick ==
  /\ due = {}
  /\ elapsed = 0
  /\ elapsed' \in 1..IdleLimit + 1
  /\ UNCHANGED <<callers, due, password, firstRun>>

-----------------------------------------------------------------------------
(* acceptPending: who finds no place is refused at once, not kept waiting. *)
Accept ==
  /\ due = {}
  /\ \E taken \in SUBSET Waiting :
       /\ Cardinality(taken) + Cardinality(Connected) <= Slots
       /\ taken = Waiting \/ Cardinality(taken) + Cardinality(Connected) = Slots
       /\ callers' = [c \in Callers |->
            IF c \in taken THEN [callers[c] EXCEPT !.state = "open"]
            ELSE IF c \in Waiting THEN Absent
            ELSE [callers[c] EXCEPT !.quiet = Min({@ + elapsed, IdleLimit + 1})]]
       /\ due' = Connected \cup taken
  /\ due' # {}
  /\ elapsed' = 0
  /\ UNCHANGED <<password, firstRun>>

Served(c, record) ==
  /\ callers' = [callers EXCEPT ![c] = record]
  /\ due' = due \ {c}
  /\ UNCHANGED elapsed

(* poll, after serving a connection: quiet for too long, it is dropped. *)
Aged(record) == IF record.quiet > IdleLimit THEN Absent ELSE record

(* queueResponse: from here on only the answer counts. *)
Answering(record, answer) ==
  [Absent EXCEPT !.state = "answering", !.left = AnswerSize, !.answer = answer,
                 !.ends = record.ends]

(* Fault: the answer of a slow reader is never given up. *)
WriteWithoutDeadline(c) ==
  /\ callers[c].state = "answering"
  /\ \E pieces \in 0..callers[c].left :
       Served(c, IF pieces = callers[c].left THEN Absent
                 ELSE [callers[c] EXCEPT !.left = @ - pieces, !.quiet = 0])
  /\ UNCHANGED <<password, firstRun>>

(* service, with an answer pending: as many pieces as the caller takes, and *)
(* with the last one the connection ends.                                  *)
Write(c) ==
  /\ callers[c].state = "answering"
  /\ \E pieces \in 0..callers[c].left :
       Served(c, IF pieces = callers[c].left THEN Absent
                 ELSE Aged([callers[c] EXCEPT !.left = @ - pieces,
                                              !.quiet = IF pieces > 0 THEN 0 ELSE @]))
  /\ UNCHANGED <<password, firstRun>>

Close(c) ==
  /\ Served(c, Absent)
  /\ UNCHANGED <<password, firstRun>>

(* send or recv fails: the caller is gone. *)
Broken(c) == callers[c].ends = "reset" /\ Close(c)

-----------------------------------------------------------------------------
(* ceilingFor, by the first line. *)
Ceiling(request) == IF request.class = "image" THEN UploadCeiling ELSE SmallCeiling

(* ApiServer::handle, by the route. *)
ApiCeiling(request) ==
  CASE request.class = "image" -> ImageCeiling
    [] request.class = "icon" -> IconCeiling
    [] OTHER -> BodyCeiling

(* tryParse: the head, and as much of a body as it announces. *)
Whole(record) == record.sent = record.request.size

(* basicAuthorised: one gate for the page and the API, with the password   *)
(* of this moment.                                                         *)
Allowed(request) == password # NoPassword => request.login = password

(* ApiServer::handle: what it does before any handler, and then the handler *)
(* itself, which may refuse.                                               *)
Routed(request) ==
  IF request.size > ApiCeiling(request) THEN {"too large"}
  ELSE IF request.class = "unknown" THEN {"refused"}
  ELSE {"ok", "refused"}

(* ApplicationHost::handle: the gate, the page, the API.  The first change *)
(* that succeeds ends the first run.                                       *)
Handle(c) ==
  LET request == callers[c].request IN
  \E answer \in IF ~Allowed(request) THEN {"denied"}
                ELSE IF request.class = "page" THEN {"ok"} ELSE Routed(request) :
    /\ Served(c, Answering(callers[c], answer))
    /\ password' = IF answer = "ok" /\ request.wants \in Passwords
                   THEN request.wants ELSE password
    /\ firstRun' = (firstRun /\ (answer = "ok" => request.wants = "read"))

Answer(c, answer) ==
  /\ Served(c, Answering(callers[c], answer))
  /\ UNCHANGED <<password, firstRun>>

(* A piece too much is refused without counting as a sign of life: only    *)
(* what fitted, and was read in this pass, may have been one.              *)
Overflow(c) ==
  LET record == callers[c]
      silences == {record.quiet} \cup IF record.got < Ceiling(record.request) THEN {0} ELSE {}
  IN  /\ \E quiet \in silences :
           Served(c, Aged([Answering(record, "too large") EXCEPT !.quiet = quiet]))
      /\ UNCHANGED <<password, firstRun>>

(* service, with nothing to write: everything that has arrived is read.    *)
(* Too much ends it, then the end of what the caller sends, then a request *)
(* that makes no sense, then a whole one; otherwise there is more to come. *)
Read(c) ==
  LET record == callers[c] IN
  /\ record.state = "open"
  /\ IF record.sent > Ceiling(record.request) THEN Overflow(c)
     ELSE IF record.ends = "half" THEN Close(c)
     ELSE IF record.sent > 0 /\ ~record.request.sense THEN Answer(c, "malformed")
     ELSE IF Whole(record) THEN Handle(c)
     ELSE /\ Served(c, Aged([record EXCEPT !.got = record.sent,
                                !.quiet = IF record.sent > record.got THEN 0 ELSE @]))
          /\ UNCHANGED <<password, firstRun>>

(* performRescue empties the password, between two passes. *)
Rescue ==
  /\ due = {}
  /\ password # NoPassword
  /\ password' = NoPassword
  /\ UNCHANGED <<callers, due, elapsed, firstRun>>

Caller(c) == Connect(c) \/ Send(c) \/ HalfClose(c) \/ Reset(c)

Service(c) ==
  /\ c \in due
  /\ Broken(c) \/ (callers[c].ends # "reset" /\ (Write(c) \/ Read(c)))

Next ==
  \/ \E c \in Callers : Caller(c)
  \/ \E c \in Callers : Service(c)
  \/ Accept
  \/ Tick
  \/ Rescue

(* The loop polls on and its clock moves; no caller is asked to do anything. *)
Spec ==
  /\ Init /\ [][Next]_vars
  /\ WF_vars(Accept) /\ SF_vars(Tick)
  /\ \A c \in Callers : WF_vars(Service(c))

-----------------------------------------------------------------------------
(* Whatever a caller does or leaves undone, its place is free again one    *)
(* day: nobody stays connected for ever.                                   *)
NobodyStaysForEver ==
  \A c \in Callers : callers[c].state \in {"open", "answering"} ~> callers[c].state = "away"

(* A caller that sent something the device had not yet read is not dropped *)
(* for having been silent, however long the device itself was busy with    *)
(* other things: it is read first, and its age counted after.  (The one    *)
(* who sends more than may be kept is: see NeverClosedStale.)              *)
ProgressIsNotPunished ==
  [][\A c \in Callers :
       /\ callers[c].state = "open" /\ callers[c].ends = "open"
       /\ callers[c].sent > callers[c].got
       /\ callers[c].sent <= Ceiling(callers[c].request)
       => callers'[c].state # "away"]_vars

(* Tc002HttpServer.cpp:492-493: "a connection that just made progress is   *)
(* not closed on a stale timestamp".  The one whose last piece was too     *)
(* much may be, and then never gets to read why.                           *)
NeverClosedStale ==
  [][\A c \in Callers :
       /\ callers[c].state = "open" /\ callers[c].ends = "open"
       /\ callers[c].sent > callers[c].got
       => callers'[c].state # "away"]_vars

(* Both: a place comes back in the end, and not before its time. *)
PlacesComeBackInTime == NobodyStaysForEver /\ ProgressIsNotPunished

(* What callers make the device hold is bounded: there are no more of them *)
(* than places, and of none is more kept than its first line allows        *)
(* (acceptPending, ceilingFor, service).                                   *)
HeldIsBounded ==
  /\ Cardinality(Connected) <= Slots
  /\ \A c \in Callers : callers[c].state = "open" => callers[c].got <= Ceiling(callers[c].request)

(* There is no carve-out: whoever is answered with success, also the page  *)
(* and what only reads, named the password that was set at that moment,    *)
(* also when it was set after the request began to arrive.                 *)
NoCarveOut ==
  [][\A c \in Callers :
       (callers'[c].answer = "ok" /\ callers[c].answer = "none")
       => password \in {NoPassword, callers[c].request.login}]_vars

(* ApiServer.cpp:229-232: an icon "is well past the general limit and      *)
(* entirely reasonable, so it gets its own ceiling".                       *)
ReasonableIconsAreTaken ==
  [][\A c \in Callers :
       callers[c].request.class = "icon" /\ callers[c].request.size <= IconCeiling
       => callers'[c].answer # "too large"]_vars

(* Tc002HttpServer.h:72-75: the larger figure applies "only while no other *)
(* connection is already using it".                                        *)
OneUploadAtATime ==
  Cardinality({c \in Connected : callers[c].got > SmallCeiling
                                 /\ callers[c].state = "open"}) <= 1
=============================================================================
