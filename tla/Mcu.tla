--------------------------------- MODULE Mcu ---------------------------------
(***************************************************************************)
(* The serial link to the microcontroller: it pushes the battery, the      *)
(* charger and, once it was asked to, the level of the microphone, in      *)
(* frames                                                                  *)
(*                                                                         *)
(*     head head command length payload sum sum                            *)
(*                                                                         *)
(* over a line without flow control that loses bytes.  The device reads    *)
(* whatever has arrived, however it is cut, and walks over it for frames.  *)
(* A byte is a digit below Base, so that a sum of two of them and a false  *)
(* length go wrong as they do with 256.                                    *)
(***************************************************************************)
EXTENDS Integers, Sequences, SequencesExt, FiniteSetsExt

CONSTANTS
  Base,        \* what a byte counts to
  Percents,    \* what the battery says, sensible or not
  MaxPercent,  \* 100
  Room,        \* sizeof(buffer_)
  Piece,       \* the most that one read() takes
  InFlight,    \* bound on what is on the line
  MaxSent,     \* bound on frames
  MaxLost      \* bound on bytes lost

Start == <<Base - 1, 5>>
Overhead == 6

\* Commands.
Mic == 1
Charging == 2
Battery == 3
Version == 4

VARIABLES
  line,          \* what the microcontroller has sent and nobody has read
  buffer,        \* buffer_, up to held_
  state,         \* state_: for each command, what its last frame said
  micRequested,  \* micRequested_
  micOn,         \* whether the microcontroller sends levels
  queried,       \* whether it was asked for its version and has not answered
  said,          \* history: for each command, what its last frame said since
                 \* the two sides came together
  quiet,         \* history: bytes sent since one was lost, up to Settled
  sent, lost

link == <<line, buffer, state, micRequested>>
vars == <<link, micOn, queried, said, quiet, sent, lost>>

Commands == {Mic, Charging, Battery, Version}
Unknown == [c \in Commands |-> -1]

Longest == Overhead + Base - 1

\* As many bytes without a loss bring the two sides together again.
Settled == Longest

TypeOK ==
  /\ line \in Seq(0..Base - 1) /\ Len(line) <= InFlight
  /\ buffer \in Seq(0..Base - 1) /\ Len(buffer) < Room
  /\ state \in [Commands -> -1..Base - 1]
  /\ micRequested \in BOOLEAN /\ micOn \in BOOLEAN /\ queried \in BOOLEAN

(* open(): a query that could not be written leaves the port open. *)
Init ==
  /\ line = <<>> /\ buffer = <<>>
  /\ state = Unknown
  /\ micRequested = FALSE /\ micOn = FALSE
  /\ queried \in BOOLEAN
  /\ said = Unknown
  /\ quiet = Settled /\ sent = 0 /\ lost = 0

-----------------------------------------------------------------------------
(* Frames. *)

Sum(bytes) == FoldSeq(+, 0, bytes) % (Base * Base)

Frame(command, value) ==
  LET front == Start \o <<command, 1, value>>
  IN  front \o <<Sum(front) \div Base, Sum(front) % Base>>

SumHolds(frame) ==
  LET n == Len(frame)
  IN  Sum(SubSeq(frame, 1, n - 2)) = frame[n - 1] * Base + frame[n]

(* State::consume: a percentage that is none is passed over, and so is a   *)
(* command that is not known and one without its payload.                  *)
Consume(known, frame) ==
  LET command == frame[3]  value == frame[5]
  IN  IF /\ command \in Commands /\ frame[4] > 0
         /\ command = Battery => value <= MaxPercent
      THEN [known EXCEPT ![command] = value]
      ELSE known

(* Fault: the length of a frame whose sum is wrong is trusted, and a frame *)
(* that has not arrived whole is thrown away.                              *)
RECURSIVE WalkForgetsRest(_, _)
WalkForgetsRest(known, held) ==
  IF Len(held) < 4 THEN [known |-> known, held |-> <<>>]
  ELSE LET total == Overhead + held[4]
       IN  IF SubSeq(held, 1, 2) # Start \/ total > Room
           THEN WalkForgetsRest(known, Tail(held))
           ELSE IF total > Len(held) THEN [known |-> known, held |-> <<>>]
           ELSE WalkForgetsRest(IF SumHolds(SubSeq(held, 1, total))
                                THEN Consume(known, SubSeq(held, 1, total)) ELSE known,
                                SubSeq(held, total + 1, Len(held)))

(* walk(): from where there is a start and a length that can be, a frame    *)
(* that has arrived and whose sum holds is taken and passed; from anywhere *)
(* else the search goes on one byte later.                                 *)
RECURSIVE Walk(_, _)
Walk(known, held) ==
  IF Len(held) < 4 THEN [known |-> known, held |-> held]
  ELSE LET total == Overhead + held[4]
           frame == SubSeq(held, 1, total)
       IN  IF SubSeq(held, 1, 2) # Start \/ total > Room THEN Walk(known, Tail(held))
           ELSE IF total > Len(held) THEN [known |-> known, held |-> held]
           ELSE IF SumHolds(frame)
           THEN Walk(Consume(known, frame), SubSeq(held, total + 1, Len(held)))
           ELSE Walk(known, Tail(held))

-----------------------------------------------------------------------------
(* poll(). *)

(* What would not fit pushes out what was held. *)
Joined(piece) ==
  IF Len(buffer) + Len(piece) > Room THEN piece ELSE buffer \o piece

Read(n) ==
  LET walked == Walk(state, Joined(SubSeq(line, 1, n)))
  IN  /\ n <= Len(line)
      /\ line' = SubSeq(line, n + 1, Len(line))
      /\ buffer' = walked.held
      /\ state' = walked.known
      /\ UNCHANGED <<micRequested, micOn, queried, said, quiet, sent, lost>>

(* requestMicrophone(): once, and only after a version has come; a write   *)
(* that fails is tried again with the next poll.                           *)
RequestMic ==
  /\ ~micRequested /\ state[Version] # -1
  /\ micRequested' = TRUE /\ micOn' = TRUE
  /\ UNCHANGED <<line, buffer, state, queried, said, quiet, sent, lost>>

-----------------------------------------------------------------------------
(* The microcontroller and the line. *)

Send(command, value) ==
  LET frame == Frame(command, value)
  IN  /\ sent < MaxSent /\ Len(line) + Len(frame) <= InFlight
      /\ sent' = sent + 1
      /\ line' = line \o frame
      /\ said' = IF quiet >= Settled THEN Consume(said, frame) ELSE said
      /\ quiet' = Min({quiet + Len(frame), Settled})
      /\ UNCHANGED <<buffer, state, micRequested, micOn, lost>>

Push ==
  /\ \/ \E percent \in Percents : Send(Battery, percent)
     \/ micOn /\ Send(Mic, Base - 1)
     \/ Send(Charging, 1)
  /\ UNCHANGED queried

SayVersion == queried /\ queried' = FALSE /\ Send(Version, 1)

LoseByte(i) ==
  /\ lost < MaxLost /\ i \in DOMAIN line
  /\ lost' = lost + 1
  /\ line' = RemoveAt(line, i)
  /\ quiet' = 0
  /\ said' = Unknown
  /\ UNCHANGED <<buffer, state, micRequested, micOn, queried, sent>>

Next ==
  \/ \E n \in 1..Piece : Read(n)
  \/ RequestMic
  \/ Push
  \/ SayVersion
  \/ \E i \in 1..InFlight : LoseByte(i)

Spec == Init /\ [][Next]_vars

-----------------------------------------------------------------------------
(* However what arrives is cut and whatever was lost before, when as many  *)
(* bytes have come without loss as the longest frame has, every frame that *)
(* follows is believed (McuProtocol.h: walk, and Tc002Mcu::poll).          *)
LossesAreOvercome ==
  line = <<>> => \A c \in {Mic, Charging, Battery} : said[c] # -1 => state[c] = said[c]

(* A microphone that is there is asked for in the end; a query or an       *)
(* answer that was lost is never repeated.                                 *)
MicIsAsked == sent >= 3 /\ line = <<>> => state[Version] # -1
=============================================================================
