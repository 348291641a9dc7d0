----------------------------- MODULE MCSetupMode -----------------------------
(* The network and the first thing that is asked of it, on small instances: *)
(* in one part of the behaviours setup mode and the radio, in the other the *)
(* clock, of two servers that have to be looked up and one that has not.    *)
EXTENDS Network

VARIABLE part

(* The stages that wait for the network may take two turns in which time    *)
(* passes, the others one.                                                  *)
MCTimeout == [s \in Timed |-> IF s \in {"associating", "addressing"} THEN 2 ELSE 1]

time == <<setting, bound, server, stage, resolution, lookups, address, socket, wait, age,
          synchronised, clock, edits, faults>>
all == <<part, vars, time>>

MCInit ==
  /\ part \in {"setup", "clock"}
  /\ Init /\ C!Init
  /\ setting # "other"                  \* which differs from "pool" in name only
  /\ part # "clock" => setting = "pool"
  /\ part # "setup" => stored

Radio(A) == part = "setup" /\ A /\ UNCHANGED <<part, time>>
Clock(A) == part = "clock" /\ A /\ UNCHANGED <<part, vars>>

MCNext == Radio(Next) \/ Clock(C!Next)

(* The fairness of the two, each in its part. *)
MCSpec ==
  /\ MCInit /\ [][MCNext]_all
  /\ SF_all(Radio(\E e \in Elapses \ {0} : Lease(e)))
  /\ WF_all(Radio(Join \/ Host \/ Revert))
  /\ SF_all(Radio(StartHosting))
  /\ WF_all(Clock(C!Turn)) /\ WF_all(Clock(C!TurnWithout)) /\ WF_all(Clock(C!Connect))
  /\ WF_all(Clock(\E t \in lookups : C!Found(t) \/ C!NotFound(t)))
  /\ WF_all(Clock(C!Answer("time")))

(* Setup mode is entered when it is wanted or needed and left again, and a  *)
(* join ends: nothing that was begun hangs.                                *)
NothingHangs ==
  part = "setup" => HostsWhenUnreachable /\ KnobIsHonoured /\ HostingEnds /\ JoinEnds
TimeIsFound == part = "clock" => C!TimeIsFound
=============================================================================
