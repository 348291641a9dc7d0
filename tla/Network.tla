------------------------------- MODULE Network -------------------------------
(***************************************************************************)
(* The network, and the first thing that is asked of it: setup mode and    *)
(* the radio, and the clock, which needs no more of the network than that  *)
(* there is one (main.cpp hands Tc002Sntp what dhcp().bound() says).       *)
(***************************************************************************)
EXTENDS SetupMode

CONSTANTS
  Servers, Literals, QueryRetry, Resync, QueryTimeout,     \* of Sntp
  MaxLookups, MaxEdits, MaxFaults

VARIABLES
  setting, bound, server, stage, resolution, lookups, address, socket, wait, age,
  synchronised, clock, edits, faults

C == INSTANCE Sntp WITH Retry <- QueryRetry, Timeout <- QueryTimeout

-----------------------------------------------------------------------------
(* The server that is asked is the one the client was begun with           *)
(* (Tc002Sntp::begin, tick).                                               *)
AsksWhoIsMeant == C!AsksWhoIsMeant
=============================================================================
