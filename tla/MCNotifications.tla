--------------------------- MODULE MCNotifications ---------------------------
(* A small instance of Notifications: three ranks, a queue two deep, one    *)
(* ordinary client id and one that looks like a generated id.               *)
EXTENDS Notifications

CONSTANT a

MCClientIds == {a, 2}

Post(p, d, h, x) == [priority |-> p, duration |-> d, hold |-> h, dismissible |-> x]

\* Chatter, a note that is held, a normal message, an alarm that insists, and
\* a held urgent one.
MCContent ==
  {Post(0, 0, FALSE, TRUE), Post(0, 0, TRUE, TRUE), Post(1, 1, FALSE, TRUE),
   Post(1, 1, FALSE, FALSE), Post(2, 1, TRUE, TRUE)}

=============================================================================
