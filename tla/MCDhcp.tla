------------------------------- MODULE MCDhcp -------------------------------
(* The terms of leases that servers offer, in units of the first gap.      *)
EXTENDS Dhcp

(* A lease whose T1 is taken as it is, one too short for the floor. *)
MCTerms == {[duration |-> 4, renew |-> 2, rebind |-> 3],
            [duration |-> 2, renew |-> 0, rebind |-> 1]}

(* A lease that has to be rebound as soon as it is renewed, and one for ever. *)
MCLongTerms == {[duration |-> 4, renew |-> 1, rebind |-> 0],
                [duration |-> Infinite, renew |-> 0, rebind |-> 0]}
=============================================================================
