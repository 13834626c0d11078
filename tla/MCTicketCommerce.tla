-------------------------- MODULE MCTicketCommerce --------------------------
(* TicketCommerce for TLC: two orders of one tier, two payments of the first. *)
EXTENDS TicketCommerce
CONSTANTS t1, o1, o2, p1, p2, s1, s2

MCOrderOf == [p \in Payments |-> o1]
=============================================================================
