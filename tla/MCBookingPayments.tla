-------------------------- MODULE MCBookingPayments --------------------------
(* BookingPayments for TLC: one booking, paid for once or twice.            *)
EXTENDS BookingPayments
CONSTANTS b1, p1, p2, k1, k2, c1

MCBookingOf == [p \in Payments |-> b1]
MCChargebackOf == [c \in ChargebackEvents |-> p1]
MCTotal == [b \in Bookings |-> 2]
MCFee == [b \in Bookings |-> 1]
=============================================================================
