--------------------------- MODULE MCVendorPayouts ---------------------------
(* VendorPayouts for TLC: one booking whose payments are both captured.     *)
EXTENDS VendorPayouts
CONSTANTS b1, p1, p2, po1, po2, d1, s1, s2

MCBookingOf == [p \in Payments |-> b1]
MCDisputed == [d \in Disputes |-> p1]
=============================================================================
