-------------------------- MODULE MCVendorOnboarding --------------------------
(* VendorOnboarding for TLC: one user, one vendor, two applications for it.  *)
EXTENDS VendorOnboarding
CONSTANTS u1, i1, i2, r1, r2, v1, v2, a1, a2

MCOwnerOf == [v \in Vendors |-> u1]
MCVendorOf == [a \in Applications |-> v1]
=============================================================================
