------------------------- MODULE MCOrganizerPayouts -------------------------
(* OrganizerPayouts for TLC: orders of 1 and 2, a case that refunds part of  *)
(* the larger one.                                                           *)
EXTENDS OrganizerPayouts, TLC
CONSTANTS o1, o2, k1, s1, s2, po1, po2, r1, r2

MCSubtotal == [o \in Orders |-> IF o = o1 THEN 2 ELSE 1]
MCCaseOf == [k \in Cases |-> o1]
MCAmount == [k \in Cases |-> 1]
MCSymmetry == Permutations(Staff) \cup Permutations(Payouts) \cup Permutations(Requests)
=============================================================================
