---------------------------- MODULE MCEscrowBooks ----------------------------
(* EscrowBooks and its reports for TLC: a booking with two payout rows, one  *)
(* ticket payment with a case and a payout.                                  *)
EXTENDS FinanceReports, TLC
CONSTANTS v1, o1, p1, po1, po2, k1, c1, t1, x1, q1, platform

MCVendorOf == [p \in Payments |-> v1]
MCPaymentOf == [po \in Payouts |-> p1]
MCOrganizerOf == [t \in TicketPayments |-> o1]
MCCaseOf == [x \in Cases |-> t1]
MCTicketOf == [q \in OrganizerPayouts |-> t1]
MCSubtotal == [p \in Payments \cup TicketPayments |-> IF p = p1 THEN 1 ELSE 2]
MCFee == [p \in Payments \cup TicketPayments |-> IF p = p1 THEN 1 ELSE 2]
MCCaseRefund == [x \in Cases |-> 1]
MCSymmetry == Permutations(Payouts)
=============================================================================
