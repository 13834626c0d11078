------------------------------- MODULE Journal -------------------------------
(***************************************************************************)
(* What the ledger promises, whoever posts to it and however often: a      *)
(* transaction is written once and never changed; what it takes from some  *)
(* accounts it gives to others, whole; and which accounts these are is     *)
(* settled by the row that it is of, so that nobody's payouts, refunds or  *)
(* chargebacks reach the account of another.  EscrowBooks implements it.   *)
(***************************************************************************)
EXTENDS Ledger

CONSTANTS VendorOf, PaymentOf,        \* of a payment, of a payout
          OrganizerOf,                \* of a ticket payment
          CaseOf, TicketOf            \* ticket payment of a case, of an organizer payout

ASSUME OwnersAssumption ==
    /\ VendorOf \in [Payments -> Vendors] /\ PaymentOf \in [Payouts -> Payments]
    /\ OrganizerOf \in [TicketPayments -> Organizers]
    /\ CaseOf \in [Cases -> TicketPayments]
    /\ TicketOf \in [OrganizerPayouts -> TicketPayments]

Payers(k) ==
    CASE k.reason = "payment_capture_quaser"   -> {Psp}
      [] k.reason = "payment_refund"           -> {Escrow}
      [] k.reason = "payment_chargeback"       -> {VendorPayable(VendorOf[k.of[1]])}
      [] k.reason = "payout_escrow_release"    -> {Escrow}
      [] k.reason = "payment_capture_ticket"   -> {Psp}
      [] k.reason = "payment_refund_ticket"    -> {OrganizerPayable(OrganizerOf[CaseOf[k.of]]), PlatformFees}
      [] k.reason = "payout_organizer_release" -> {OrganizerPayable(OrganizerOf[TicketOf[k.of]])}

Payees(k) ==
    CASE k.reason = "payment_capture_quaser"   -> {Escrow, PlatformFees}
      [] k.reason = "payment_refund"           -> {Psp}
      [] k.reason = "payment_chargeback"       -> {Psp}
      [] k.reason = "payout_escrow_release"    -> {VendorPayable(VendorOf[PaymentOf[k.of]])}
      [] k.reason = "payment_capture_ticket"   -> {OrganizerPayable(OrganizerOf[k.of]), PlatformFees}
      [] k.reason = "payment_refund_ticket"    -> {Psp}
      [] k.reason = "payout_organizer_release" -> {PayoutClearing}

\* Lines that a transaction may have.  Between its accounts the money may pass
\* through others, of which each gets what it gives.
Transfers(k, lines) ==
    /\ lines # {} /\ Net(lines) = 0
    /\ \A a \in Accounts :
          LET gain == Net(LinesOf(lines, a)) IN
          (gain < 0 => a \in Payers(k)) /\ (gain > 0 => a \in Payees(k))

JournalInit == ledger = [k \in Keys |-> {}]

PostTransaction(k) ==
    /\ ~Posted(k)
    /\ Transfers(k, ledger'[k])
    /\ ledger' = [ledger EXCEPT ![k] = ledger'[k]]

JournalSpec == JournalInit /\ [][\E k \in Keys : PostTransaction(k)]_ledger
=============================================================================
