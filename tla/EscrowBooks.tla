------------------------------ MODULE EscrowBooks ------------------------------
(***************************************************************************)
(* Both rails on their common ledger.  One action is one SQL transaction:  *)
(* the interleavings of requests between two of them are those of          *)
(* BookingPayments, VendorPayouts, TicketRefunds and OrganizerPayouts, and *)
(* of what a request read earlier an action only keeps what nothing takes  *)
(* back (that a payment was captured, not that it still is).               *)
(*                                                                         *)
(* A booking's total is its subtotal, which its vendor is paid, and the    *)
(* platform's fee; the same of a ticket order and its organizer.  A payout *)
(* row and a case are inserted for one payment; vendor and organizer pay   *)
(* out the whole subtotal.  A failed vendor payout is under review         *)
(* (VendorPayouts!FailedIsHeld), so its flag needs no variable.            *)
(*                                                                         *)
(* A definition that is used nowhere is a faulty variant of the one that   *)
(* follows it: the slip that a property has to notice.                     *)
(***************************************************************************)
EXTENDS Treasury, Journal

CONSTANTS Subtotal, Fee,              \* of a payment and of a ticket payment
          CaseRefund                  \* amount of a case

ASSUME AmountsAssumption ==
    /\ Subtotal \in [Payments \cup TicketPayments -> Nat]
    /\ Fee \in [Payments \cup TicketPayments -> Nat]
    /\ CaseRefund \in [Cases -> Nat]

VARIABLES payment,          \* payments.status
          refunded,         \* payments.amount_refunded_minor
          paymentReview,    \* payments with under_review = TRUE
          payout,           \* payouts.status, "none" before the row exists
          asking,           \* payouts whose request has yet to write the
                            \* router's answer
          ticketPayment,    \* ticket_payments.status
          refundCase        \* cases that staff completed

bookingRows == <<payment, refunded, paymentReview>>
payoutRows == <<payout, asking>>
ticketRows == <<ticketPayment, refundCase>>
vars == <<treasury, deploy, bookingRows, payoutRows, ticketRows>>

PaymentStates == {"initiated", "captured", "partially_refunded", "refunded"}
PayoutStates == {"none", "pending", "processing", "completed", "failed"}
InFlight == {"pending", "processing"}

Gross(p) == Subtotal[p] + Fee[p]

\* computeFeeReversalMinor, as createCase calls it.
FeeReversal(k) ==
    LET t == CaseOf[k] IN
    IF CaseRefund[k] = 0 \/ Subtotal[t] = 0 THEN 0
    ELSE IF CaseRefund[k] >= Subtotal[t] THEN Fee[t]
    ELSE (Fee[t] * CaseRefund[k]) \div Subtotal[t]

Captured == {p \in Payments : payment[p] # "initiated"}
CapturedTickets == {t \in TicketPayments : ticketPayment[t] = "captured"}

\* Nothing but its ledger is left of the treasury that an action posts to.
Posts(key, lines) ==
    /\ ledger' = Post(key, lines)
    /\ UNCHANGED <<settlement, postings, reports, deploy>>

-----------------------------------------------------------------------------
(* Booking payments *)

ApplyCaptureHeaderOnly(p) ==
    /\ payment[p] = "initiated" /\ p \notin paymentReview
    /\ Gross(p) > 0
    /\ payment' = [payment EXCEPT ![p] = "captured"]
    /\ UNCHANGED <<treasury, deploy, refunded, paymentReview, payoutRows, ticketRows>>

\* A payment under review is refused before, and a ledger line of 0 raises.
ApplyQuaserPaymentCapture(p) ==
    /\ payment[p] = "initiated" /\ p \notin paymentReview
    /\ Gross(p) > 0
    /\ payment' = [payment EXCEPT ![p] = "captured"]
    /\ Posts(CaptureKey(p), CaptureLines(Gross(p), Fee[p]))
    /\ UNCHANGED <<refunded, paymentReview, payoutRows, ticketRows>>

RefundBeyondCapture(p, amount, k) ==
    /\ p \notin paymentReview /\ payment[p] \in {"captured", "partially_refunded"}
    /\ amount > 0 /\ amount <= Gross(p)
    /\ refunded' = [refunded EXCEPT ![p] = @ + amount]
    /\ payment' = [payment EXCEPT ![p] = IF refunded[p] + amount = Gross(p)
                                         THEN "refunded" ELSE "partially_refunded"]
    /\ Posts(RefundKey(k), RefundLines(amount))
    /\ UNCHANGED <<paymentReview, payoutRows, ticketRows>>

RefundPayment(p, amount, k) ==
    /\ p \notin paymentReview /\ payment[p] \in {"captured", "partially_refunded"}
    /\ amount > 0 /\ refunded[p] + amount <= Gross(p)
    /\ refunded' = [refunded EXCEPT ![p] = @ + amount]
    /\ payment' = [payment EXCEPT ![p] = IF refunded[p] + amount = Gross(p)
                                         THEN "refunded" ELSE "partially_refunded"]
    /\ Posts(RefundKey(k), RefundLines(amount))
    /\ UNCHANGED <<paymentReview, payoutRows, ticketRows>>

ChargebackOfEscrow(p, amount, ev) ==
    /\ payment[p] \in {"captured", "partially_refunded"}
    /\ amount > 0 /\ amount <= Gross(p)
    /\ paymentReview' = paymentReview \cup {p}
    /\ Posts(ChargebackKey(p, ev), RefundLines(amount))
    /\ UNCHANGED <<payment, refunded, payoutRows, ticketRows>>

ApplyChargeback(p, amount, ev) ==
    /\ payment[p] \in {"captured", "partially_refunded"}
    /\ amount > 0 /\ amount <= Gross(p)
    /\ paymentReview' = paymentReview \cup {p}
    /\ Posts(ChargebackKey(p, ev), ChargebackLines(VendorOf[p], amount))
    /\ UNCHANGED <<payment, refunded, payoutRows, ticketRows>>

\* approvePayment, and the flag of escalatePayment.
SetReview(p, flag) ==
    /\ paymentReview' = IF flag THEN paymentReview \cup {p} ELSE paymentReview \ {p}
    /\ UNCHANGED <<treasury, deploy, payment, refunded, payoutRows, ticketRows>>

-----------------------------------------------------------------------------
(* Vendor payouts *)

\* payouts_one_in_flight_per_booking
InFlightRaises(po) ==
    \E other \in Payouts \ {po} : PaymentOf[other] = PaymentOf[po] /\ payout[other] \in InFlight
\* payouts_one_completed_per_booking
CompletedRaises(po) ==
    \E other \in Payouts \ {po} : PaymentOf[other] = PaymentOf[po] /\ payout[other] = "completed"

InsertPayout(po) ==
    /\ payout[po] = "none" /\ PaymentOf[po] \in Captured
    /\ ~InFlightRaises(po)
    /\ payout' = [payout EXCEPT ![po] = "pending"]
    /\ asking' = asking \cup {po}
    /\ UNCHANGED <<treasury, deploy, bookingRows, ticketRows>>

\* The router's answer, written whatever the row says by now; the catch block
\* when the answer or the UPDATE is an error.
MarkProcessing(po) ==
    /\ po \in asking /\ ~InFlightRaises(po)
    /\ payout' = [payout EXCEPT ![po] = "processing"]
    /\ asking' = asking \ {po}
    /\ UNCHANGED <<treasury, deploy, bookingRows, ticketRows>>

MarkFailed(po) ==
    /\ po \in asking
    /\ payout' = [payout EXCEPT ![po] = "failed"]
    /\ asking' = asking \ {po}
    /\ UNCHANGED <<treasury, deploy, bookingRows, ticketRows>>

\* The process dies before the answer is written.
RequestDies(po) ==
    /\ po \in asking
    /\ asking' = asking \ {po}
    /\ UNCHANGED <<treasury, deploy, bookingRows, payout, ticketRows>>

SettlesRegardless(po, copy) == TRUE
SettlesPayout(po, copy) == Settles(po, VendorOf[PaymentOf[po]], Subtotal[PaymentOf[po]], copy)

\* A mismatch commits what postSettlementJournal wrote and leaves the payout;
\* the UPDATE to completed may still raise, and then nothing is written.
HandlePayoutCompleted(po, copy) ==
    /\ payout[po] \in InFlight
    /\ payment[PaymentOf[po]] = "captured"
    /\ Subtotal[PaymentOf[po]] > 0
    /\ PostSettlementJournal(po, VendorOf[PaymentOf[po]], Subtotal[PaymentOf[po]], copy)
    /\ IF SettlesPayout(po, copy)
       THEN ~CompletedRaises(po) /\ payout' = [payout EXCEPT ![po] = "completed"]
       ELSE UNCHANGED payout
    /\ UNCHANGED <<deploy, bookingRows, asking, ticketRows>>

RunSweep(stale) ==
    /\ stale # {} /\ \A po \in stale : payout[po] = "processing"
    /\ payout' = [po \in Payouts |-> IF po \in stale THEN "failed" ELSE payout[po]]
    /\ UNCHANGED <<treasury, deploy, bookingRows, asking, ticketRows>>

-----------------------------------------------------------------------------
(* Tickets *)

ApplyTicketCapture(t) ==
    /\ ticketPayment[t] = "initiated" /\ t \notin paymentReview
    /\ Gross(t) > 0
    /\ ticketPayment' = [ticketPayment EXCEPT ![t] = "captured"]
    /\ Posts(TicketCaptureKey(t), TicketCaptureLines(OrganizerOf[t], Fee[t], Subtotal[t]))
    /\ UNCHANGED <<bookingRows, payoutRows, refundCase>>

\* adminAction writes the decision; the posting is a transaction of its own.
CompleteCase(k) ==
    /\ ticketPayment[CaseOf[k]] = "captured"
    /\ CaseRefund[k] > 0 /\ CaseRefund[k] <= Subtotal[CaseOf[k]]
    /\ refundCase' = refundCase \cup {k}
    /\ UNCHANGED <<treasury, deploy, bookingRows, payoutRows, ticketPayment>>

PostTicketRefund(k) ==
    /\ k \in refundCase
    /\ Posts(TicketRefundKey(k),
             TicketRefundLines(OrganizerOf[CaseOf[k]], CaseRefund[k], FeeReversal(k)))
    /\ UNCHANGED <<bookingRows, payoutRows, ticketRows>>

\* completePayout: OrganizerPayouts has what brings a row here and takes it on.
CompleteOrganizerPayout(q) ==
    /\ ticketPayment[TicketOf[q]] = "captured"
    /\ Subtotal[TicketOf[q]] > 0
    /\ Posts(OrganizerReleaseKey(q),
             OrganizerReleaseLines(OrganizerOf[TicketOf[q]], Subtotal[TicketOf[q]]))
    /\ UNCHANGED <<bookingRows, payoutRows, ticketRows>>

-----------------------------------------------------------------------------
(* Reconciliation *)

MissingLedger == {p \in Payments : payment[p] = "captured" /\ ~Posted(CaptureKey(p))}
OrphanLedger == {p \in Payments : Posted(CaptureKey(p)) /\ payment[p] # "captured"}
MissingTicketLedger == {t \in CapturedTickets : ~Posted(TicketCaptureKey(t))}
OrphanTicketLedger == {t \in TicketPayments \ CapturedTickets : Posted(TicketCaptureKey(t))}
SettlementMismatches == {po \in Payouts : AlreadyPosted(po) /\ ~Posted(ReleaseKey(po))}

Raised(kind, rows) == {Issue(kind, row) : row \in rows}

\* runLedgerPaymentConsistencyCheck over the rows of its period, which are those
\* of the payment, of the capture and of the settlement alike.  No row changes
\* what another is flagged for, so a long period is several short ones.
RunConsistencyCheck(period) ==
    LET missing == period \cap (MissingLedger \cup MissingTicketLedger)
        orphan == period \cap (OrphanLedger \cup OrphanTicketLedger) IN
    /\ reports' = reports \cup Raised("ledger_only_transaction", missing)
                          \cup Raised("psp_only_transaction", orphan)
                          \cup Raised("status_mismatch", period \cap SettlementMismatches)
    /\ paymentReview' = paymentReview \cup missing \cup orphan
    /\ UNCHANGED <<ledger, settlement, postings, deploy, payment, refunded, payoutRows, ticketRows>>

\* recoverMissingCaptureLedger: the SQL function it calls returns at once for a
\* captured payment, so all that a missing capture loses is its flag.
RecoverMissingCaptureLedger(p) ==
    /\ payment[p] = "captured"
    /\ paymentReview' = IF Posted(CaptureKey(p)) THEN paymentReview ELSE paymentReview \ {p}
    /\ UNCHANGED <<treasury, deploy, payment, refunded, payoutRows, ticketRows>>

-----------------------------------------------------------------------------

Init ==
    /\ ledger = [k \in Keys |-> {}]
    /\ settlement = [po \in Payouts |-> "none"]
    /\ postings = [po \in Payouts |-> {}]
    /\ reports = {} /\ deploy = "off"
    /\ payment = [p \in Payments |-> "initiated"]
    /\ refunded = [p \in Payments |-> 0]
    /\ paymentReview = {}
    /\ payout = [po \in Payouts |-> "none"] /\ asking = {}
    /\ ticketPayment = [t \in TicketPayments |-> "initiated"]
    /\ refundCase = {}

PaymentNext(p) ==
    \/ ApplyQuaserPaymentCapture(p)
    \/ \E amount \in 1..Gross(p), k \in RefundKeys : RefundPayment(p, amount, k)
    \/ \E amount \in 1..Gross(p), ev \in ChargebackEvents : ApplyChargeback(p, amount, ev)
    \/ \E flag \in BOOLEAN : SetReview(p, flag)
    \/ RecoverMissingCaptureLedger(p)

PayoutNext(po) ==
    \/ InsertPayout(po) \/ MarkProcessing(po) \/ MarkFailed(po) \/ RequestDies(po)
    \/ \E copy \in Copies(Entries(po, VendorOf[PaymentOf[po]], Subtotal[PaymentOf[po]])) :
          HandlePayoutCompleted(po, copy)

TicketNext ==
    \/ \E t \in TicketPayments : ApplyTicketCapture(t)
    \/ \E k \in Cases : CompleteCase(k) \/ PostTicketRefund(k)
    \/ \E q \in OrganizerPayouts : CompleteOrganizerPayout(q)

Next ==
    \/ \E p \in Payments : PaymentNext(p)
    \/ \E po \in Payouts : PayoutNext(po)
    \/ TicketNext
    \/ \E stale \in SUBSET Payouts : RunSweep(stale)
    \/ \E row \in Payments \cup TicketPayments \cup Payouts : RunConsistencyCheck({row})
    \/ \E build \in Deploys :
          Redeploy(build) /\ UNCHANGED <<bookingRows, payoutRows, ticketRows>>

Spec == Init /\ [][Next]_vars

-----------------------------------------------------------------------------
(* Properties *)

Memos == {"gross", "fee", "share", "refund", "reversal", "chargeback", "payout"}
Lines == [account : Accounts, direction : {"debit", "credit"}, amount : Nat, memo : Memos]

\* Every variable has its type, and no row is refunded beyond what it captured.
TypeOK ==
    /\ ledger \in [Keys -> SUBSET Lines]
    /\ settlement \in [Payouts -> SettlementStates]
    /\ postings \in [Payouts -> SUBSET Lines]
    /\ reports \subseteq Issues /\ deploy \in Deploys
    /\ payment \in [Payments -> PaymentStates]
    /\ refunded \in [Payments -> Nat]
    /\ \A p \in Payments : refunded[p] <= Gross(p)
    /\ paymentReview \subseteq Payments \cup TicketPayments
    /\ payout \in [Payouts -> PayoutStates]
    /\ asking \subseteq Payouts
    /\ ticketPayment \in [TicketPayments -> {"initiated", "captured"}]
    /\ refundCase \subseteq Cases

\* A completed payout has its settlement posted and its release in the ledger: a
\* mismatch of the dual write is never completed over, also when the settlement
\* was posted by another build, the row went back to processing and the webhook
\* came again.
CompletedIsSettled ==
    \A po \in Payouts : payout[po] = "completed" => AlreadyPosted(po) /\ Posted(ReleaseKey(po))

\* The nightly comparison of rows and ledger can find nothing but payments that
\* were refunded: no interleaving of captures, payouts, builds and reports
\* leaves a captured row of either rail without its posting, a posting without
\* its row, or a posted settlement without its release.
OnlyRefundsAreFlagged ==
    /\ MissingLedger = {} /\ MissingTicketLedger = {} /\ OrphanTicketLedger = {}
    /\ SettlementMismatches = {}
    /\ \A p \in OrphanLedger : payment[p] \in {"partially_refunded", "refunded"}

\* To whoever only looks at the ledger, every request, webhook, repetition, retry,
\* redeploy and check of both rails is a transaction of its own key posted once,
\* between the accounts of its own row, or nothing at all.
ImplementsJournal == JournalSpec
=============================================================================
