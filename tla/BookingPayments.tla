--------------------------- MODULE BookingPayments ---------------------------
(***************************************************************************)
(* The booking rail up to the escrow: a client starts a payment for a      *)
(* booking, the Quaser router reports captures and failures through        *)
(* webhooks that may be repeated, late or out of order, a timer fails      *)
(* stale payments, and finance staff refund, charge back and review.       *)
(*                                                                         *)
(* One row of `payments` is one element of Payments; BookingOf fixes the   *)
(* booking it is inserted for.  amount_captured_minor is Total of that     *)
(* booking whenever the status is one of CapturedStates, so it needs no    *)
(* variable.  Nothing in the services writes the statuses requires_action, *)
(* authorized and voided.                                                  *)
(***************************************************************************)
EXTENDS Naturals, FiniteSetsExt

CONSTANTS Bookings,          \* rows of `bookings`, already past 'draft'
          Payments,          \* ids that rows of `payments` can get
          BookingOf,         \* the booking a payment id is inserted for
          Total,             \* bookings.total_minor
          Fee,               \* bookings.platform_fee_minor
          RefundKeys,        \* idempotency keys of refund requests
          ChargebackEvents,  \* event ids of chargeback notices
          ChargebackOf       \* the payment a notice is about

ASSUME BookingOfAssumption == BookingOf \in [Payments -> Bookings]
ASSUME TotalAssumption == Total \in [Bookings -> Nat]
ASSUME FeeAssumption == Fee \in [Bookings -> Nat]
ASSUME ChargebackAssumption == ChargebackOf \in [ChargebackEvents -> Payments]

VARIABLES booking,      \* bookings.status
          status,       \* payments.status, "none" before the row exists
          refunded,     \* payments.amount_refunded_minor
          underReview,  \* payments with under_review = TRUE
          ledger,       \* ledger_transactions with their lines
          frozen,       \* finance_system_state_control.state = 'frozen'
          admitted,     \* bookings with a request past ensurePaymentsAllowed
          pending,      \* second statements of rejectPayment and escalatePayment
          intents,      \* payment ids the router accepted an intent for
          events,       \* what the router reports: never emptied, so any
                        \* report may be delivered again, late or reordered
          issues,       \* payments with an inline reconciliation report
          thrown        \* payments with a capture delivery that was rolled back
                        \* by an exception

rows == <<booking, status, refunded, underReview, ledger>>
control == <<frozen, admitted, pending>>
router == <<intents, events>>
evidence == <<issues, thrown>>
vars == <<rows, control, router, evidence>>

BookingStates == {"pending_payment", "confirmed", "completed", "cancelled",
                  "refunded"}
CapturedStates == {"captured", "partially_refunded", "refunded"}
PaymentStates == CapturedStates \cup {"none", "initiated", "failed"}
Reports == {"captured", "mismatched", "failed"}

Keys == Payments \cup RefundKeys \cup (Payments \X ChargebackEvents)
Transactions == [kind : {"capture", "refund", "chargeback"}, key : Keys,
                 payment : Payments, amount : Nat]

PaymentsOf(b) == {p \in Payments : BookingOf[p] = b}
TotalOf(p) == Total[BookingOf[p]]

-----------------------------------------------------------------------------
(* The ledger: INSERT ... ON CONFLICT (tenant_id, idempotency_key) DO NOTHING, *)
(* and lines only under a header that has none.                                *)
(* Here and below, a definition that is used nowhere is a faulty variant of    *)
(* the one that follows it: the slip that a property has to notice.            *)

Posted(kind, key) == \E t \in ledger : t.kind = kind /\ t.key = key

Post(kind, key, p, amount) ==
    IF Posted(kind, key)
    THEN ledger
    ELSE ledger \cup {[kind |-> kind, key |-> key, payment |-> p, amount |-> amount]}

-----------------------------------------------------------------------------
(* createPaymentForBooking: the freeze is read first, on its own; the rest is  *)
(* one transaction that holds the call to the router.                          *)

EnsurePaymentsAllowed(b) ==
    /\ ~frozen
    /\ admitted' = admitted \cup {b}
    /\ UNCHANGED <<rows, frozen, pending, router, evidence>>

Payable(b) ==
    /\ PaymentsOf(b) \cap underReview = {}
    /\ booking[b] = "pending_payment"

CreatePayment(p) ==
    /\ BookingOf[p] \in admitted
    /\ status[p] = "none" /\ p \notin intents
    /\ Payable(BookingOf[p])
    /\ status' = [status EXCEPT ![p] = "initiated"]
    /\ intents' = intents \cup {p}
    /\ admitted' = admitted \ {BookingOf[p]}
    /\ UNCHANGED <<booking, refunded, underReview, ledger, frozen, pending,
                   events, evidence>>

\* The router accepted the intent, and the transaction failed after the call.
CreatePaymentRolledBack(p) ==
    /\ BookingOf[p] \in admitted
    /\ status[p] = "none" /\ p \notin intents
    /\ Payable(BookingOf[p])
    /\ intents' = intents \cup {p}
    /\ admitted' = admitted \ {BookingOf[p]}
    /\ UNCHANGED <<rows, frozen, pending, events, evidence>>

\* A request that is answered with the payment of its idempotency key, or
\* refused, or whose process dies before the transaction.
RequestEnds(b) ==
    /\ b \in admitted
    /\ admitted' = admitted \ {b}
    /\ UNCHANGED <<rows, frozen, pending, router, evidence>>

-----------------------------------------------------------------------------
(* The router (external) *)

Report(p, kind) == [payment |-> p, kind |-> kind]

\* An attempt may fail and a later one succeed; a success is final.
RouterReports(p, kind) ==
    /\ p \in intents
    /\ Report(p, "captured") \notin events
    /\ Report(p, "mismatched") \notin events
    /\ events' = events \cup {Report(p, kind)}
    /\ UNCHANGED <<rows, control, intents, evidence>>

-----------------------------------------------------------------------------
(* The capture webhook *)

\* reconciliation_jobs_period_chk, on the period recordInlineIssue inserts:
\* both ends are now(), the start of the transaction.
PeriodChk(from, to) == to > from
InlineIssueAccepted == PeriodChk(0, 0)

AnyAmountMatches(kind) == TRUE

\* payload.amount_minor against the booking snapshot.  A report without an
\* amount is compared with nothing: it counts as "captured".  The check with the
\* router itself (verifyPayment) can refuse any delivery, which is no step.
AmountMatches(kind) == kind = "captured"

ConfirmsQuietly(b) == booking[b] \in {"pending_payment", "confirmed"}

\* Nothing is left of the delivery but the error the router gets.
Throw(p) ==
    /\ thrown' = thrown \cup {p}
    /\ UNCHANGED <<rows, issues>>

ConfirmBookingAfterCapture(p) ==
    LET b == BookingOf[p] IN
    /\ booking' = IF booking[b] = "pending_payment"
                  THEN [booking EXCEPT ![b] = "confirmed"] ELSE booking
    /\ issues' = IF ConfirmsQuietly(b) THEN issues ELSE issues \cup {p}
    /\ underReview' = IF ConfirmsQuietly(b) THEN underReview ELSE underReview \cup {p}

ApplyCaptureLedgerFirst(p) ==
    /\ ledger' = Post("capture", p, p, TotalOf(p))
    /\ status' = IF status[p] = "initiated" THEN [status EXCEPT ![p] = "captured"] ELSE status

\* owanbe_apply_quaser_payment_capture skips a captured and a terminal payment.
ApplyQuaserPaymentCapture(p) ==
    IF status[p] = "initiated"
    THEN /\ status' = [status EXCEPT ![p] = "captured"]
         /\ ledger' = Post("capture", p, p, TotalOf(p))
    ELSE UNCHANGED <<status, ledger>>

\* Raised by owanbe_payments_status_transition_chk, by the CHECK on the amount
\* of a ledger line, or by the CHECK on the inline reconciliation job.
CaptureRaises(p) ==
    \/ status[p] = "partially_refunded"
    \/ status[p] = "initiated" /\ TotalOf(p) = 0
    \/ ~ConfirmsQuietly(BookingOf[p]) /\ ~InlineIssueAccepted

HandlePaymentCaptured(p, kind) ==
    /\ Report(p, kind) \in events /\ kind # "failed"
    /\ status[p] # "none"
    /\ status[p] # "captured" =>
          /\ p \notin underReview
          /\ AmountMatches(kind)
          /\ Fee[BookingOf[p]] <= TotalOf(p)
    /\ IF CaptureRaises(p)
       THEN Throw(p)
       ELSE /\ ApplyQuaserPaymentCapture(p)
            /\ ConfirmBookingAfterCapture(p)
            /\ UNCHANGED <<refunded, thrown>>
    /\ UNCHANGED <<control, router>>

HandlePaymentFailedLate(p) ==
    /\ Report(p, "failed") \in events
    /\ status[p] # "none"
    /\ status' = [status EXCEPT ![p] = "failed"]
    /\ UNCHANGED <<booking, refunded, underReview, ledger, control, router, evidence>>

HandlePaymentFailed(p) ==
    /\ Report(p, "failed") \in events
    /\ status[p] = "initiated"
    /\ status' = [status EXCEPT ![p] = "failed"]
    /\ UNCHANGED <<booking, refunded, underReview, ledger, control, router, evidence>>

\* FinanceTimeoutService.runSweep; stale is the set that is old enough by now().
SweepableIfPayable ==
    {p \in Payments : status[p] = "initiated" /\ Payable(BookingOf[p])}

Sweepable == {p \in Payments : status[p] = "initiated" /\ p \notin underReview}

RunSweep(stale) ==
    /\ stale # {} /\ stale \subseteq Sweepable
    /\ status' = [p \in Payments |-> IF p \in stale THEN "failed" ELSE status[p]]
    /\ UNCHANGED <<booking, refunded, underReview, ledger, control, router, evidence>>

-----------------------------------------------------------------------------
(* Adjustments and review *)

RefundableBeyondCapture(p, amount) ==
    p \notin underReview /\ status[p] \in {"captured", "partially_refunded"} /\ amount > 0

RefundableUnderReview(p, amount) ==
    /\ status[p] \in {"captured", "partially_refunded"}
    /\ amount > 0 /\ refunded[p] + amount <= TotalOf(p)

RefundableUncaptured(p, amount) ==
    /\ p \notin underReview /\ status[p] \in CapturedStates \cup {"initiated"}
    /\ amount > 0 /\ refunded[p] + amount <= TotalOf(p)

Refundable(p, amount) ==
    /\ p \notin underReview
    /\ status[p] \in {"captured", "partially_refunded"}
    /\ amount > 0 /\ refunded[p] + amount <= TotalOf(p)

LastRefundOnly(p, amount) == amount
NextRefunded(p, amount) == refunded[p] + amount

\* The transaction of refundPayment.
RefundPayment(p, amount, key) ==
    LET full == NextRefunded(p, amount) = TotalOf(p) IN
    /\ Refundable(p, amount)
    /\ ledger' = Post("refund", key, p, amount)
    /\ refunded' = [refunded EXCEPT ![p] = NextRefunded(p, amount)]
    /\ status' = [status EXCEPT ![p] = IF full THEN "refunded" ELSE "partially_refunded"]
    /\ booking' = IF full THEN [booking EXCEPT ![BookingOf[p]] = "refunded"] ELSE booking

Refund(p, amount, key) ==
    /\ RefundPayment(p, amount, key)
    /\ UNCHANGED <<underReview, control, router, evidence>>

ApplyChargeback(p, amount, ev) ==
    /\ status[p] \in {"captured", "partially_refunded"}
    /\ amount > 0 /\ amount <= TotalOf(p)
    /\ ledger' = Post("chargeback", <<p, ev>>, p, amount)
    /\ underReview' = underReview \cup {p}
    /\ UNCHANGED <<booking, status, refunded, control, router, evidence>>

ApprovePayment(p) ==
    /\ p \in underReview
    /\ underReview' = underReview \ {p}
    /\ UNCHANGED <<booking, status, refunded, ledger, control, router, evidence>>

\* escalatePayment flags the payment and freezes the platform; rejectPayment
\* refunds what is left under the key manual-review-reject:<p> and clears the
\* flag.  Each is two statements outside one transaction.
EscalatePayment(p) ==
    /\ status[p] # "none"
    /\ underReview' = underReview \cup {p}
    /\ pending' = pending \cup {<<"escalate", p>>}
    /\ UNCHANGED <<booking, status, refunded, ledger, frozen, admitted, router, evidence>>

EscalationFreezes(p) ==
    /\ <<"escalate", p>> \in pending
    /\ frozen' = TRUE
    /\ pending' = pending \ {<<"escalate", p>>}
    /\ UNCHANGED <<rows, admitted, router, evidence>>

RejectPayment(p) ==
    /\ RefundPayment(p, TotalOf(p) - refunded[p], p)
    /\ pending' = pending \cup {<<"reject", p>>}
    /\ UNCHANGED <<underReview, frozen, admitted, router, evidence>>

RejectClearsReview(p) ==
    /\ <<"reject", p>> \in pending
    /\ underReview' = underReview \ {p}
    /\ pending' = pending \ {<<"reject", p>>}
    /\ UNCHANGED <<booking, status, refunded, ledger, frozen, admitted, router, evidence>>

\* The API process dies: what a handler still had to do is not done.
Crash ==
    /\ admitted' = {} /\ pending' = {}
    /\ UNCHANGED <<rows, frozen, router, evidence>>

SetState(freeze) ==
    /\ frozen' = freeze
    /\ UNCHANGED <<rows, admitted, pending, router, evidence>>

\* runLedgerPaymentConsistencyCheck over the payments of its period.
RunConsistencyCheck(period) ==
    LET missing == {p \in period : status[p] = "captured" /\ ~Posted("capture", p)}
        orphan == {p \in period : Posted("capture", p) /\ status[p] # "captured"} IN
    /\ underReview' = underReview \cup missing \cup orphan
    /\ UNCHANGED <<booking, status, refunded, ledger, control, router, evidence>>

-----------------------------------------------------------------------------
(* Bookings end outside these services (external) *)

CompleteBooking(b) ==
    /\ booking[b] = "confirmed"
    /\ booking' = [booking EXCEPT ![b] = "completed"]
    /\ UNCHANGED <<status, refunded, underReview, ledger, control, router, evidence>>

CancelBooking(b) ==
    /\ booking[b] \in {"pending_payment", "confirmed"}
    /\ booking' = [booking EXCEPT ![b] = "cancelled"]
    /\ UNCHANGED <<status, refunded, underReview, ledger, control, router, evidence>>

-----------------------------------------------------------------------------

Init ==
    /\ booking = [b \in Bookings |-> "pending_payment"]
    /\ status = [p \in Payments |-> "none"]
    /\ refunded = [p \in Payments |-> 0]
    /\ underReview = {} /\ ledger = {}
    /\ frozen = FALSE /\ admitted = {} /\ pending = {}
    /\ intents = {} /\ events = {}
    /\ issues = {} /\ thrown = {}

PaymentNext(p) ==
    \/ CreatePayment(p)
    \/ CreatePaymentRolledBack(p)
    \/ \E kind \in Reports : RouterReports(p, kind)
    \/ \E kind \in Reports : HandlePaymentCaptured(p, kind)
    \/ HandlePaymentFailed(p)
    \/ \E amount \in 1 .. TotalOf(p), key \in RefundKeys : Refund(p, amount, key)
    \/ \E amount \in 1 .. TotalOf(p), ev \in {e \in ChargebackEvents : ChargebackOf[e] = p} :
          ApplyChargeback(p, amount, ev)
    \/ ApprovePayment(p)
    \/ EscalatePayment(p)
    \/ EscalationFreezes(p)
    \/ RejectPayment(p)
    \/ RejectClearsReview(p)

BookingNext(b) ==
    \/ EnsurePaymentsAllowed(b)
    \/ RequestEnds(b)
    \/ CompleteBooking(b)
    \/ CancelBooking(b)

Next ==
    \/ \E p \in Payments : PaymentNext(p)
    \/ \E b \in Bookings : BookingNext(b)
    \/ \E stale \in SUBSET Payments : RunSweep(stale)
    \/ \E period \in SUBSET Payments : RunConsistencyCheck(period)
    \/ \E freeze \in BOOLEAN : SetState(freeze)
    \/ Crash

Spec == Init /\ [][Next]_vars

\* setInterval runs the sweep again and again for the life of the process, and
\* a payment only gets older: every payment that stays open is swept.
Fairness == \A p \in Payments : WF_vars(\E stale \in SUBSET Payments :
                                           p \in stale /\ RunSweep(stale))

FairSpec == Spec /\ Fairness

-----------------------------------------------------------------------------
(* Properties *)

\* Every variable has its type, and payments_refund_lte_capture holds: a row's
\* amount_refunded_minor never passes what it captured.
TypeOK ==
    /\ booking \in [Bookings -> BookingStates]
    /\ status \in [Payments -> PaymentStates]
    /\ refunded \in [Payments -> Nat]
    /\ \A p \in Payments : refunded[p] <= TotalOf(p)
    /\ underReview \subseteq Payments
    /\ ledger \subseteq Transactions
    /\ frozen \in BOOLEAN
    /\ admitted \subseteq Bookings
    /\ pending \subseteq {"escalate", "reject"} \X Payments
    /\ intents \subseteq Payments
    /\ events \subseteq [payment : Payments, kind : Reports]
    /\ issues \subseteq Payments /\ thrown \subseteq Payments

\* However captures are repeated, overtaken by failures, swept or refunded, a
\* payment's status says the money came in exactly when the ledger holds its
\* capture transaction, and that transaction is for the booking's total.
CaptureLedgerExact ==
    \A p \in Payments :
        /\ status[p] \in CapturedStates <=> Posted("capture", p)
        /\ \A t \in ledger : t.kind = "capture" /\ t.key = p =>
              t.payment = p /\ t.amount = TotalOf(p)

\* A booking only gets past pending_payment on the word of the router that the
\* whole amount of one of its payments was captured: no failure, no report of
\* another amount and no reordering of reports confirms it.
ConfirmedIsCollected ==
    \A b \in Bookings : booking[b] \in {"confirmed", "completed", "refunded"} =>
        \E p \in PaymentsOf(b) : Report(p, "captured") \in events

LedgerRefunds(p) ==
    MapThenSumSet(LAMBDA t : t.amount,
                  {t \in ledger : t.kind = "refund" /\ t.payment = p})

\* Whatever keys the refunds of all payments share, the ledger never gives back
\* more of a payment than its row says, which is never more than was captured.
RefundsBacked ==
    \A p \in Payments : LedgerRefunds(p) <= refunded[p]

StatusesOnlyAdvance ==
    \A p \in Payments :
        /\ status[p] \in {"failed", "refunded"} => status'[p] = status[p]
        /\ status[p] \in CapturedStates => status'[p] \in CapturedStates
        /\ refunded'[p] >= refunded[p]

\* owanbe_payments_status_transition_chk at the level of whole handlers: failed
\* and refunded are final, captured money never becomes uncaptured, and what
\* was refunded is never taken back.
NoStatusRevival == [][StatusesOnlyAdvance]_vars

OnlyChargebacksUnderReview ==
    \A p \in underReview \cap underReview' :
        \A t \in ledger' \ ledger : t.payment = p => t.kind = "chargeback"

\* While a payment stays under review nothing captures or refunds it: the
\* ledger can only gain chargebacks of it.
ReviewHoldsMoney == [][OnlyChargebacksUnderReview]_vars

\* The rail implements Custody: the ledger's capture transactions are what was
\* taken, the rows' refund totals what was given back.
Escrow == INSTANCE Custody WITH
    Amount <- [p \in Payments |-> TotalOf(p)],
    taken <- {p \in Payments : Posted("capture", p)},
    returned <- refunded
ImplementsCustody == Escrow!CustodySpec

\* A payment is not left open for ever: it is captured or failed, unless staff
\* took it under review, where the sweep does not touch it.
OpenPaymentsClose ==
    \A p \in Payments :
        status[p] = "initiated" ~> (status[p] # "initiated" \/ p \in underReview)

-----------------------------------------------------------------------------
(* What the documentation says and the code does not do *)

\* docs/phase10-disaster-recovery-runbook.md:44 recovers missed events by
\* replaying webhooks: then a confirmed booking has a captured payment.
ConfirmedIsFunded ==
    \A b \in Bookings : booking[b] = "confirmed" =>
        \E p \in PaymentsOf(b) : status[p] \in CapturedStates

\* The comment on confirmBookingAfterCapture: a capture that cannot confirm its
\* booking is recorded for reconciliation.
InconsistencyRecorded == thrown \subseteq issues

\* owanbe_forbid_payments_delete: rows are refunded "via status + ledger
\* reversal", so the ledger reverses what the row says was refunded.
RefundsReversed ==
    \A p \in Payments : LedgerRefunds(p) = refunded[p]
=============================================================================
