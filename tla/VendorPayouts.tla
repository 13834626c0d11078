---------------------------- MODULE VendorPayouts ----------------------------
(***************************************************************************)
(* The booking rail after the escrow: staff release completed bookings to  *)
(* their vendors in batches, one row of `payouts` and one call to the      *)
(* Quaser router per payment; webhooks, repeated and early or late,        *)
(* complete the rows; a timer fails stale ones; disputes block them, and   *)
(* resolving a dispute refunds or releases.                                *)
(*                                                                         *)
(* A batch or a resolution is a Caller: a request handler whose awaits     *)
(* interleave with everything else, and which a crash ends anywhere.       *)
(* Of a payment only what this rail reads is kept; how it was captured and *)
(* what its refunds amount to is in BookingPayments.                       *)
(*                                                                         *)
(* A definition that is used nowhere is a faulty variant of the one that   *)
(* follows it: the slip that a property has to notice.                     *)
(***************************************************************************)
EXTENDS Disputes, FiniteSets

CONSTANTS Bookings, Payments, Payouts, Callers,
          BookingOf,            \* the booking of a payment
          Disputed,             \* the payment a dispute is about
          NoPayment, NoPayout, NoDispute

ASSUME BookingOfAssumption == BookingOf \in [Payments -> Bookings]
ASSUME DisputedAssumption == Disputed \in [Disputes -> Payments]
ASSUME NullAssumption ==
    NoPayment \notin Payments /\ NoPayout \notin Payouts /\ NoDispute \notin Disputes

VARIABLES booking,       \* bookings.status
          payment,       \* payments.status
          paymentReview, \* payments with under_review = TRUE
          payout,        \* payouts.status, "none" before the row exists
          payoutOf,      \* payouts.payment_id
          payoutReview,  \* payouts with under_review = TRUE
          released,      \* payouts with a ledger transaction payout_release:<id>
          mismatches,    \* payouts with a report that the treasury's copy of
                         \* that transaction disagrees with it
          transfers,     \* payouts the router accepted a transfer for
          frozen,        \* finance_system_state_control.state = 'frozen'
          caller         \* where each request handler is

money == <<booking, payment, paymentReview>>
rows == <<payout, payoutOf, payoutReview, released, mismatches>>
vars == <<money, rows, dispute, transfers, frozen, caller>>

PayoutStates == {"none", "pending", "processing", "completed", "failed"}
InFlight == {"pending", "processing"}
Holding == {"asking", "accepted", "refused"}   \* stages with a row in hand
Stages == {"idle", "listed", "admitted", "asking", "accepted", "refused",
           "refund", "release", "close"}
CallerStates ==
    [at : Stages, queue : SUBSET Payments, payout : Payouts \cup {NoPayout},
     dispute : Disputes \cup {NoDispute}, override : BOOLEAN]

Idle == [at |-> "idle", queue |-> {}, payout |-> NoPayout,
         dispute |-> NoDispute, override |-> FALSE]

PayoutsOf(b) == {po \in Payouts : payout[po] # "none" /\ BookingOf[payoutOf[po]] = b}
DisputeOpen(b) == \E d \in Disputes : Active(d) /\ BookingOf[Disputed[d]] = b
PayoutsAllowed(c) == ~frozen \/ caller[c].override

-----------------------------------------------------------------------------
(* findEligiblePayouts *)

\* A payout under review does not count, whatever its status.
Eligible(p) ==
    LET b == BookingOf[p] IN
    /\ payment[p] = "captured" /\ p \notin paymentReview
    /\ booking[b] = "completed"
    /\ ~DisputeOpen(b)
    /\ \A po \in PayoutsOf(b) : po \in payoutReview \/ payout[po] = "failed"

\* The handler goes on to its next row, to the end of its resolution, or ends.
Continue(c, queue) ==
    caller' = [caller EXCEPT ![c] =
        IF queue # {} THEN [@ EXCEPT !.at = "listed", !.queue = queue, !.payout = NoPayout]
        ELSE IF @.dispute # NoDispute
             THEN [@ EXCEPT !.at = "close", !.queue = {}, !.payout = NoPayout]
             ELSE Idle]

At(c, stage) == caller' = [caller EXCEPT ![c].at = stage]

\* The rows of one batch: the limit, payout_hold and the cooling-off clock leave
\* any part of the eligible ones.
ProcessPayoutBatch(c, queue, override) ==
    /\ caller[c].at = "idle"
    /\ ~frozen \/ override
    /\ queue # {} /\ \A p \in queue : Eligible(p)
    /\ caller' = [caller EXCEPT ![c] = [Idle EXCEPT !.at = "listed", !.queue = queue,
                                                    !.override = override]]
    /\ UNCHANGED <<money, rows, dispute, transfers, frozen>>

-----------------------------------------------------------------------------
(* enqueuePayoutForBooking: every await is a step *)

EnsurePayoutsAllowed(c) ==
    /\ caller[c].at = "listed"
    /\ PayoutsAllowed(c)
    /\ At(c, "admitted")
    /\ UNCHANGED <<money, rows, dispute, transfers, frozen>>

PayoutsFrozen(c, p) ==
    /\ caller[c].at = "listed" /\ p \in caller[c].queue
    /\ ~PayoutsAllowed(c)
    /\ Continue(c, caller[c].queue \ {p})
    /\ UNCHANGED <<money, rows, dispute, transfers, frozen>>

TriggerOnly(b, po) == DisputeOpen(b)
IndexOnly(b, po) == \E q \in PayoutsOf(b) \ {po} : payout[q] \in InFlight

\* owanbe_payouts_block_when_dispute_open and payouts_one_in_flight_per_booking,
\* for a row po of booking b that would become pending or processing.
Raises(b, po) ==
    \/ DisputeOpen(b)
    \/ \E q \in PayoutsOf(b) \ {po} : payout[q] \in InFlight

InsertPayoutUnlinked(c, p, po) ==
    /\ caller[c].at = "admitted" /\ p \in caller[c].queue
    /\ payout[po] = "none" /\ ~Raises(BookingOf[p], po)
    /\ payout' = [payout EXCEPT ![po] = "pending"]
    /\ caller' = [caller EXCEPT ![c].at = "asking", ![c].payout = po, ![c].queue = @ \ {p}]
    /\ UNCHANGED <<money, payoutOf, payoutReview, released, mismatches, dispute, transfers, frozen>>

InsertPayout(c, p, po) ==
    /\ caller[c].at = "admitted" /\ p \in caller[c].queue
    /\ payout[po] = "none" /\ ~Raises(BookingOf[p], po)
    /\ payout' = [payout EXCEPT ![po] = "pending"]
    /\ payoutOf' = [payoutOf EXCEPT ![po] = p]
    /\ caller' = [caller EXCEPT ![c].at = "asking", ![c].payout = po, ![c].queue = @ \ {p}]
    /\ UNCHANGED <<money, payoutReview, released, mismatches, dispute, transfers, frozen>>

InsertSkipped(c, p) ==
    /\ caller[c].at = "admitted" /\ p \in caller[c].queue
    /\ Raises(BookingOf[p], NoPayout)
    /\ Continue(c, caller[c].queue \ {p})
    /\ UNCHANGED <<money, rows, dispute, transfers, frozen>>

\* initiatePayoutTransfer (the router is external): an error may hide a transfer
\* that was accepted.
RouterAccepts(c) ==
    /\ caller[c].at = "asking"
    /\ transfers' = transfers \cup {caller[c].payout}
    /\ At(c, "accepted")
    /\ UNCHANGED <<money, rows, dispute, frozen>>

RouterFails(c, accepted) ==
    /\ caller[c].at = "asking"
    /\ transfers' = IF accepted THEN transfers \cup {caller[c].payout} ELSE transfers
    /\ At(c, "refused")
    /\ UNCHANGED <<money, rows, dispute, frozen>>

\* UPDATE ... SET status = 'processing' WHERE id = $1, whatever the row says by
\* now.
MarkProcessing(c) ==
    LET po == caller[c].payout IN
    /\ caller[c].at = "accepted"
    /\ IF Raises(BookingOf[payoutOf[po]], po)
       THEN At(c, "refused") /\ UNCHANGED payout
       ELSE /\ payout' = [payout EXCEPT ![po] = "processing"]
            /\ Continue(c, caller[c].queue)
    /\ UNCHANGED <<money, payoutOf, payoutReview, released, mismatches, dispute, transfers, frozen>>

MarkFailedUnheld(c) ==
    /\ caller[c].at = "refused"
    /\ payout' = [payout EXCEPT ![caller[c].payout] = "failed"]
    /\ caller' = [caller EXCEPT ![c] = Idle]
    /\ UNCHANGED <<money, payoutOf, payoutReview, released, mismatches, dispute, transfers, frozen>>

\* The catch block.  A batch logs the error and goes on, a resolution ends.
MarkFailed(c) ==
    LET po == caller[c].payout IN
    /\ caller[c].at = "refused"
    /\ payout' = [payout EXCEPT ![po] = "failed"]
    /\ payoutReview' = payoutReview \cup {po}
    /\ IF caller[c].dispute = NoDispute
       THEN Continue(c, caller[c].queue)
       ELSE caller' = [caller EXCEPT ![c] = Idle]
    /\ UNCHANGED <<money, payoutOf, released, mismatches, dispute, transfers, frozen>>

-----------------------------------------------------------------------------
(* The payout webhook and the sweep *)

\* The checks of the handler on the payout and its payment, which it locks.  It
\* does not ask for a dispute.
Completable(po) ==
    /\ payout[po] \in InFlight /\ po \notin payoutReview
    /\ payment[payoutOf[po]] = "captured"

CompletionRaisesTwice(b, po) == \E q \in PayoutsOf(b) \ {po} : payout[q] = "completed"

\* The dispute trigger and payouts_one_completed_per_booking, which are asked by
\* the UPDATE to completed only.
CompletionRaises(b, po) ==
    \/ DisputeOpen(b)
    \/ \E q \in PayoutsOf(b) \ {po} : payout[q] = "completed"

NoJournalWhilePending(po) == IF payout[po] = "pending" THEN released ELSE released \cup {po}

\* postSettlementJournal: the ledger transaction payout_release:<id>, once.
PostSettlementJournal(po) == released \cup {po}

\* Whether the copy that the dual write makes agrees with the release is a choice
\* (Treasury has what it depends on); one that was posted is not copied again.
\* A disagreement commits the release with a report of it, before the UPDATE, and
\* leaves the payout; an UPDATE that raises takes the release back with it.
HandlePayoutCompleted(po, agrees) ==
    /\ po \in transfers
    /\ Completable(po)
    /\ released' = PostSettlementJournal(po)
    /\ IF agrees
       THEN /\ ~CompletionRaises(BookingOf[payoutOf[po]], po)
            /\ payout' = [payout EXCEPT ![po] = "completed"]
            /\ UNCHANGED mismatches
       ELSE /\ po \notin released
            /\ mismatches' = mismatches \cup {po}
            /\ UNCHANGED payout
    /\ UNCHANGED <<money, payoutOf, payoutReview, dispute, transfers, frozen, caller>>

SweepablePending == {po \in Payouts : payout[po] = "pending" /\ po \notin payoutReview}
Sweepable == {po \in Payouts : payout[po] = "processing" /\ po \notin payoutReview}

RunSweep(stale) ==
    /\ stale # {} /\ stale \subseteq Sweepable
    /\ payout' = [po \in Payouts |-> IF po \in stale THEN "failed" ELSE payout[po]]
    /\ payoutReview' = payoutReview \cup stale
    /\ UNCHANGED <<money, payoutOf, released, mismatches, dispute, transfers, frozen, caller>>

-----------------------------------------------------------------------------
(* Disputes *)

DisputeEvent(d) ==
    /\ CreateDispute(d) \/ AddMessage(d) \/ UploadEvidence(d)
    /\ UNCHANGED <<money, rows, transfers, frozen, caller>>

\* resolveDispute reads the status once; client_win and partial refund first.
ResolveDispute(c, d, refunds) ==
    /\ caller[c].at = "idle"
    /\ Active(d)
    /\ caller' = [caller EXCEPT ![c] = [Idle EXCEPT !.at = IF refunds THEN "refund" ELSE "release",
                                                    !.dispute = d, !.override = TRUE]]
    /\ UNCHANGED <<money, rows, dispute, transfers, frozen>>

\* FinancialAdjustmentsService.refundPayment, in full or in part.
RefundPayment(p, full) ==
    /\ payment[p] \in {"captured", "partially_refunded"} /\ p \notin paymentReview
    /\ payment' = [payment EXCEPT ![p] = IF full THEN "refunded" ELSE "partially_refunded"]
    /\ booking' = IF full THEN [booking EXCEPT ![BookingOf[p]] = "refunded"] ELSE booking
    /\ UNCHANGED paymentReview

\* Then, when asked to release the rest, to the payout.
ResolveRefund(c, full, releases) ==
    /\ caller[c].at = "refund"
    /\ RefundPayment(Disputed[caller[c].dispute], full)
    /\ At(c, IF releases THEN "release" ELSE "close")
    /\ UNCHANGED <<rows, dispute, transfers, frozen>>

ResolveRefundThrows(c) ==
    /\ caller[c].at = "refund"
    /\ caller' = [caller EXCEPT ![c] = Idle]
    /\ UNCHANGED <<money, rows, dispute, transfers, frozen>>

ResolveRelease(c, p) ==
    /\ caller[c].at = "release"
    /\ BookingOf[p] = BookingOf[Disputed[caller[c].dispute]]
    /\ Eligible(p)
    /\ caller' = [caller EXCEPT ![c].at = "listed", ![c].queue = {p}]
    /\ UNCHANGED <<money, rows, dispute, transfers, frozen>>

ResolveNothingEligible(c) ==
    /\ caller[c].at = "release"
    /\ \A p \in Payments : BookingOf[p] = BookingOf[Disputed[caller[c].dispute]] => ~Eligible(p)
    /\ At(c, "close")
    /\ UNCHANGED <<money, rows, dispute, transfers, frozen>>

ResolveClose(c) ==
    /\ caller[c].at = "close"
    /\ MarkResolved(caller[c].dispute)
    /\ caller' = [caller EXCEPT ![c] = Idle]
    /\ UNCHANGED <<money, rows, transfers, frozen>>

-----------------------------------------------------------------------------
(* What BookingPayments does to what is read here *)

Refund(p, full) == RefundPayment(p, full) /\ UNCHANGED <<rows, dispute, transfers, frozen, caller>>

\* Escalation, chargeback or reconciliation; and approvePayment.
FlagPayment(p) ==
    /\ p \notin paymentReview
    /\ paymentReview' = paymentReview \cup {p}
    /\ UNCHANGED <<booking, payment, rows, dispute, transfers, frozen, caller>>

ApprovePayment(p) ==
    /\ p \in paymentReview
    /\ paymentReview' = paymentReview \ {p}
    /\ UNCHANGED <<booking, payment, rows, dispute, transfers, frozen, caller>>

CompleteBooking(b) ==
    /\ booking[b] = "confirmed"
    /\ booking' = [booking EXCEPT ![b] = "completed"]
    /\ UNCHANGED <<payment, paymentReview, rows, dispute, transfers, frozen, caller>>

SetState(freeze) ==
    /\ frozen' = freeze
    /\ UNCHANGED <<money, rows, dispute, transfers, caller>>

\* The API process dies with every request it was serving.
Crash ==
    /\ caller' = [c \in Callers |-> Idle]
    /\ UNCHANGED <<money, rows, dispute, transfers, frozen>>

-----------------------------------------------------------------------------

Init ==
    /\ booking = [b \in Bookings |-> "confirmed"]
    /\ payment = [p \in Payments |-> "captured"]
    /\ paymentReview = {}
    /\ payout = [po \in Payouts |-> "none"]
    /\ payoutOf = [po \in Payouts |-> NoPayment]
    /\ payoutReview = {} /\ released = {} /\ mismatches = {} /\ transfers = {}
    /\ dispute = [d \in Disputes |-> "none"]
    /\ frozen = FALSE
    /\ caller = [c \in Callers |-> Idle]

\* What a handler does once it runs.
CallerStep(c) ==
    \/ EnsurePayoutsAllowed(c)
    \/ \E p \in Payments : PayoutsFrozen(c, p)
    \/ \E p \in Payments, po \in Payouts : InsertPayout(c, p, po)
    \/ \E p \in Payments : InsertSkipped(c, p)
    \/ RouterAccepts(c)
    \/ \E accepted \in BOOLEAN : RouterFails(c, accepted)
    \/ MarkProcessing(c)
    \/ MarkFailed(c)
    \/ \E full, releases \in BOOLEAN : ResolveRefund(c, full, releases)
    \/ ResolveRefundThrows(c)
    \/ \E p \in Payments : ResolveRelease(c, p)
    \/ ResolveNothingEligible(c)
    \/ ResolveClose(c)

CallerStarts(c) ==
    \/ \E queue \in SUBSET Payments, override \in BOOLEAN : ProcessPayoutBatch(c, queue, override)
    \/ \E d \in Disputes, refunds \in BOOLEAN : ResolveDispute(c, d, refunds)

Next ==
    \/ \E c \in Callers : CallerStarts(c) \/ CallerStep(c)
    \/ \E po \in Payouts, agrees \in BOOLEAN : HandlePayoutCompleted(po, agrees)
    \/ \E stale \in SUBSET Payouts : RunSweep(stale)
    \/ \E d \in Disputes : DisputeEvent(d)
    \/ \E p \in Payments, full \in BOOLEAN : Refund(p, full)
    \/ \E p \in Payments : FlagPayment(p) \/ ApprovePayment(p)
    \/ \E b \in Bookings : CompleteBooking(b)
    \/ \E freeze \in BOOLEAN : SetState(freeze)
    \/ Crash

Spec == Init /\ [][Next]_vars

\* The timer sweeps every payout that stays in processing.
Fairness ==
    \A po \in Payouts : WF_vars(\E stale \in SUBSET Payouts : po \in stale /\ RunSweep(stale))

FairSpec == Spec /\ Fairness

-----------------------------------------------------------------------------
(* Properties *)

\* Every variable has its type, and a payout row names its payment from the
\* moment it exists.
TypeOK ==
    /\ booking \in [Bookings -> {"confirmed", "completed", "refunded"}]
    /\ payment \in [Payments -> {"captured", "partially_refunded", "refunded"}]
    /\ paymentReview \subseteq Payments
    /\ payout \in [Payouts -> PayoutStates]
    /\ payoutOf \in [Payouts -> Payments \cup {NoPayment}]
    /\ \A po \in Payouts : payout[po] # "none" => payoutOf[po] \in Payments
    /\ payoutReview \subseteq Payouts /\ released \subseteq Payouts
    /\ mismatches \subseteq Payouts /\ transfers \subseteq Payouts
    /\ dispute \in [Disputes -> DisputeStates]
    /\ frozen \in BOOLEAN
    /\ caller \in [Callers -> CallerStates]

\* Until its handler has written the router's answer, a payout row is in the
\* hands of that handler alone: no other request holds it, the sweep leaves it
\* pending, and only a webhook can move it, to completed.
RowsAreOwned ==
    /\ \A c \in Callers : caller[c].at \in Holding =>
          /\ caller[c].payout \in Payouts
          /\ payout[caller[c].payout] \in {"pending", "completed"}
    /\ \A c, d \in Callers :
          c # d /\ caller[c].at \in Holding /\ caller[d].at \in Holding
          => caller[c].payout # caller[d].payout

\* However batches, late updates of their rows, sweeps and webhooks interleave,
\* a booking never has two payouts in flight, nor two completed ones.
OnePayoutPerBooking ==
    \A po, q \in Payouts :
        /\ po # q /\ payoutOf[po] # NoPayment /\ payoutOf[q] # NoPayment
        /\ BookingOf[payoutOf[po]] = BookingOf[payoutOf[q]]
        => /\ ~(payout[po] \in InFlight /\ payout[q] \in InFlight)
           /\ ~(payout[po] = "completed" /\ payout[q] = "completed")

\* A payout is completed only with its escrow release in the ledger, also after
\* a late update took it back to processing and a repeated webhook completed it
\* again.
CompletedIsReleased ==
    \A po \in Payouts : payout[po] = "completed" => po \in released

\* A failed payout is under review and nothing else is: the retry of
\* retryFailedPayout, which wants a failed payout that is not under review,
\* never finds one.
FailedIsHeld == \A po \in Payouts : payout[po] = "failed" <=> po \in payoutReview

ReleaseGuarded ==
    \A po \in released' \ released :
        LET b == BookingOf[payoutOf[po]] IN
        /\ po \in transfers /\ po \notin payoutReview
        /\ payment[payoutOf[po]] = "captured"
        /\ DisputeOpen(b) \/ (\E q \in PayoutsOf(b) : q # po /\ payout[q] = "completed")
              => po \in mismatches' /\ payout'[po] \in InFlight

\* Escrow is released only for a transfer the router accepted, of a payment that
\* is still captured whole, however long ago the payout was found eligible.  If
\* its booking is disputed at that moment, or was paid out before, what is
\* released is a settlement that disagrees: it is reported, and its payout stays
\* in flight.  (The mismatch is committed before the trigger and the index are
\* asked, so it is not true that nothing is released during a dispute.)
ReleasesAreGuarded == [][ReleaseGuarded]_vars

HeldByDispute ==
    \A po \in Payouts :
        payout'[po] \in {"pending", "processing", "completed"} /\ payout'[po] # payout[po]
        => ~DisputeOpen(BookingOf[payoutOf'[po]])

\* The comment on owanbe_payouts_block_when_dispute_open: no payout enters
\* pending, processing or completed while its booking has an open dispute, also
\* when the dispute was opened between the listing, the insert, the router's
\* answer and the update.
DisputesHoldPayouts == [][HeldByDispute]_vars

\* A payout does not stay in processing for ever, even if no webhook comes.
ProcessingSettles ==
    \A po \in Payouts : payout[po] = "processing" ~> payout[po] # "processing"

-----------------------------------------------------------------------------
(* What the documentation says and the code does not do *)

\* The comment on payouts_one_completed_per_booking: the escrow release of a
\* booking "cannot be duplicated".  Settlements that disagree, which are posted
\* without asking that index, are left aside.
ReleasedOnce ==
    \A po, q \in released \ mismatches :
        BookingOf[payoutOf[po]] = BookingOf[payoutOf[q]] => po = q
=============================================================================
