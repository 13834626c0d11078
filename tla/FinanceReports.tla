---------------------------- MODULE FinanceReports ----------------------------
(***************************************************************************)
(* What staff, vendors and organizers are shown of EscrowBooks: the SELECTs *)
(* of the admin, super admin, vendor and organizer finance services and of *)
(* the finance export as operators of its state.  They change nothing; a   *)
(* vendor's payout request is decided by them.                             *)
(*                                                                         *)
(* Timestamps, page limits and wording are left out.  What depends on rows *)
(* and clocks that are not in EscrowBooks is a parameter: a dispute's      *)
(* claim, the amounts still held for an event, an organizer's pending      *)
(* payouts, incidents, the order in which bookings were completed.         *)
(*                                                                         *)
(* A definition that is used nowhere is a faulty variant of the one that   *)
(* follows it: the slip that a property has to notice.                     *)
(***************************************************************************)
EXTENDS EscrowBooks
LOCAL INSTANCE Sequences
LOCAL Seqs == INSTANCE SequencesExt

SumOf(amount, S) == MapThenSumSet(LAMBDA x : amount[x], S)
SumOfRows(rows) == MapThenSumSet(LAMBDA r : r.amount, rows)
Abs(n) == IF n < 0 THEN -n ELSE n
AtLeastZero(n) == IF n > 0 THEN n ELSE 0

PayoutAmount == [po \in Payouts |-> Subtotal[PaymentOf[po]]]
VendorPayouts(v) == {po \in Payouts : payout[po] # "none" /\ VendorOf[PaymentOf[po]] = v}
RowsIn(status, rows) == {r \in rows : status[r] \in InFlight}

-----------------------------------------------------------------------------
(* Staff: summary and alerts of the admin dashboard *)

EscrowBalance == Balance(Escrow)
FailedPayouts == {po \in Payouts : payout[po] = "failed"}
ReviewedPayments == paymentReview \cap Payments

KpiAttention(count, levelWhenActive) == IF count <= 0 THEN "none" ELSE levelWhenActive

Attention ==
    [pendingPayouts |-> KpiAttention(Cardinality(RowsIn(payout, Payouts)),
                                     IF \E po \in Payouts : payout[po] = "processing"
                                     THEN "warning" ELSE "info"),
     underReview    |-> KpiAttention(Cardinality(ReviewedPayments \cup FailedPayouts), "critical"),
     failed         |-> KpiAttention(Cardinality(FailedPayouts), "critical"),
     reconciliation |-> KpiAttention(Cardinality(reports), "warning")]

\* Every report is inserted "high" or "critical".
Severity(issue) ==
    IF issue.kind \in {"amount_mismatch", "psp_only_transaction"} THEN "critical" ELSE "high"
AlertSeverity(issue) ==
    IF Severity(issue) \in {"high", "critical"} THEN "CRITICAL" ELSE "WARNING"

\* GROUP BY type, with BOOL_OR for the worst of the group.
Alert(type, severities) ==
    IF severities = {} THEN {}
    ELSE {[type |-> type,
           severity |-> IF "CRITICAL" \in severities THEN "CRITICAL" ELSE "WARNING"]}

Alerts ==
    Alert("reconciliation_issue", {AlertSeverity(issue) : issue \in reports})
    \cup Alert("payout_failure", {"WARNING" : po \in FailedPayouts})
    \cup Alert("payment_under_review", {"CRITICAL" : p \in ReviewedPayments})

Timeline(type, key, amount) == [type |-> type, key |-> key, amount |-> amount]
PostedFor(reasons) == {k \in Keys : k.reason \in reasons /\ Posted(k)}
Adjustment(reason) == IF reason = "payment_refund" THEN "refund" ELSE "chargeback"

\* transactions: the amount of an adjustment sums all lines of its posting.
Transactions ==
    {Timeline("payment", p, IF p \in Captured THEN Gross(p) ELSE 0) : p \in Payments}
    \cup {Timeline("payout", po, PayoutAmount[po]) : po \in {x \in Payouts : payout[x] # "none"}}
    \cup {Timeline(Adjustment(k.reason), k, Abs(Net(ledger[k]))) :
              k \in PostedFor({"payment_refund", "payment_chargeback"})}

\* The lists behind the dashboard, one row each.
Reviews == {Timeline("review", p, IF p \in Captured THEN Gross(p) ELSE 0) : p \in ReviewedPayments}
ReconciliationList == {Timeline(issue.kind, issue.of, 0) : issue \in reports}
PaymentsList ==
    {[type |-> payment[p], key |-> p, captured |-> IF p \in Captured THEN Gross(p) ELSE 0,
      refunded |-> refunded[p], underReview |-> p \in paymentReview] : p \in Payments}
PayoutsList(status) == {Timeline(status, po, PayoutAmount[po]) : po \in {x \in Payouts : payout[x] = status}}

\* computeHealth of the platform dashboard, over its counts of incidents.
PlatformHealth(critical, open) ==
    IF critical > 0 \/ Cardinality(ReconciliationList) > 5 THEN "critical"
    ELSE IF open > 0 \/ ReconciliationList # {} THEN "warning"
    ELSE "healthy"

-----------------------------------------------------------------------------
(* Staff: finance export and platform totals *)

\* A booking's refund is exported as the debit line of its posting.
ExportedBookingRefunds ==
    {Timeline("posted", k, SumDirection(ledger[k], "debit")) : k \in PostedFor({"payment_refund"})}
\* The amount is that of the payout the row names.
ExportedSettlements ==
    {Timeline(settlement[po], po, PayoutAmount[po]) : po \in {x \in Payouts : settlement[x] # "none"}}

BookingRevenueOf(S) == SumOfRows({Timeline("payment", p, Gross(p)) : p \in S \cap Captured})
VendorDrill(v) == BookingRevenueOf({p \in Payments : VendorOf[p] = v})
OrganizerDrill(o) == SumOf(Subtotal, {t \in CapturedTickets : OrganizerOf[t] = o})

\* organizerPayouts: those of its rows that are in flight or completed.
PlatformFinance(organizerPayouts) ==
    [ticketRevenue  |-> SumOf(Subtotal, CapturedTickets),
     bookingRevenue |-> BookingRevenueOf(Payments),
     payoutVolume   |-> SumOf(PayoutAmount, RowsIn(payout, Payouts)
                                            \cup {po \in Payouts : payout[po] = "completed"})
                        + MapThenSumSet(LAMBDA q : Subtotal[TicketOf[q]], organizerPayouts)]
DashboardRevenue == SumOf(Subtotal, CapturedTickets) + BookingRevenueOf(Payments)

\* owned: the vendors that belong to the organizer's owner.
OrganizerRevenue(o, owned) ==
    [ticket  |-> SumOf(Subtotal, {t \in CapturedTickets : OrganizerOf[t] = o}),
     booking |-> BookingRevenueOf({p \in Payments : VendorOf[p] \in owned})]

-----------------------------------------------------------------------------
(* Vendors: balances, timeline and payout requests *)

\* The ledger_pivot of calculateAvailableBalance: vendor_payable lines by reason.
Earnings(v) == NetFor(VendorPayable(v), {"payment_capture_quaser"})
Refunds(v) == 0 - NetFor(VendorPayable(v), {"payment_refund"})
Chargebacks(v) == 0 - NetFor(VendorPayable(v), {"payment_chargeback"})
NetEarnings(v) == Earnings(v) - Refunds(v) - Chargebacks(v)
PendingPayouts(v) == SumOf(PayoutAmount, RowsIn(payout, VendorPayouts(v)))

Available(v, liability) == AtLeastZero(NetEarnings(v) - PendingPayouts(v) - liability)

\* Only a vendor with ledger lines has a row of balances.
HasBalance(v) ==
    \E k \in PostedFor({"payment_capture_quaser", "payment_refund", "payment_chargeback",
                         "payout_escrow_release"}) : LinesOf(ledger[k], VendorPayable(v)) # {}

\* totals of getDashboardSummary; a failed payout is under review.
VendorTotals(scoped, liability) ==
    LET rows == {v \in scoped : HasBalance(v)} IN
    [available   |-> MapThenSumSet(LAMBDA v : Available(v, liability), rows),
     pending     |-> MapThenSumSet(PendingPayouts, rows),
     underReview |-> MapThenSumSet(LAMBDA v : SumOf(PayoutAmount, VendorPayouts(v) \cap FailedPayouts), rows),
     earnings    |-> MapThenSumSet(NetEarnings, rows)]

\* earning_rows of getTransactions
VendorTimeline(v) ==
    {Timeline(IF k.reason \in {"payment_chargeback", "payment_refund"}
              THEN Adjustment(k.reason) ELSE "earning",
              k, Net(LinesOf(ledger[k], VendorPayable(v)))) :
        k \in {j \in PostedFor({"payment_capture_quaser", "payout_escrow_release",
                                "payment_refund", "payment_chargeback"}) :
                  LinesOf(ledger[j], VendorPayable(v)) # {}}}

\* The bookings requestPayout may take, of completed in its order.
EligibleRows(v, completed) ==
    SelectSeq(completed, LAMBDA p :
        /\ VendorOf[p] = v /\ payment[p] = "captured"
        /\ ~\E po \in Payouts : PaymentOf[po] = p /\ payout[po] \in InFlight \cup {"completed"})

\* What is left of the amount after each row that still fits was enqueued.
Unallocated(amount, rows) ==
    Seqs!FoldLeft(LAMBDA left, p : IF Subtotal[p] > left THEN left ELSE left - Subtotal[p], amount, rows)

RequestPayoutAnswer(v, amount, liability, completed) ==
    CASE amount <= 0 -> "INVALID_AMOUNT"
      [] amount > 0 /\ Available(v, liability) < amount -> "INSUFFICIENT_AVAILABLE_BALANCE"
      [] OTHER -> IF EligibleRows(v, completed) = <<>> THEN "NOT_FOUND"
                  ELSE IF Unallocated(amount, EligibleRows(v, completed)) # 0 THEN "AMOUNT_NOT_ALLOCATABLE"
                  ELSE "ok"

-----------------------------------------------------------------------------
(* Organizers: summary and timeline of their events *)

TicketsOf(o) == {t \in CapturedTickets : OrganizerOf[t] = o}

\* An order is fulfilled by the SQL function that captures its payment.
TicketRevenue(o) == SumOf(Subtotal, TicketsOf(o))
PlatformFee(o) == SumOf(Fee, TicketsOf(o))

NetOrganizerPayable(o) ==
    NetFor(OrganizerPayable(o),
           {"payment_capture_ticket", "payment_refund_ticket", "payout_organizer_release"})
AvailableForPayout(o, pending, held) == AtLeastZero(NetOrganizerPayable(o) - pending - held)

\* capture_rows and fee_rows of getEventTransactions
CaptureRows(o) ==
    {Timeline("ticket_sale", TicketCaptureKey(t),
              Net(LinesOf(ledger[TicketCaptureKey(t)], OrganizerPayable(o)))) :
        t \in {s \in TicketPayments : OrganizerOf[s] = o /\ Posted(TicketCaptureKey(s))}}
FeeRows(o) ==
    {Timeline("platform_fee", TicketCaptureKey(t),
              0 - Net(LinesOf(ledger[TicketCaptureKey(t)], PlatformFees))) :
        t \in {s \in TicketPayments : OrganizerOf[s] = o /\ Posted(TicketCaptureKey(s))}}

-----------------------------------------------------------------------------
(* Properties *)

\* The escrow balance that staff see covers what of the captured subtotals was
\* neither refunded nor released, whatever passed through the pool for tickets,
\* chargebacks, repeated refund keys and releases that no payout completed with.
EscrowCovered ==
    EscrowBalance >= SumOf(Subtotal, Captured) - SumOf(refunded, Payments)
                     - SumOf(PayoutAmount, {po \in Payouts : settlement[po] # "none"})

\* A settlement that the mirror disagrees with, and whose payout stays open, is
\* never silent: staff have it in their list, both dashboards warn of it and a
\* critical alert is raised until it is settled, also after the payout failed or
\* was retried.
MismatchIsShown ==
    \A po \in Payouts : settlement[po] = "mismatch" =>
        /\ Timeline("amount_mismatch", po, 0) \in ReconciliationList
        /\ PlatformHealth(0, 0) # "healthy"
        /\ Attention.reconciliation = "warning"
        /\ [type |-> "reconciliation_issue", severity |-> "CRITICAL"] \in Alerts

Keyed(type, rows) == {r.key : r \in {q \in rows : q.type = type}}
RefundsPosted(o) == {k \in Cases : OrganizerOf[CaseOf[k]] = o /\ Posted(TicketRefundKey(k))}
ReleasesPosted(o) ==
    {q \in OrganizerPayouts : OrganizerOf[TicketOf[q]] = o /\ Posted(OrganizerReleaseKey(q))}

\* An organizer's sales and fees are the same by order and by posting, and what
\* is left to pay out is sales less refunds and releases.
OrganizerReportsAgree ==
    \A o \in Organizers :
        /\ SumOfRows(CaptureRows(o)) = TicketRevenue(o)
        /\ SumOfRows(FeeRows(o)) = 0 - PlatformFee(o)
        /\ AvailableForPayout(o, 0, 0) =
              AtLeastZero(TicketRevenue(o) - SumOf(CaseRefund, RefundsPosted(o))
                          - MapThenSumSet(LAMBDA q : Subtotal[TicketOf[q]], ReleasesPosted(o)))

\* A vendor's timeline has the releases that its settlements made; together the
\* vendors see the chargebacks that staff see, their totals lack none of them,
\* whoever has no row of balances, and never have more in flight than staff see.
VendorReportsAgree ==
    /\ \A v \in Vendors :
          SumOfRows({r \in VendorTimeline(v) : r.type = "earning"}) =
              SumOf(PayoutAmount, {po \in VendorPayouts(v) : settlement[po] # "none"})
    /\ UNION {Keyed("chargeback", VendorTimeline(v)) : v \in Vendors}
           = Keyed("chargeback", Transactions)
    /\ VendorTotals(Vendors, 0).earnings =
          0 - MapThenSumSet(LAMBDA k : SumDirection(ledger[k], "debit"), PostedFor({"payment_chargeback"}))
    /\ VendorTotals(Vendors, 0).pending + VendorTotals(Vendors, 0).underReview
          <= SumOfRows(PayoutsList("pending")) + SumOfRows(PayoutsList("processing"))
             + SumOfRows(PayoutsList("failed"))

\* The platform totals, their drill-downs, the dashboards, the lists and the
\* export, each a query of its own, say the same of bookings and payouts, and
\* the escrow balance is the captures less what the export says left it.
StaffReportsAgree ==
    /\ PlatformFinance({}).bookingRevenue = MapThenSumSet(VendorDrill, Vendors)
    /\ PlatformFinance({}).bookingRevenue =
          SumOfRows({r \in Transactions : r.type = "payment"})
    /\ DashboardRevenue =
          MapThenSumSet(OrganizerDrill, Organizers) + MapThenSumSet(LAMBDA r : r.captured, PaymentsList)
    /\ \A o \in Organizers :
          OrganizerRevenue(o, Vendors) = [ticket |-> OrganizerDrill(o), booking |-> BookingRevenueOf(Payments)]
    /\ Keyed("refund", Transactions) = Keyed("posted", ExportedBookingRefunds)
    /\ SumOfRows(ExportedBookingRefunds) <= MapThenSumSet(LAMBDA r : r.refunded, PaymentsList)
    /\ EscrowBalance = SumOf(Subtotal, Captured)
                       - SumOfRows(ExportedBookingRefunds) - SumOfRows(ExportedSettlements)
    /\ PlatformFinance({}).payoutVolume =
          SumOfRows(PayoutsList("completed")) + SumOfRows(PayoutsList("pending") \cup PayoutsList("processing"))
    /\ (Attention.pendingPayouts = "none") =
          (PayoutsList("pending") \cup PayoutsList("processing") = {})
    /\ (Attention.underReview = "none") = (Reviews \cup PayoutsList("failed") = {})

\* Reports taken from rows and reports taken from the ledger say the same, after
\* any interleaving of the two rails on the accounts they share; and the fees
\* that the platform holds are those captured less those that cases gave back.
ReportsAgree ==
    /\ OrganizerReportsAgree /\ VendorReportsAgree /\ StaffReportsAgree
    /\ Balance(PlatformFees) =
          SumOf(Fee, Captured) + SumOf(Fee, CapturedTickets)
          - MapThenSumSet(LAMBDA k : FeeReversal(k), {k \in Cases : Posted(TicketRefundKey(k))})

\* vendor-finance.service.ts:50-52: "Single source of truth for vendor financial
\* aggregates. Net earnings = earnings - refunds - chargebacks."  A vendor that
\* nothing was refunded for, charged back from or paid is shown what its captured
\* bookings earned, and may ask for it.
EarningsReported ==
    \A v \in Vendors :
        LET sold == {p \in Captured : VendorOf[p] = v}
            earned == SumOf(Subtotal, sold) IN
        (VendorPayouts(v) = {} /\ Chargebacks(v) = 0 /\ \A p \in sold : refunded[p] = 0)
            => /\ NetEarnings(v) = earned
               /\ earned > 0 => RequestPayoutAnswer(v, earned, 0, Seqs!SetToSeq(sold)) = "ok"
=============================================================================
