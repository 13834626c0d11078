------------------------ MODULE BookingPaymentsProofs ------------------------
(***************************************************************************)
(* What holds of BookingPayments for every set of bookings, payments, keys *)
(* and amounts.                                                            *)
(***************************************************************************)
EXTENDS BookingPayments, SumTheorems, TLAPS

USE BookingOfAssumption, TotalAssumption, FeeAssumption

LEMMA TotalOfNat == \A p \in Payments : TotalOf(p) \in Nat /\ BookingOf[p] \in Bookings
  BY DEF TotalOf

LEMMA KeysHold ==
  /\ Payments \subseteq Keys /\ RefundKeys \subseteq Keys
  /\ \A p \in Payments, ev \in ChargebackEvents : <<p, ev>> \in Keys
  BY DEF Keys

\* Posting a well-typed transaction leaves a well-typed ledger.
LEMMA PostType ==
  ledger \subseteq Transactions =>
    \A kind \in {"capture", "refund", "chargeback"}, key \in Keys, p \in Payments, amount \in Nat :
       Post(kind, key, p, amount) \subseteq Transactions
  BY DEF Post, Transactions

\* Init establishes the types and every step keeps them: the status columns
\* stay in their enumerations and a refund total below its capture.
THEOREM TypeCorrect == Spec => []TypeOK
<1>1. Init => TypeOK
  <2>1. Init => frozen \in BOOLEAN
    BY Zenon DEF Init
  <2> QED
    BY <2>1, TotalOfNat DEF Init, TypeOK, BookingStates, PaymentStates
<1>2. TypeOK /\ [Next]_vars => TypeOK'
  <2> SUFFICES ASSUME TypeOK, [Next]_vars PROVE TypeOK'
    OBVIOUS
  <2>1. CASE UNCHANGED vars
    BY <2>1 DEF TypeOK, vars, rows, control, router, evidence
  <2>2. ASSUME NEW p \in Payments, PaymentNext(p) PROVE TypeOK'
    <3>1. CASE CreatePayment(p)
      BY <3>1 DEF CreatePayment, TypeOK, PaymentStates, TotalOf, evidence
    <3>2. CASE CreatePaymentRolledBack(p)
      BY <3>2 DEF CreatePaymentRolledBack, TypeOK, rows, evidence
    <3>3. ASSUME NEW kind \in Reports, RouterReports(p, kind) PROVE TypeOK'
      BY <3>3 DEF RouterReports, Report, TypeOK, rows, control, evidence
    <3>4. ASSUME NEW kind \in Reports, HandlePaymentCaptured(p, kind) PROVE TypeOK'
      <4>1. CASE CaptureRaises(p)
        BY <3>4, <4>1 DEF HandlePaymentCaptured, Throw, TypeOK, rows, control, router
      <4>2. CASE ~CaptureRaises(p)
        <5>1. ApplyQuaserPaymentCapture(p) /\ ConfirmBookingAfterCapture(p)
              /\ UNCHANGED <<refunded, thrown, control, router>>
          BY <3>4, <4>2 DEF HandlePaymentCaptured
        <5>2. ledger' \subseteq Transactions
          BY <5>1, PostType, TotalOfNat, KeysHold DEF ApplyQuaserPaymentCapture, TypeOK
        <5>3. status' \in [Payments -> PaymentStates]
          BY <5>1 DEF ApplyQuaserPaymentCapture, TypeOK, PaymentStates, CapturedStates
        <5>4. /\ booking' \in [Bookings -> BookingStates]
              /\ issues' \subseteq Payments /\ underReview' \subseteq Payments
          BY <5>1 DEF ConfirmBookingAfterCapture, TypeOK, BookingStates
        <5> QED
          BY <5>1, <5>2, <5>3, <5>4 DEF TypeOK, control, router
      <4> QED
        BY <4>1, <4>2
    <3>5. CASE HandlePaymentFailed(p)
      BY <3>5 DEF HandlePaymentFailed, TypeOK, PaymentStates, control, router, evidence
    <3>6. ASSUME NEW amount \in Nat, NEW key \in Keys, RefundPayment(p, amount, key)
          PROVE  /\ ledger' \subseteq Transactions
                 /\ status' \in [Payments -> PaymentStates]
                 /\ booking' \in [Bookings -> BookingStates]
                 /\ refunded' \in [Payments -> Nat]
                 /\ \A q \in Payments : refunded'[q] <= TotalOf(q)
      <4>1. ledger' \subseteq Transactions
        BY <3>6, PostType DEF RefundPayment, TypeOK
      <4>2. /\ status' \in [Payments -> PaymentStates]
            /\ booking' \in [Bookings -> BookingStates]
        BY <3>6 DEF RefundPayment, TypeOK, PaymentStates, CapturedStates, BookingStates
      <4>3. /\ refunded' \in [Payments -> Nat]
            /\ \A q \in Payments : refunded'[q] <= TotalOf(q)
        BY <3>6, TotalOfNat DEF RefundPayment, Refundable, NextRefunded, TypeOK
      <4> QED
        BY <4>1, <4>2, <4>3
    <3>7. ASSUME NEW amount \in 1 .. TotalOf(p), NEW key \in RefundKeys, Refund(p, amount, key)
          PROVE  TypeOK'
      BY <3>6, <3>7, KeysHold, TotalOfNat DEF Refund, TypeOK, TotalOf, control, router, evidence
    <3>8. ASSUME NEW amount \in 1 .. TotalOf(p), NEW ev \in ChargebackEvents,
                 ApplyChargeback(p, amount, ev)
          PROVE  TypeOK'
      <4>1. ledger' = Post("chargeback", <<p, ev>>, p, amount) /\ amount \in Nat
        BY <3>8, TotalOfNat DEF ApplyChargeback
      <4>2. ledger' \subseteq Transactions
        BY <4>1, PostType, KeysHold DEF TypeOK
      <4> QED
        BY <3>8, <4>2 DEF ApplyChargeback, TypeOK, TotalOf, control, router, evidence
    <3>9. CASE ApprovePayment(p)
      BY <3>9 DEF ApprovePayment, TypeOK, TotalOf, control, router, evidence
    <3>10. CASE EscalatePayment(p)
      BY <3>10 DEF EscalatePayment, TypeOK, TotalOf, router, evidence
    <3>11. CASE EscalationFreezes(p)
      BY <3>11 DEF EscalationFreezes, TypeOK, TotalOf, rows, router, evidence
    <3>12. CASE RejectPayment(p)
      <4>1. TotalOf(p) - refunded[p] \in Nat /\ p \in Keys
        BY TotalOfNat, KeysHold DEF TypeOK
      <4> QED
        BY <3>6, <3>12, <4>1 DEF RejectPayment, TypeOK, TotalOf, router, evidence
    <3>13. CASE RejectClearsReview(p)
      BY <3>13 DEF RejectClearsReview, TypeOK, TotalOf, router, evidence
    <3> QED
      BY <2>2, <3>1, <3>2, <3>3, <3>4, <3>5, <3>7, <3>8, <3>9, <3>10, <3>11, <3>12, <3>13
      DEF PaymentNext
  <2>3. ASSUME NEW b \in Bookings, BookingNext(b) PROVE TypeOK'
    <3>1. CASE EnsurePaymentsAllowed(b)
      BY <3>1 DEF EnsurePaymentsAllowed, TypeOK, TotalOf, rows, router, evidence
    <3>2. CASE RequestEnds(b)
      BY <3>2 DEF RequestEnds, TypeOK, TotalOf, rows, router, evidence
    <3>3. CASE CompleteBooking(b)
      BY <3>3 DEF CompleteBooking, TypeOK, BookingStates, TotalOf, control, router, evidence
    <3>4. CASE CancelBooking(b)
      BY <3>4 DEF CancelBooking, TypeOK, BookingStates, TotalOf, control, router, evidence
    <3> QED
      BY <2>3, <3>1, <3>2, <3>3, <3>4 DEF BookingNext
  <2>4. ASSUME NEW stale \in SUBSET Payments, RunSweep(stale) PROVE TypeOK'
    BY <2>4 DEF RunSweep, TypeOK, PaymentStates, TotalOf, control, router, evidence
  <2>5. ASSUME NEW period \in SUBSET Payments, RunConsistencyCheck(period) PROVE TypeOK'
    BY <2>5 DEF RunConsistencyCheck, TypeOK, TotalOf, control, router, evidence
  <2>6. ASSUME NEW freeze \in BOOLEAN, SetState(freeze) PROVE TypeOK'
    BY <2>6 DEF SetState, TypeOK, TotalOf, rows, router, evidence
  <2>7. CASE Crash
    BY <2>7 DEF Crash, TypeOK, TotalOf, rows, router, evidence
  <2> QED
    BY <2>1, <2>2, <2>3, <2>4, <2>5, <2>6, <2>7 DEF Next
<1> QED
  BY <1>1, <1>2, PTL DEF Spec

-----------------------------------------------------------------------------
(* What a step can do to money.  Every other argument goes over these cases.   *)

Money == <<status, refunded, ledger>>

\* A delivery of a capture that is not rolled back.
Capture(p) == \E kind \in Reports : HandlePaymentCaptured(p, kind) /\ ~CaptureRaises(p)

\* refundPayment, called by staff or by rejectPayment.
GivesBack(p) ==
    \E amount \in 1 .. TotalOf(p), key \in Keys :
        RefundPayment(p, amount, key) /\ UNCHANGED <<underReview, events>>

ChargedBack(p) ==
    \E amount \in 1 .. TotalOf(p), ev \in ChargebackEvents : ApplyChargeback(p, amount, ev)

\* A booking moves on its own only to its ends.
BookingsOnly ==
    \A b \in Bookings :
        booking'[b] \in {booking[b], "cancelled"} \/ booking[b] = "confirmed"

\* No money moves; the router may have said more.
Quiet == UNCHANGED Money /\ events \subseteq events' /\ BookingsOnly

LEMMA StepCases ==
  ASSUME TypeOK, [Next]_vars
  PROVE  \/ \E p \in Payments : Capture(p)
         \/ \E p \in Payments : HandlePaymentFailed(p)
         \/ \E stale \in SUBSET Payments : RunSweep(stale)
         \/ \E p \in Payments : GivesBack(p)
         \/ \E p \in Payments : ChargedBack(p)
         \/ \E p \in Payments : CreatePayment(p)
         \/ Quiet
<1>1. CASE UNCHANGED vars
  BY <1>1 DEF vars, rows, router, Quiet, Money, BookingsOnly, TypeOK
<1>2. ASSUME NEW p \in Payments, PaymentNext(p)
      PROVE  \/ Capture(p) \/ HandlePaymentFailed(p) \/ GivesBack(p)
             \/ ChargedBack(p) \/ CreatePayment(p)
             \/ Quiet
  <2>1. CASE CreatePaymentRolledBack(p)
    BY <2>1 DEF CreatePaymentRolledBack, Quiet, Money, BookingsOnly, TypeOK, rows
  <2>2. ASSUME NEW kind \in Reports, RouterReports(p, kind)
        PROVE  Quiet
    BY <2>2 DEF RouterReports, Quiet, Money, BookingsOnly, TypeOK, rows
  <2>3. ASSUME NEW kind \in Reports, HandlePaymentCaptured(p, kind)
        PROVE  Capture(p) \/ Quiet
    BY <2>3, CaptureRaises(p) \/ ~CaptureRaises(p)
    DEF HandlePaymentCaptured, Throw, Capture, Quiet, Money, BookingsOnly, TypeOK, rows, router
  <2>4. ASSUME NEW amount \in 1 .. TotalOf(p), NEW key \in RefundKeys, Refund(p, amount, key)
        PROVE  GivesBack(p)
    BY <2>4, KeysHold DEF Refund, GivesBack, router
  <2>5. CASE RejectPayment(p)
    <3>1. TotalOf(p) - refunded[p] \in 1 .. TotalOf(p) /\ p \in Keys
      BY <2>5, TotalOfNat, KeysHold DEF RejectPayment, RefundPayment, Refundable, TypeOK
    <3> QED
      BY <2>5, <3>1 DEF RejectPayment, GivesBack, router
  <2>6. CASE ApprovePayment(p) \/ EscalatePayment(p) \/ EscalationFreezes(p) \/ RejectClearsReview(p)
    BY <2>6 DEF ApprovePayment, EscalatePayment, EscalationFreezes, RejectClearsReview,
                Quiet, Money, BookingsOnly, TypeOK, rows, router
  <2> QED
    BY <1>2, <2>1, <2>2, <2>3, <2>4, <2>5, <2>6 DEF PaymentNext, ChargedBack
<1>3. ASSUME NEW b \in Bookings, BookingNext(b)
      PROVE  Quiet
  BY <1>3 DEF BookingNext, EnsurePaymentsAllowed, RequestEnds, CompleteBooking, CancelBooking,
              Quiet, Money, BookingsOnly, TypeOK, rows, router
<1>4. ASSUME NEW period \in SUBSET Payments, RunConsistencyCheck(period)
      PROVE  Quiet
  BY <1>4 DEF RunConsistencyCheck, Quiet, Money, BookingsOnly, TypeOK, router
<1>5. ASSUME NEW freeze \in BOOLEAN, SetState(freeze)
      PROVE  Quiet
  BY <1>5 DEF SetState, Quiet, Money, BookingsOnly, TypeOK, rows, router
<1>6. CASE Crash
  BY <1>6 DEF Crash, Quiet, Money, BookingsOnly, TypeOK, rows, router
<1> QED
  BY <1>1, <1>2, <1>3, <1>4, <1>5, <1>6 DEF Next

\* INSERT ... ON CONFLICT DO NOTHING adds exactly the keyed transaction.
LEMMA PostAdds ==
  ASSUME NEW kind, NEW key, NEW p, NEW amount, ledger' = Post(kind, key, p, amount)
  PROVE  /\ \A k, y : Posted(k, y)' <=> Posted(k, y) \/ (k = kind /\ y = key)
         /\ \A t \in ledger' : \/ t \in ledger
                               \/ t = [kind |-> kind, key |-> key, payment |-> p, amount |-> amount]
<1>1. CASE Posted(kind, key)
  BY <1>1 DEF Post, Posted
<1>2. CASE ~Posted(kind, key)
  <2> DEFINE new == [kind |-> kind, key |-> key, payment |-> p, amount |-> amount]
  <2>1. ledger' = ledger \cup {new}
    BY <1>2 DEF Post
  <2>2. new.kind = kind /\ new.key = key
    OBVIOUS
  <2> HIDE DEF new
  <2>3. \A k, y : Posted(k, y)' <=> Posted(k, y) \/ (k = kind /\ y = key)
    BY <2>1, <2>2 DEF Posted
  <2> QED
    BY <2>1, <2>3 DEF new
<1> QED
  BY <1>1, <1>2

-----------------------------------------------------------------------------

CaptureInv == TypeOK /\ CaptureLedgerExact

LEMMA CaptureInvStep == CaptureInv /\ [Next]_vars /\ TypeOK' => CaptureLedgerExact'
<1> SUFFICES ASSUME CaptureInv, [Next]_vars, TypeOK' PROVE CaptureLedgerExact'
  OBVIOUS
<1>1. ASSUME NEW p \in Payments, Capture(p) PROVE CaptureLedgerExact'
  <2>1. ApplyQuaserPaymentCapture(p)
    BY <1>1 DEF Capture, HandlePaymentCaptured
  <2>2. CASE status[p] = "initiated"
    <3>1. status' = [status EXCEPT ![p] = "captured"] /\ ledger' = Post("capture", p, p, TotalOf(p))
      BY <2>1, <2>2 DEF ApplyQuaserPaymentCapture
    <3>2. /\ \A k, y : Posted(k, y)' <=> Posted(k, y) \/ (k = "capture" /\ y = p)
          /\ \A t \in ledger' :
                \/ t \in ledger
                \/ t = [kind |-> "capture", key |-> p, payment |-> p, amount |-> TotalOf(p)]
      BY <3>1, PostAdds
    <3>3. \A q \in Payments : status'[q] \in CapturedStates <=> status[q] \in CapturedStates \/ q = p
      BY <3>1 DEF CaptureInv, TypeOK, CapturedStates
    <3> QED
      BY <3>2, <3>3 DEF CaptureInv, CaptureLedgerExact, TotalOf
  <2>3. CASE status[p] # "initiated"
    BY <2>1, <2>3 DEF ApplyQuaserPaymentCapture, CaptureInv, CaptureLedgerExact, Posted, TotalOf
  <2> QED
    BY <2>2, <2>3
<1>2. ASSUME NEW p \in Payments, HandlePaymentFailed(p) PROVE CaptureLedgerExact'
  BY <1>2 DEF HandlePaymentFailed, CaptureInv, CaptureLedgerExact, TypeOK, CapturedStates, Posted, TotalOf
<1>3. ASSUME NEW stale \in SUBSET Payments, RunSweep(stale) PROVE CaptureLedgerExact'
  BY <1>3 DEF RunSweep, Sweepable, CaptureInv, CaptureLedgerExact, TypeOK, CapturedStates, Posted, TotalOf
<1>4. ASSUME NEW p \in Payments, GivesBack(p) PROVE CaptureLedgerExact'
  <2>1. PICK amount, key : RefundPayment(p, amount, key)
    BY <1>4 DEF GivesBack
  <2>2. ledger' = Post("refund", key, p, amount)
    BY <2>1 DEF RefundPayment
  <2>3. \A q \in Payments : status'[q] \in CapturedStates <=> status[q] \in CapturedStates
    BY <2>1 DEF RefundPayment, Refundable, CaptureInv, TypeOK, CapturedStates
  <2> QED
    BY <2>2, <2>3, PostAdds DEF CaptureInv, CaptureLedgerExact, TotalOf
<1>5. ASSUME NEW p \in Payments, ChargedBack(p) PROVE CaptureLedgerExact'
  <2>1. PICK amount, ev : ApplyChargeback(p, amount, ev)
    BY <1>5 DEF ChargedBack
  <2>2. ledger' = Post("chargeback", <<p, ev>>, p, amount) /\ UNCHANGED status
    BY <2>1 DEF ApplyChargeback
  <2> QED
    BY <2>2, PostAdds DEF CaptureInv, CaptureLedgerExact, TotalOf
<1>6. ASSUME NEW p \in Payments, CreatePayment(p) PROVE CaptureLedgerExact'
  BY <1>6 DEF CreatePayment, CaptureInv, CaptureLedgerExact, TypeOK, CapturedStates, Posted, TotalOf
<1>7. CASE Quiet
  BY <1>7 DEF Quiet, Money, CaptureInv, CaptureLedgerExact, Posted, TotalOf
<1> QED
  BY <1>1, <1>2, <1>3, <1>4, <1>5, <1>6, <1>7, StepCases DEF CaptureInv

\* The ledger holds the capture of exactly the payments whose status says the
\* money came in, whatever the order of webhooks, sweeps, refunds and reviews.
THEOREM CaptureLedgerCorrect == Spec => []CaptureLedgerExact
<1>1. Init => CaptureLedgerExact
  BY DEF Init, CaptureLedgerExact, CapturedStates, Posted
<1>2. TypeOK /\ TypeOK' /\ CaptureLedgerExact /\ [Next]_vars => CaptureLedgerExact'
  BY CaptureInvStep DEF CaptureInv
<1> QED
  BY <1>1, <1>2, TypeCorrect, PTL DEF Spec

-----------------------------------------------------------------------------

\* ConfirmedIsCollected is not inductive: a redelivery confirms the booking of a
\* payment that is captured already, and a full refund closes its booking, both
\* without looking at what the router said.
CollectedInv ==
    /\ ConfirmedIsCollected
    /\ \A p \in Payments : status[p] \in CapturedStates => Report(p, "captured") \in events

LEMMA CollectedStep ==
  ASSUME TypeOK, CollectedInv, [Next]_vars
  PROVE  CollectedInv'
<1>1. ASSUME NEW p \in Payments, Capture(p) PROVE CollectedInv'
  <2>1. PICK kind \in Reports : HandlePaymentCaptured(p, kind) /\ ~CaptureRaises(p)
    BY <1>1 DEF Capture
  <2>2. Report(p, "captured") \in events
    BY <2>1 DEF HandlePaymentCaptured, AmountMatches, CollectedInv, CapturedStates
  <2>3. events' = events
    BY <2>1 DEF HandlePaymentCaptured, router
  <2>4. \A q \in Payments : status'[q] \in CapturedStates => status[q] \in CapturedStates \/ q = p
    BY <2>1 DEF HandlePaymentCaptured, ApplyQuaserPaymentCapture, TypeOK, CapturedStates
  <2>5. \A b \in Bookings : booking'[b] = booking[b] \/ p \in PaymentsOf(b)
    BY <2>1 DEF HandlePaymentCaptured, ConfirmBookingAfterCapture, TypeOK, PaymentsOf
  <2> QED
    BY <2>2, <2>3, <2>4, <2>5 DEF CollectedInv, ConfirmedIsCollected, Report, PaymentsOf
<1>2. ASSUME NEW p \in Payments, HandlePaymentFailed(p) PROVE CollectedInv'
  BY <1>2 DEF HandlePaymentFailed, router, TypeOK, CapturedStates,
              CollectedInv, ConfirmedIsCollected, Report, PaymentsOf
<1>3. ASSUME NEW stale \in SUBSET Payments, RunSweep(stale) PROVE CollectedInv'
  BY <1>3 DEF RunSweep, router, TypeOK, CapturedStates,
              CollectedInv, ConfirmedIsCollected, Report, PaymentsOf
<1>4. ASSUME NEW p \in Payments, GivesBack(p) PROVE CollectedInv'
  <2>1. PICK amount, key : RefundPayment(p, amount, key) /\ UNCHANGED events
    BY <1>4 DEF GivesBack
  <2>2. Report(p, "captured") \in events
    BY <2>1 DEF RefundPayment, Refundable, CollectedInv, CapturedStates
  <2>3. \A q \in Payments : status'[q] \in CapturedStates => status[q] \in CapturedStates \/ q = p
    BY <2>1 DEF RefundPayment, TypeOK
  <2>4. \A b \in Bookings : booking'[b] = booking[b] \/ p \in PaymentsOf(b)
    BY <2>1 DEF RefundPayment, TypeOK, PaymentsOf
  <2> QED
    BY <2>1, <2>2, <2>3, <2>4 DEF CollectedInv, ConfirmedIsCollected, Report, PaymentsOf
<1>5. ASSUME NEW p \in Payments, ChargedBack(p) PROVE CollectedInv'
  BY <1>5 DEF ChargedBack, ApplyChargeback, router,
              CollectedInv, ConfirmedIsCollected, Report, PaymentsOf
<1>6. ASSUME NEW p \in Payments, CreatePayment(p) PROVE CollectedInv'
  BY <1>6 DEF CreatePayment, TypeOK, CapturedStates,
              CollectedInv, ConfirmedIsCollected, Report, PaymentsOf
<1>7. CASE Quiet
  BY <1>7 DEF Quiet, Money, BookingsOnly, CollectedInv, ConfirmedIsCollected, Report, PaymentsOf
<1> QED
  BY <1>1, <1>2, <1>3, <1>4, <1>5, <1>6, <1>7, StepCases

\* No booking gets past pending_payment unless the router reported the whole
\* amount of one of its payments captured.
THEOREM ConfirmedIsCollectedCorrect == Spec => []ConfirmedIsCollected
<1>1. Init => CollectedInv
  BY DEF Init, CollectedInv, ConfirmedIsCollected, CapturedStates
<1>2. TypeOK /\ CollectedInv /\ [Next]_vars => CollectedInv'
  BY CollectedStep
<1>3. CollectedInv => ConfirmedIsCollected
  BY DEF CollectedInv
<1> QED
  BY <1>1, <1>2, <1>3, TypeCorrect, PTL DEF Spec

-----------------------------------------------------------------------------

\* No handler revives a failed or refunded payment, forgets a capture or takes
\* a refund back.
THEOREM NoStatusRevivalCorrect == Spec => NoStatusRevival
<1>1. ASSUME TypeOK, [Next]_vars PROVE StatusesOnlyAdvance
  <2>1. ASSUME NEW p \in Payments, Capture(p) PROVE StatusesOnlyAdvance
    BY <1>1, <2>1 DEF Capture, HandlePaymentCaptured, ApplyQuaserPaymentCapture,
                StatusesOnlyAdvance, TypeOK, CapturedStates
  <2>2. ASSUME NEW p \in Payments, HandlePaymentFailed(p) PROVE StatusesOnlyAdvance
    BY <1>1, <2>2 DEF HandlePaymentFailed, StatusesOnlyAdvance, TypeOK, CapturedStates
  <2>3. ASSUME NEW stale \in SUBSET Payments, RunSweep(stale) PROVE StatusesOnlyAdvance
    BY <1>1, <2>3 DEF RunSweep, Sweepable, StatusesOnlyAdvance, TypeOK, CapturedStates
  <2>4. ASSUME NEW p \in Payments, GivesBack(p) PROVE StatusesOnlyAdvance
    <3>1. PICK amount \in 1 .. TotalOf(p), key \in Keys : RefundPayment(p, amount, key)
      BY <1>1, <2>4 DEF GivesBack
    <3> QED
      BY <1>1, <3>1, TotalOfNat
      DEF RefundPayment, Refundable, NextRefunded, StatusesOnlyAdvance, TypeOK, CapturedStates
  <2>5. ASSUME NEW p \in Payments, ChargedBack(p) PROVE StatusesOnlyAdvance
    BY <1>1, <2>5 DEF ChargedBack, ApplyChargeback, StatusesOnlyAdvance, TypeOK
  <2>6. ASSUME NEW p \in Payments, CreatePayment(p) PROVE StatusesOnlyAdvance
    BY <1>1, <2>6 DEF CreatePayment, StatusesOnlyAdvance, TypeOK, CapturedStates
  <2>7. CASE Quiet
    BY <1>1, <2>7 DEF Quiet, Money, StatusesOnlyAdvance, TypeOK
  <2> QED
    BY <1>1, <2>1, <2>2, <2>3, <2>4, <2>5, <2>6, <2>7, StepCases
<1> QED
  BY <1>1, TypeCorrect, PTL DEF Spec, NoStatusRevival

\* While a payment stays under review, no transaction but a chargeback is posted
\* for it.
THEOREM ReviewHoldsMoneyCorrect == Spec => ReviewHoldsMoney
<1>1. ASSUME TypeOK, [Next]_vars PROVE OnlyChargebacksUnderReview
  <2>1. ASSUME NEW p \in Payments, Capture(p) PROVE OnlyChargebacksUnderReview
    <3>1. ApplyQuaserPaymentCapture(p) /\ (status[p] # "captured" => p \notin underReview)
      BY <2>1 DEF Capture, HandlePaymentCaptured
    <3>2. CASE status[p] = "initiated"
      BY <3>1, <3>2, PostAdds DEF ApplyQuaserPaymentCapture, OnlyChargebacksUnderReview
    <3>3. CASE status[p] # "initiated"
      BY <3>1, <3>3 DEF ApplyQuaserPaymentCapture, OnlyChargebacksUnderReview
    <3> QED
      BY <3>2, <3>3
  <2>2. ASSUME NEW p \in Payments, GivesBack(p) PROVE OnlyChargebacksUnderReview
    <3>1. PICK amount, key : RefundPayment(p, amount, key)
      BY <2>2 DEF GivesBack
    <3>2. ledger' = Post("refund", key, p, amount) /\ p \notin underReview
      BY <3>1 DEF RefundPayment, Refundable
    <3> QED
      BY <3>2, PostAdds DEF OnlyChargebacksUnderReview
  <2>3. ASSUME NEW p \in Payments, ChargedBack(p) PROVE OnlyChargebacksUnderReview
    <3>1. PICK amount, ev : ledger' = Post("chargeback", <<p, ev>>, p, amount)
      BY <2>3 DEF ChargedBack, ApplyChargeback
    <3> QED
      BY <3>1, PostAdds DEF OnlyChargebacksUnderReview
  <2>4. CASE ledger' = ledger
    BY <2>4 DEF OnlyChargebacksUnderReview
  <2> QED
    BY <1>1, <2>1, <2>2, <2>3, <2>4, StepCases
    DEF HandlePaymentFailed, RunSweep, CreatePayment, Quiet, Money
<1> QED
  BY <1>1, TypeCorrect, PTL DEF Spec, ReviewHoldsMoney

-----------------------------------------------------------------------------

\* The rail implements Custody: money is taken once and whole, and only what was
\* taken is given back.
THEOREM CustodyRefinement == Spec => ImplementsCustody
<1>1. Init => Escrow!CustodyInit
  BY DEF Init, Escrow!CustodyInit, Posted
<1>2. ASSUME TypeOK, CaptureLedgerExact, [Next]_vars
      PROVE  [Escrow!CustodyNext]_<<{p \in Payments : Posted("capture", p)}, refunded>>
  <2> DEFINE Taken == {p \in Payments : Posted("capture", p)}
  <2>1. ASSUME NEW p \in Payments, Capture(p)
        PROVE  Escrow!Take(p) \/ UNCHANGED <<Taken, refunded>>
    <3>1. ApplyQuaserPaymentCapture(p) /\ UNCHANGED refunded
      BY <2>1 DEF Capture, HandlePaymentCaptured
    <3>2. CASE status[p] = "initiated"
      <4>1. \A k, y : Posted(k, y)' <=> Posted(k, y) \/ (k = "capture" /\ y = p)
        BY <3>1, <3>2, PostAdds DEF ApplyQuaserPaymentCapture
      <4>2. p \notin Taken
        BY <1>2, <3>2 DEF CaptureLedgerExact, CapturedStates
      <4> QED
        BY <3>1, <4>1, <4>2 DEF Escrow!Take
    <3>3. CASE status[p] # "initiated"
      BY <3>1, <3>3 DEF ApplyQuaserPaymentCapture, Posted
    <3> QED
      BY <3>2, <3>3
  <2>2. ASSUME NEW p \in Payments, GivesBack(p) PROVE Escrow!CustodyNext
    <3>1. PICK amount \in 1 .. TotalOf(p), key \in Keys : RefundPayment(p, amount, key)
      BY <2>2 DEF GivesBack
    <3>2. ledger' = Post("refund", key, p, amount)
      BY <3>1 DEF RefundPayment
    <3>3. UNCHANGED Taken
      BY <3>2, PostAdds
    <3>4. p \in Taken /\ refunded[p] + amount <= TotalOf(p)
      BY <1>2, <3>1 DEF RefundPayment, Refundable, CaptureLedgerExact, CapturedStates
    <3>5. refunded' = [refunded EXCEPT ![p] = @ + amount]
      BY <1>2, <3>1 DEF RefundPayment, NextRefunded, TypeOK
    <3> QED
      BY <3>3, <3>4, <3>5 DEF Escrow!CustodyNext, Escrow!GiveBack
  <2>3. ASSUME NEW p \in Payments, ChargedBack(p) PROVE UNCHANGED <<Taken, refunded>>
    <3>1. PICK amount, ev : ApplyChargeback(p, amount, ev)
      BY <2>3 DEF ChargedBack
    <3>2. ledger' = Post("chargeback", <<p, ev>>, p, amount) /\ UNCHANGED refunded
      BY <3>1 DEF ApplyChargeback
    <3> QED
      BY <3>2, PostAdds
  <2>4. CASE UNCHANGED <<ledger, refunded>>
    BY <2>4 DEF Posted
  <2> QED
    BY <1>2, <2>1, <2>2, <2>3, <2>4, StepCases
    DEF HandlePaymentFailed, RunSweep, CreatePayment, Quiet, Money, Escrow!CustodyNext
<1> QED
  BY <1>1, <1>2, TypeCorrect, CaptureLedgerCorrect, PTL
  DEF Spec, ImplementsCustody, Escrow!CustodySpec
-----------------------------------------------------------------------------
(* What the ledger gave back, as a total over its refund transactions.         *)

RefundRows(book, p) == {t \in book : t.kind = "refund" /\ t.payment = p}
SumOfAmounts(R) == SumFunctionOnSet([t \in R |-> t.amount], R)

LEMMA LedgerRefundsIsSum ==
  ASSUME NEW p
  PROVE  /\ LedgerRefunds(p) = SumOfAmounts(RefundRows(ledger, p))
         /\ LedgerRefunds(p)' = SumOfAmounts(RefundRows(ledger', p))
<1>1. LedgerRefunds(p) = SumOfAmounts(RefundRows(ledger, p))
  BY Zenon DEF LedgerRefunds, SumOfAmounts, RefundRows, SumFunctionOnSet, FoldFunctionOnSet,
               MapThenSumSet, MapThenFoldSet
<1>2. LedgerRefunds(p)' = SumOfAmounts(RefundRows(ledger', p))
  BY Zenon DEF LedgerRefunds, SumOfAmounts, RefundRows, SumFunctionOnSet, FoldFunctionOnSet,
               MapThenSumSet, MapThenFoldSet
<1> QED
  BY <1>1, <1>2

LEMMA RowsAreFinite ==
  ASSUME NEW book, IsFiniteSet(book), book \subseteq Transactions, NEW p
  PROVE  /\ IsFiniteSet(RefundRows(book, p))
         /\ \A t \in RefundRows(book, p) : t.amount \in Int
         /\ SumOfAmounts(RefundRows(book, p)) \in Int
<1>1. IsFiniteSet(RefundRows(book, p))
  BY FS_Subset DEF RefundRows
<1>2. \A t \in RefundRows(book, p) : t.amount \in Int
  BY DEF RefundRows, Transactions
<1>3. SumOfAmounts(RefundRows(book, p)) \in Int
  BY <1>1, <1>2, SumType DEF SumOfAmounts
<1> QED
  BY <1>1, <1>2, <1>3

\* A refund transaction more adds its amount to what its payment was given back.
LEMMA OneRowMore ==
  ASSUME NEW R, IsFiniteSet(R), \A t \in R : t.amount \in Int,
         NEW new, new \notin R, new.amount \in Int
  PROVE  SumOfAmounts(R \cup {new}) = SumOfAmounts(R) + new.amount
<1> DEFINE all == [t \in R \cup {new} |-> t.amount]
<1>1. SumFunctionOnSet(all, R \cup {new}) = SumFunctionOnSet(all, R) + all[new]
  <2>1. \A t \in R \cup {new} : all[t] \in Int
    OBVIOUS
  <2> HIDE DEF all
  <2> QED
    BY <2>1, SumMore
<1>2. SumFunctionOnSet(all, R) = SumOfAmounts(R)
  <2>1. \A t \in R : all[t] = [u \in R |-> u.amount][t]
    OBVIOUS
  <2> HIDE DEF all
  <2> QED
    BY <2>1, SumSame DEF SumOfAmounts
<1>3. SumOfAmounts(R \cup {new}) = SumFunctionOnSet(all, R \cup {new}) /\ all[new] = new.amount
  BY DEF SumOfAmounts
<1> QED
  BY <1>1, <1>2, <1>3

\* RefundsBacked holds step by step of a ledger with finitely many transactions.
BackedInv == IsFiniteSet(ledger) /\ RefundsBacked

LEMMA RefundGivesBack ==
  ASSUME TypeOK, TypeOK', BackedInv, NEW p \in Payments, GivesBack(p)
  PROVE  BackedInv'
<1>1. PICK amount \in 1 .. TotalOf(p), key \in Keys : RefundPayment(p, amount, key)
  BY DEF GivesBack
<1> DEFINE new == [kind |-> "refund", key |-> key, payment |-> p, amount |-> amount]
<1>2. /\ ledger' = Post("refund", key, p, amount)
      /\ refunded' = [refunded EXCEPT ![p] = refunded[p] + amount]
  BY <1>1 DEF RefundPayment, NextRefunded
<1>3. /\ amount \in Nat /\ refunded[p] \in Nat /\ refunded'[p] = refunded[p] + amount
      /\ \A q \in Payments : q # p => refunded'[q] = refunded[q]
  BY <1>2, TotalOfNat DEF TypeOK
<1>4. CASE Posted("refund", key)
  <2>1. ledger' = ledger
    BY <1>2, <1>4 DEF Post
  <2>2. \A q \in Payments : LedgerRefunds(q)' = LedgerRefunds(q) /\ LedgerRefunds(q) \in Int
    BY <2>1, LedgerRefundsIsSum, RowsAreFinite DEF BackedInv, TypeOK
  <2> QED
    BY <1>3, <2>1, <2>2 DEF BackedInv, RefundsBacked, TypeOK
<1>5. CASE ~Posted("refund", key)
  <2>1. ledger' = ledger \cup {new} /\ new \notin ledger
    BY <1>2, <1>5 DEF Post, Posted
  <2>2. IsFiniteSet(ledger')
    BY <2>1, FS_AddElement DEF BackedInv
  <2>3. /\ RefundRows(ledger', p) = RefundRows(ledger, p) \cup {new}
        /\ \A q \in Payments : q # p => RefundRows(ledger', q) = RefundRows(ledger, q)
    BY <2>1 DEF RefundRows
  <2>4. /\ new \notin RefundRows(ledger, p) /\ new.amount = amount
        /\ \A q \in Payments : /\ IsFiniteSet(RefundRows(ledger, q))
                               /\ \A t \in RefundRows(ledger, q) : t.amount \in Int
                               /\ LedgerRefunds(q) \in Int
    <3>1. new \notin RefundRows(ledger, p) /\ new.amount = amount
      BY <2>1 DEF RefundRows
    <3>2. ASSUME NEW q \in Payments
          PROVE  /\ IsFiniteSet(RefundRows(ledger, q))
                 /\ \A t \in RefundRows(ledger, q) : t.amount \in Int
                 /\ LedgerRefunds(q) \in Int
      BY LedgerRefundsIsSum, RowsAreFinite DEF BackedInv, TypeOK
    <3> QED
      BY <3>1, <3>2
  <2>5. LedgerRefunds(p)' = LedgerRefunds(p) + amount
    <3> HIDE DEF new
    <3>1. new.amount \in Int
      BY <1>3, <2>4
    <3>2. SumOfAmounts(RefundRows(ledger, p) \cup {new}) = SumOfAmounts(RefundRows(ledger, p)) + new.amount
      BY <2>4, <3>1, OneRowMore
    <3> QED
      BY <2>3, <2>4, <3>2, LedgerRefundsIsSum
  <2>6. \A q \in Payments : q # p => LedgerRefunds(q)' = LedgerRefunds(q)
    BY <2>3, LedgerRefundsIsSum
  <2> HIDE DEF new
  <2>7. \A q \in Payments : LedgerRefunds(q)' <= refunded'[q]
    BY <1>3, <2>4, <2>5, <2>6 DEF BackedInv, RefundsBacked, TypeOK
  <2> QED
    BY <2>2, <2>7 DEF BackedInv, RefundsBacked
<1> QED
  BY <1>4, <1>5

LEMMA NothingGivenBack ==
  ASSUME TypeOK, TypeOK', BackedInv, UNCHANGED refunded,
         \/ UNCHANGED ledger
         \/ \E kind \in {"capture", "chargeback"} : \E key, p, amount : ledger' = Post(kind, key, p, amount)
  PROVE  BackedInv'
<1>1. /\ IsFiniteSet(ledger')
      /\ \A q \in Payments : RefundRows(ledger', q) = RefundRows(ledger, q)
  <2>1. CASE UNCHANGED ledger
    BY <2>1 DEF BackedInv
  <2>2. CASE \E kind \in {"capture", "chargeback"} : \E key, p, amount : ledger' = Post(kind, key, p, amount)
    <3>1. PICK kind \in {"capture", "chargeback"} : \E key, p, amount : ledger' = Post(kind, key, p, amount)
      BY <2>2
    <3>0. PICK key, p, amount : ledger' = Post(kind, key, p, amount)
      BY <3>1
    <3> DEFINE new == [kind |-> kind, key |-> key, payment |-> p, amount |-> amount]
    <3>2. ledger' = ledger \/ ledger' = ledger \cup {new}
      BY <3>0 DEF Post
    <3>3. new.kind # "refund"
      OBVIOUS
    <3> HIDE DEF new
    <3> QED
      BY <3>2, <3>3, FS_AddElement DEF BackedInv, RefundRows
  <2> QED
    BY <2>1, <2>2
<1>2. \A q \in Payments : LedgerRefunds(q)' = LedgerRefunds(q)
  BY <1>1, LedgerRefundsIsSum
<1> QED
  BY <1>1, <1>2 DEF BackedInv, RefundsBacked

\* Whatever keys the refunds share and however they are repeated, the ledger
\* gives back no more of a payment than its row says.
THEOREM RefundsBackedCorrect == Spec => []RefundsBacked
<1>1. Init => BackedInv
  <2> SUFFICES ASSUME Init PROVE BackedInv
    OBVIOUS
  <2>1. \A p \in Payments : RefundRows(ledger, p) = {}
    BY DEF Init, RefundRows
  <2>2. \A p \in Payments : LedgerRefunds(p) = 0
    BY <2>1, LedgerRefundsIsSum, SumEmpty DEF SumOfAmounts
  <2> QED
    BY <2>2, FS_EmptySet DEF Init, BackedInv, RefundsBacked
<1>2. ASSUME TypeOK, TypeOK', BackedInv, [Next]_vars PROVE BackedInv'
  <2>1. ASSUME NEW p \in Payments, Capture(p) PROVE BackedInv'
    <3>1. UNCHANGED refunded /\ (UNCHANGED ledger \/ ledger' = Post("capture", p, p, TotalOf(p)))
      BY <2>1 DEF Capture, HandlePaymentCaptured, ApplyQuaserPaymentCapture
    <3> QED
      BY <1>2, <3>1, NothingGivenBack
  <2>2. ASSUME NEW p \in Payments, GivesBack(p) PROVE BackedInv'
    BY <1>2, <2>2, RefundGivesBack
  <2>3. ASSUME NEW p \in Payments, ChargedBack(p) PROVE BackedInv'
    <3>1. PICK amount, ev : UNCHANGED refunded /\ ledger' = Post("chargeback", <<p, ev>>, p, amount)
      BY <2>3 DEF ChargedBack, ApplyChargeback
    <3> QED
      BY <1>2, <3>1, NothingGivenBack
  <2>4. CASE UNCHANGED <<ledger, refunded>>
    BY <1>2, <2>4, NothingGivenBack
  <2> QED
    BY <1>2, <2>1, <2>2, <2>3, <2>4, StepCases
    DEF HandlePaymentFailed, RunSweep, CreatePayment, Quiet, Money
<1>3. BackedInv => RefundsBacked
  BY DEF BackedInv
<1> QED
  BY <1>1, <1>2, <1>3, TypeCorrect, PTL DEF Spec
=============================================================================
