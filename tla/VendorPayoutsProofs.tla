------------------------- MODULE VendorPayoutsProofs -------------------------
(***************************************************************************)
(* What holds of VendorPayouts for every set of bookings, payments,        *)
(* payouts, disputes and request handlers.                                 *)
(***************************************************************************)
EXTENDS VendorPayouts, TLAPS

USE BookingOfAssumption, DisputedAssumption, NullAssumption

LEMMA IdleIsTyped == Idle \in CallerStates /\ Idle.at = "idle"
  BY DEF Idle, CallerStates, Stages

\* Moving on puts the row down and touches no other handler.
LEMMA ContinueEffect ==
  ASSUME caller \in [Callers -> CallerStates],
         NEW c \in Callers, NEW queue \in SUBSET Payments, Continue(c, queue)
  PROVE  /\ caller' \in [Callers -> CallerStates]
         /\ caller'[c].at \notin Holding
         /\ \A d \in Callers \ {c} : caller'[d] = caller[d]
  BY IdleIsTyped DEF Continue, CallerStates, Stages, Holding

\* Changing the stage keeps the row and touches no other handler.
LEMMA AtEffect ==
  ASSUME caller \in [Callers -> CallerStates],
         NEW c \in Callers, NEW stage \in Stages, At(c, stage)
  PROVE  /\ caller' \in [Callers -> CallerStates]
         /\ caller'[c].at = stage /\ caller'[c].payout = caller[c].payout
         /\ \A d \in Callers \ {c} : caller'[d] = caller[d]
  BY DEF At, CallerStates

\* Only five kinds of step write a payout row.
RowStep ==
    \/ \E c \in Callers, p \in Payments, po \in Payouts : InsertPayout(c, p, po)
    \/ \E c \in Callers : MarkProcessing(c) \/ MarkFailed(c)
    \/ \E po \in Payouts, agrees \in BOOLEAN : HandlePayoutCompleted(po, agrees)
    \/ \E stale \in SUBSET Payouts : RunSweep(stale)

LEMMA RowSteps == [Next]_vars => UNCHANGED rows \/ RowStep
<1> SUFFICES ASSUME [Next]_vars PROVE UNCHANGED rows \/ RowStep
  OBVIOUS
<1>1. CASE UNCHANGED vars
  BY <1>1 DEF vars
<1>2. ASSUME NEW c \in Callers, CallerStarts(c) PROVE UNCHANGED rows
  BY <1>2 DEF CallerStarts, ProcessPayoutBatch, ResolveDispute
<1>3. ASSUME NEW c \in Callers, CallerStep(c) PROVE UNCHANGED rows \/ RowStep
  <2>1. CASE \E p \in Payments, po \in Payouts : InsertPayout(c, p, po)
    BY <2>1 DEF RowStep
  <2>2. CASE MarkProcessing(c) \/ MarkFailed(c)
    BY <2>2 DEF RowStep
  <2>3. CASE \/ EnsurePayoutsAllowed(c) \/ RouterAccepts(c)
             \/ \E accepted \in BOOLEAN : RouterFails(c, accepted)
             \/ \E p \in Payments : PayoutsFrozen(c, p) \/ InsertSkipped(c, p)
    BY <2>3 DEF EnsurePayoutsAllowed, RouterAccepts, RouterFails, PayoutsFrozen, InsertSkipped
  <2>4. CASE \/ \E full, releases \in BOOLEAN : ResolveRefund(c, full, releases)
             \/ ResolveRefundThrows(c) \/ ResolveNothingEligible(c) \/ ResolveClose(c)
             \/ \E p \in Payments : ResolveRelease(c, p)
    BY <2>4 DEF ResolveRefund, ResolveRefundThrows, ResolveNothingEligible, ResolveClose,
                ResolveRelease
  <2> QED
    BY <1>3, <2>1, <2>2, <2>3, <2>4 DEF CallerStep
<1>4. CASE \/ \E po \in Payouts, agrees \in BOOLEAN : HandlePayoutCompleted(po, agrees)
           \/ \E stale \in SUBSET Payouts : RunSweep(stale)
  BY <1>4 DEF RowStep
<1>5. CASE \/ \E d \in Disputes : DisputeEvent(d)
           \/ \E p \in Payments, full \in BOOLEAN : Refund(p, full)
           \/ \E p \in Payments : FlagPayment(p) \/ ApprovePayment(p)
           \/ \E b \in Bookings : CompleteBooking(b)
           \/ \E freeze \in BOOLEAN : SetState(freeze)
           \/ Crash
  BY <1>5 DEF DisputeEvent, Refund, FlagPayment, ApprovePayment, CompleteBooking, SetState, Crash
<1> QED
  BY <1>1, <1>2, <1>3, <1>4, <1>5 DEF Next

\* A handler that holds a row after a step held it before, unless it inserted
\* it; and every handler stays well typed.
KeepsRow ==
    \A c \in Callers : caller'[c].at \in Holding =>
        caller[c].at \in Holding /\ caller'[c].payout = caller[c].payout

LEMMA CallerSteps ==
  ASSUME caller \in [Callers -> CallerStates], [Next]_vars
  PROVE  /\ caller' \in [Callers -> CallerStates]
         /\ KeepsRow \/ \E c \in Callers, p \in Payments, po \in Payouts : InsertPayout(c, p, po)
<1>0. Holding \subseteq Stages /\ {"close", "refund", "release", "admitted"} \subseteq Stages
  BY DEF Holding, Stages
<1>1. CASE UNCHANGED vars
  BY <1>1 DEF vars, KeepsRow
<1>2. ASSUME NEW c \in Callers, CallerStarts(c)
      PROVE caller' \in [Callers -> CallerStates] /\ KeepsRow
  <2>1. ASSUME NEW queue \in SUBSET Payments, NEW override \in BOOLEAN,
               ProcessPayoutBatch(c, queue, override)
        PROVE caller' \in [Callers -> CallerStates] /\ KeepsRow
    BY <2>1, IdleIsTyped
    DEF ProcessPayoutBatch, KeepsRow, Holding, CallerStates, Stages, Idle
  <2>2. ASSUME NEW d \in Disputes, NEW refunds \in BOOLEAN, ResolveDispute(c, d, refunds)
        PROVE caller' \in [Callers -> CallerStates] /\ KeepsRow
    BY <2>2, IdleIsTyped DEF ResolveDispute, KeepsRow, Holding, CallerStates, Stages, Idle
  <2> QED
    BY <1>2, <2>1, <2>2 DEF CallerStarts
<1>3. ASSUME NEW c \in Callers, CallerStep(c)
      PROVE /\ caller' \in [Callers -> CallerStates]
            /\ KeepsRow \/ \E p \in Payments, po \in Payouts : InsertPayout(c, p, po)
  <2>1. CASE EnsurePayoutsAllowed(c)
    BY <2>1, <1>0, AtEffect DEF EnsurePayoutsAllowed, KeepsRow, Holding
  <2>2. ASSUME NEW p \in Payments, PayoutsFrozen(c, p) \/ InsertSkipped(c, p)
        PROVE caller' \in [Callers -> CallerStates] /\ KeepsRow
    <3>1. caller[c].queue \ {p} \in SUBSET Payments
      BY DEF CallerStates
    <3> QED
      BY <2>2, <3>1, ContinueEffect DEF PayoutsFrozen, InsertSkipped, KeepsRow
  <2>3. ASSUME NEW p \in Payments, NEW po \in Payouts, InsertPayout(c, p, po)
        PROVE caller' \in [Callers -> CallerStates]
    <3> DEFINE next == [caller[c] EXCEPT !.at = "asking", !.payout = po, !.queue = @ \ {p}]
    <3>1. next \in CallerStates
      BY DEF CallerStates, Stages
    <3>2. caller' = [caller EXCEPT ![c] = next]
      BY <2>3 DEF InsertPayout
    <3> QED
      BY <3>1, <3>2
  <2>4. ASSUME RouterAccepts(c) \/ \E accepted \in BOOLEAN : RouterFails(c, accepted)
        PROVE caller' \in [Callers -> CallerStates] /\ KeepsRow
    BY <2>4, <1>0, AtEffect DEF RouterAccepts, RouterFails, KeepsRow, Holding
  <2>5. ASSUME MarkProcessing(c) PROVE caller' \in [Callers -> CallerStates] /\ KeepsRow
    <3>1. caller[c].queue \in SUBSET Payments /\ caller[c].at \in Holding
      BY <2>5 DEF CallerStates, MarkProcessing, Holding
    <3>2. At(c, "refused") \/ Continue(c, caller[c].queue)
      BY <2>5 DEF MarkProcessing
    <3> QED
      BY <3>1, <3>2, <1>0, AtEffect, ContinueEffect DEF KeepsRow, Holding
  <2>6. ASSUME MarkFailed(c) PROVE caller' \in [Callers -> CallerStates] /\ KeepsRow
    <3>1. caller[c].queue \in SUBSET Payments
      BY DEF CallerStates
    <3>2. Continue(c, caller[c].queue) \/ caller' = [caller EXCEPT ![c] = Idle]
      BY <2>6 DEF MarkFailed
    <3> QED
      BY <3>1, <3>2, IdleIsTyped, ContinueEffect DEF KeepsRow, Holding
  <2>7. ASSUME NEW full \in BOOLEAN, NEW releases \in BOOLEAN, ResolveRefund(c, full, releases)
        PROVE caller' \in [Callers -> CallerStates] /\ KeepsRow
    BY <2>7, <1>0, AtEffect DEF ResolveRefund, KeepsRow, Holding
  <2>8. ASSUME ResolveRefundThrows(c) \/ ResolveClose(c)
        PROVE caller' \in [Callers -> CallerStates] /\ KeepsRow
    BY <2>8, IdleIsTyped DEF ResolveRefundThrows, ResolveClose, KeepsRow, Holding
  <2>9. ASSUME NEW p \in Payments, ResolveRelease(c, p)
        PROVE caller' \in [Callers -> CallerStates] /\ KeepsRow
    <3> DEFINE next == [caller[c] EXCEPT !.at = "listed", !.queue = {p}]
    <3>1. next \in CallerStates /\ next.at = "listed"
      BY DEF CallerStates, Stages
    <3>2. caller' = [caller EXCEPT ![c] = next]
      BY <2>9 DEF ResolveRelease
    <3> QED
      BY <3>1, <3>2 DEF KeepsRow, Holding
  <2>10. CASE ResolveNothingEligible(c)
    BY <2>10, <1>0, AtEffect DEF ResolveNothingEligible, KeepsRow, Holding
  <2> QED
    BY <1>3, <2>1, <2>2, <2>3, <2>4, <2>5, <2>6, <2>7, <2>8, <2>9, <2>10 DEF CallerStep
<1>4. CASE \/ \E po \in Payouts, agrees \in BOOLEAN : HandlePayoutCompleted(po, agrees)
           \/ \E stale \in SUBSET Payouts : RunSweep(stale)
           \/ \E d \in Disputes : DisputeEvent(d)
           \/ \E p \in Payments, full \in BOOLEAN : Refund(p, full)
           \/ \E p \in Payments : FlagPayment(p) \/ ApprovePayment(p)
           \/ \E b \in Bookings : CompleteBooking(b)
           \/ \E freeze \in BOOLEAN : SetState(freeze)
  BY <1>4 DEF HandlePayoutCompleted, RunSweep, DisputeEvent, Refund, FlagPayment, ApprovePayment,
              CompleteBooking, SetState, KeepsRow
<1>5. CASE Crash
  BY <1>5, IdleIsTyped DEF Crash, KeepsRow, Holding
<1> QED
  BY <1>1, <1>2, <1>3, <1>4, <1>5 DEF Next

-----------------------------------------------------------------------------
(* Types, and who holds which row *)

RowsTyped ==
    /\ payout \in [Payouts -> PayoutStates]
    /\ payoutOf \in [Payouts -> Payments \cup {NoPayment}]
    /\ \A po \in Payouts : payout[po] # "none" => payoutOf[po] \in Payments
    /\ payoutReview \subseteq Payouts /\ released \subseteq Payouts
    /\ mismatches \subseteq Payouts

LEMMA RowTypes ==
  ASSUME TypeOK, RowsAreOwned, RowStep
  PROVE  RowsTyped' /\ UNCHANGED <<money, dispute, frozen, transfers>>
<1>1. RowsTyped /\ caller \in [Callers -> CallerStates]
  BY DEF TypeOK, RowsTyped
<1>2. \A c \in Callers : caller[c].at \in Holding =>
         /\ caller[c].payout \in Payouts /\ payoutOf[caller[c].payout] \in Payments
         /\ payout[caller[c].payout] \in {"pending", "completed"}
  BY <1>1 DEF RowsAreOwned, RowsTyped
<1>3. ASSUME NEW c \in Callers, NEW p \in Payments, NEW po \in Payouts, InsertPayout(c, p, po)
      PROVE RowsTyped' /\ UNCHANGED <<money, dispute, frozen, transfers>>
  BY <1>1, <1>3 DEF InsertPayout, RowsTyped, PayoutStates
<1>4. ASSUME NEW c \in Callers, MarkProcessing(c)
      PROVE RowsTyped' /\ UNCHANGED <<money, dispute, frozen, transfers>>
  <2>1. caller[c].payout \in Payouts /\ payoutOf[caller[c].payout] \in Payments
    BY <1>2, <1>4 DEF MarkProcessing, Holding
  <2> QED
    BY <1>1, <1>4, <2>1 DEF MarkProcessing, RowsTyped, PayoutStates
<1>5. ASSUME NEW c \in Callers, MarkFailed(c)
      PROVE RowsTyped' /\ UNCHANGED <<money, dispute, frozen, transfers>>
  <2>1. caller[c].payout \in Payouts /\ payoutOf[caller[c].payout] \in Payments
    BY <1>2, <1>5 DEF MarkFailed, Holding
  <2> QED
    BY <1>1, <1>5, <2>1 DEF MarkFailed, RowsTyped, PayoutStates
<1>6. ASSUME NEW po \in Payouts, NEW agrees \in BOOLEAN, HandlePayoutCompleted(po, agrees)
      PROVE RowsTyped' /\ UNCHANGED <<money, dispute, frozen, transfers>>
  BY <1>1, <1>6 DEF HandlePayoutCompleted, Completable, PostSettlementJournal, RowsTyped,
                    PayoutStates, InFlight
<1>7. ASSUME NEW stale \in SUBSET Payouts, RunSweep(stale)
      PROVE RowsTyped' /\ UNCHANGED <<money, dispute, frozen, transfers>>
  BY <1>1, <1>7 DEF RunSweep, Sweepable, RowsTyped, PayoutStates
<1> QED
  BY <1>3, <1>4, <1>5, <1>6, <1>7 DEF RowStep

\* The columns that other components own.
OthersTyped ==
    /\ booking \in [Bookings -> {"confirmed", "completed", "refunded"}]
    /\ payment \in [Payments -> {"captured", "partially_refunded", "refunded"}]
    /\ paymentReview \subseteq Payments
    /\ transfers \subseteq Payouts
    /\ dispute \in [Disputes -> DisputeStates]
    /\ frozen \in BOOLEAN

LEMMA OthersTypes ==
  ASSUME TypeOK, RowsAreOwned, [Next]_vars
  PROVE  OthersTyped'
<1>1. OthersTyped
  BY DEF TypeOK, OthersTyped
<1>2. CASE UNCHANGED <<money, transfers, dispute, frozen>>
  BY <1>1, <1>2 DEF OthersTyped, money
<1>3. ASSUME NEW p \in Payments, NEW full \in BOOLEAN, RefundPayment(p, full),
             UNCHANGED <<transfers, dispute, frozen>>
      PROVE OthersTyped'
  BY <1>1, <1>3 DEF RefundPayment, OthersTyped
<1>4. ASSUME NEW d \in Disputes, DisputeEvent(d) PROVE OthersTyped'
  BY <1>1, <1>4 DEF DisputeEvent, CreateDispute, AddMessage, UploadEvidence, OthersTyped, money,
                    DisputeStates, ActiveStates
<1>5. ASSUME NEW p \in Payments, FlagPayment(p) \/ ApprovePayment(p) PROVE OthersTyped'
  BY <1>1, <1>5 DEF FlagPayment, ApprovePayment, OthersTyped
<1>6. ASSUME NEW b \in Bookings, CompleteBooking(b) PROVE OthersTyped'
  BY <1>1, <1>6 DEF CompleteBooking, OthersTyped
<1>7. ASSUME NEW freeze \in BOOLEAN, SetState(freeze) PROVE OthersTyped'
  <2>1. frozen' \in BOOLEAN
    BY <1>7, Zenon DEF SetState
  <2> QED
    BY <1>1, <1>7, <2>1 DEF SetState, OthersTyped, money
<1>8. ASSUME NEW c \in Callers, CallerStep(c) PROVE OthersTyped'
  <2>1. caller[c].at \in Holding => caller[c].payout \in Payouts
    BY DEF RowsAreOwned
  <2>2. ASSUME RouterAccepts(c) \/ \E accepted \in BOOLEAN : RouterFails(c, accepted)
        PROVE OthersTyped'
    BY <1>1, <2>1, <2>2 DEF RouterAccepts, RouterFails, OthersTyped, money, Holding
  <2>3. ASSUME NEW full \in BOOLEAN, NEW releases \in BOOLEAN, ResolveRefund(c, full, releases)
        PROVE OthersTyped'
    BY <1>1, <2>3 DEF ResolveRefund, RefundPayment, OthersTyped
  <2>4. CASE ResolveClose(c)
    BY <1>1, <2>4 DEF ResolveClose, MarkResolved, OthersTyped, money, DisputeStates
  <2>5. CASE RowStep
    BY <1>2, <2>5, RowTypes
  <2>6. CASE \/ EnsurePayoutsAllowed(c) \/ ResolveRefundThrows(c) \/ ResolveNothingEligible(c)
             \/ \E p \in Payments : PayoutsFrozen(c, p) \/ InsertSkipped(c, p) \/ ResolveRelease(c, p)
    BY <1>2, <2>6 DEF EnsurePayoutsAllowed, ResolveRefundThrows, ResolveNothingEligible,
                      PayoutsFrozen, InsertSkipped, ResolveRelease
  <2> QED
    BY <1>8, <2>2, <2>3, <2>4, <2>5, <2>6 DEF CallerStep, RowStep
<1>9. CASE \/ \E c \in Callers : CallerStarts(c)
           \/ Crash \/ UNCHANGED vars
  BY <1>2, <1>9 DEF CallerStarts, ProcessPayoutBatch, ResolveDispute, Crash, vars
<1>10. CASE RowStep
  BY <1>2, <1>10, RowTypes
<1> QED
  BY <1>3, <1>4, <1>5, <1>6, <1>7, <1>8, <1>9, <1>10 DEF Next, RowStep, Refund

LEMMA TypeStep ==
  ASSUME TypeOK, RowsAreOwned, [Next]_vars PROVE TypeOK'
<1>1. RowsTyped'
  <2>1. CASE UNCHANGED rows
    BY <2>1 DEF RowsTyped, TypeOK, rows
  <2> QED
    BY <2>1, RowSteps, RowTypes
<1>2. OthersTyped' /\ caller' \in [Callers -> CallerStates]
  BY OthersTypes, CallerSteps DEF TypeOK
<1> QED
  BY <1>1, <1>2 DEF TypeOK, RowsTyped, OthersTyped

LEMMA OwnedStep ==
  ASSUME TypeOK, RowsAreOwned, [Next]_vars PROVE RowsAreOwned'
<1>1. payout \in [Payouts -> PayoutStates] /\ caller \in [Callers -> CallerStates]
  BY DEF TypeOK
<1>2. ASSUME NEW c \in Callers, NEW p \in Payments, NEW po \in Payouts, InsertPayout(c, p, po)
      PROVE RowsAreOwned'
  <2>1. /\ payout[po] = "none" /\ payout' = [payout EXCEPT ![po] = "pending"]
        /\ caller'[c].at = "asking" /\ caller'[c].payout = po
        /\ \A d \in Callers \ {c} : caller'[d] = caller[d]
    BY <1>1, <1>2 DEF InsertPayout, CallerStates
  <2>2. \A d \in Callers \ {c} : caller[d].at \in Holding => caller[d].payout # po
    BY <2>1 DEF RowsAreOwned
  <2> QED
    BY <1>1, <2>1, <2>2 DEF RowsAreOwned, Holding
<1>3. ASSUME KeepsRow,
             \A c \in Callers : caller'[c].at \in Holding =>
                payout'[caller[c].payout] \in {"pending", "completed"}
      PROVE RowsAreOwned'
  BY <1>3 DEF RowsAreOwned, KeepsRow
<1>4. CASE KeepsRow /\ UNCHANGED payout
  BY <1>3, <1>4 DEF RowsAreOwned, KeepsRow
<1>5. ASSUME NEW c \in Callers, MarkProcessing(c), KeepsRow PROVE RowsAreOwned'
  <2>1. CASE UNCHANGED payout
    BY <1>4, <1>5, <2>1
  <2>2. CASE /\ payout' = [payout EXCEPT ![caller[c].payout] = "processing"]
             /\ Continue(c, caller[c].queue)
    <3>1. caller'[c].at \notin Holding
      BY <1>1, <2>2, ContinueEffect DEF CallerStates
    <3>2. caller[c].at \in Holding
      BY <1>5 DEF MarkProcessing, Holding
    <3> QED
      BY <1>1, <1>3, <1>5, <2>2, <3>1, <3>2 DEF RowsAreOwned, KeepsRow
  <2> QED
    BY <1>5, <2>1, <2>2 DEF MarkProcessing
<1>6. ASSUME NEW c \in Callers, MarkFailed(c), KeepsRow PROVE RowsAreOwned'
  <2>1. caller'[c].at \notin Holding
    <3>1. caller[c].queue \in SUBSET Payments
      BY <1>1 DEF CallerStates
    <3>2. Continue(c, caller[c].queue) \/ caller' = [caller EXCEPT ![c] = Idle]
      BY <1>6 DEF MarkFailed
    <3> QED
      BY <1>1, <3>1, <3>2, ContinueEffect, IdleIsTyped DEF Holding
  <2>2. /\ caller[c].at \in Holding
        /\ payout' = [payout EXCEPT ![caller[c].payout] = "failed"]
    BY <1>6 DEF MarkFailed, Holding
  <2> QED
    BY <1>1, <1>3, <1>6, <2>1, <2>2 DEF RowsAreOwned, KeepsRow
<1>7. ASSUME NEW po \in Payouts, NEW agrees \in BOOLEAN, HandlePayoutCompleted(po, agrees), KeepsRow PROVE RowsAreOwned'
  <2>1. payout' = [payout EXCEPT ![po] = "completed"] \/ UNCHANGED payout
    BY <1>7 DEF HandlePayoutCompleted
  <2> QED
    BY <1>1, <1>3, <1>4, <1>7, <2>1 DEF RowsAreOwned, KeepsRow
<1>8. ASSUME NEW stale \in SUBSET Payouts, RunSweep(stale), KeepsRow PROVE RowsAreOwned'
  <2>1. \A po \in Payouts : payout[po] # "processing" => payout'[po] = payout[po]
    BY <1>8 DEF RunSweep, Sweepable
  <2> QED
    BY <1>3, <1>8, <2>1 DEF RowsAreOwned, KeepsRow
<1>9. UNCHANGED rows => UNCHANGED payout
  BY DEF rows
<1> QED
  BY <1>1, <1>2, <1>4, <1>5, <1>6, <1>7, <1>8, <1>9, RowSteps, CallerSteps DEF RowStep

LEMMA InitHolds == Init => TypeOK /\ RowsAreOwned /\ FailedIsHeld
<1> SUFFICES ASSUME Init PROVE TypeOK /\ RowsAreOwned /\ FailedIsHeld
  OBVIOUS
<1>1. frozen \in BOOLEAN
  BY Zenon DEF Init
<1>2. TypeOK
  BY <1>1, IdleIsTyped DEF Init, TypeOK, PayoutStates, DisputeStates
<1>3. RowsAreOwned /\ FailedIsHeld
  BY IdleIsTyped DEF Init, RowsAreOwned, FailedIsHeld, Holding
<1> QED
  BY <1>2, <1>3

LEMMA Owned == Spec => [](TypeOK /\ RowsAreOwned)
<1>1. TypeOK /\ RowsAreOwned /\ [Next]_vars => (TypeOK /\ RowsAreOwned)'
  BY TypeStep, OwnedStep
<1> QED
  BY <1>1, InitHolds, PTL DEF Spec

\* Every variable keeps its type, whatever handlers, webhooks and the sweep do;
\* a payout row names its payment from its INSERT on.
THEOREM TypeCorrect == Spec => []TypeOK
  BY Owned, PTL

\* A payout row has one handler until that handler has recorded the router's
\* answer: the reason why the unconditional UPDATEs of enqueuePayoutForBooking
\* cannot take each other's rows.
THEOREM RowsAreOwnedCorrect == Spec => []RowsAreOwned
  BY Owned, PTL

-----------------------------------------------------------------------------
(* What the rows say *)

LEMMA HeldStep ==
  ASSUME TypeOK, RowsAreOwned, FailedIsHeld, [Next]_vars PROVE FailedIsHeld'
<1>0. payout \in [Payouts -> PayoutStates]
  BY DEF TypeOK
<1>1. CASE UNCHANGED rows
  BY <1>1 DEF FailedIsHeld, rows
<1>2. ASSUME NEW c \in Callers, NEW p \in Payments, NEW po \in Payouts, InsertPayout(c, p, po)
      PROVE FailedIsHeld'
  BY <1>0, <1>2 DEF InsertPayout, FailedIsHeld
<1>3. ASSUME NEW c \in Callers, MarkProcessing(c) PROVE FailedIsHeld'
  <2>1. caller[c].payout \in Payouts /\ payout[caller[c].payout] # "failed"
    BY <1>3 DEF MarkProcessing, RowsAreOwned, Holding
  <2> QED
    BY <1>0, <1>3, <2>1 DEF MarkProcessing, FailedIsHeld
<1>4. ASSUME NEW c \in Callers, MarkFailed(c) PROVE FailedIsHeld'
  <2>1. caller[c].payout \in Payouts
    BY <1>4 DEF MarkFailed, RowsAreOwned, Holding
  <2> QED
    BY <1>0, <1>4, <2>1 DEF MarkFailed, FailedIsHeld
<1>5. ASSUME NEW po \in Payouts, NEW agrees \in BOOLEAN, HandlePayoutCompleted(po, agrees) PROVE FailedIsHeld'
  BY <1>0, <1>5 DEF HandlePayoutCompleted, Completable, FailedIsHeld
<1>6. ASSUME NEW stale \in SUBSET Payouts, RunSweep(stale) PROVE FailedIsHeld'
  BY <1>0, <1>6 DEF RunSweep, FailedIsHeld
<1> QED
  BY <1>1, <1>2, <1>3, <1>4, <1>5, <1>6, RowSteps DEF RowStep

\* Every path to failed holds the row for review and nothing else does: the
\* SELECT of retryFailedPayout, failed and not under review, is always empty.
THEOREM FailedIsHeldCorrect == Spec => []FailedIsHeld
<1>1. TypeOK /\ RowsAreOwned /\ FailedIsHeld /\ [Next]_vars => FailedIsHeld'
  BY HeldStep
<1> QED
  BY <1>1, InitHolds, Owned, PTL DEF Spec

LEMMA ReleasedStep ==
  ASSUME TypeOK, RowsAreOwned, CompletedIsReleased, [Next]_vars PROVE CompletedIsReleased'
<1>0. payout \in [Payouts -> PayoutStates]
  BY DEF TypeOK
<1>1. CASE UNCHANGED rows
  BY <1>1 DEF CompletedIsReleased, rows
<1>2. ASSUME NEW c \in Callers, NEW p \in Payments, NEW po \in Payouts, InsertPayout(c, p, po)
      PROVE CompletedIsReleased'
  BY <1>0, <1>2 DEF InsertPayout, CompletedIsReleased
<1>3. ASSUME NEW c \in Callers, MarkProcessing(c) \/ MarkFailed(c) PROVE CompletedIsReleased'
  BY <1>0, <1>3 DEF MarkProcessing, MarkFailed, CompletedIsReleased
<1>4. ASSUME NEW po \in Payouts, NEW agrees \in BOOLEAN, HandlePayoutCompleted(po, agrees) PROVE CompletedIsReleased'
  BY <1>0, <1>4 DEF HandlePayoutCompleted, PostSettlementJournal, CompletedIsReleased
<1>5. ASSUME NEW stale \in SUBSET Payouts, RunSweep(stale) PROVE CompletedIsReleased'
  BY <1>0, <1>5 DEF RunSweep, CompletedIsReleased
<1> QED
  BY <1>1, <1>2, <1>3, <1>4, <1>5, RowSteps DEF RowStep

\* A completed payout has its escrow release in the ledger.
THEOREM CompletedIsReleasedCorrect == Spec => []CompletedIsReleased
<1>1. Init => CompletedIsReleased
  BY DEF Init, CompletedIsReleased
<1>2. TypeOK /\ RowsAreOwned /\ CompletedIsReleased /\ [Next]_vars => CompletedIsReleased'
  BY ReleasedStep
<1> QED
  BY <1>1, <1>2, Owned, PTL DEF Spec

-----------------------------------------------------------------------------
(* One payout per booking *)

\* What the two unique indexes say of one status set at a time.
Exclusive(statuses) ==
    \A po, q \in Payouts :
        /\ po # q /\ payout[po] \in statuses /\ payout[q] \in statuses
        /\ payoutOf[po] \in Payments /\ payoutOf[q] \in Payments
        => BookingOf[payoutOf[po]] # BookingOf[payoutOf[q]]

LEMMA ExclusiveIsOne ==
  ASSUME TypeOK PROVE OnePayoutPerBooking <=> Exclusive(InFlight) /\ Exclusive({"completed"})
  BY DEF TypeOK, OnePayoutPerBooking, Exclusive

LEMMA InFlightStep ==
  ASSUME TypeOK, RowsAreOwned, Exclusive(InFlight), [Next]_vars PROVE Exclusive(InFlight)'
<1>0. /\ payout \in [Payouts -> PayoutStates]
      /\ payoutOf \in [Payouts -> Payments \cup {NoPayment}]
  BY DEF TypeOK
<1>1. CASE UNCHANGED rows
  BY <1>1 DEF Exclusive, rows
<1>2. ASSUME NEW c \in Callers, NEW p \in Payments, NEW po \in Payouts, InsertPayout(c, p, po)
      PROVE Exclusive(InFlight)'
  <2>1. \A q \in Payouts \ {po} :
           payout[q] \in InFlight /\ payoutOf[q] \in Payments => BookingOf[payoutOf[q]] # BookingOf[p]
    BY <1>2 DEF InsertPayout, Raises, PayoutsOf, InFlight
  <2> QED
    BY <1>0, <1>2, <2>1 DEF InsertPayout, Exclusive
<1>3. ASSUME NEW c \in Callers, MarkProcessing(c) PROVE Exclusive(InFlight)'
  <2> DEFINE po == caller[c].payout
  <2>1. po \in Payouts
    BY <1>3 DEF MarkProcessing, RowsAreOwned, Holding
  <2>2. CASE Raises(BookingOf[payoutOf[po]], po)
    BY <1>3, <2>2 DEF MarkProcessing, Exclusive
  <2>3. CASE ~Raises(BookingOf[payoutOf[po]], po)
    <3>1. \A q \in Payouts \ {po} : payout[q] \in InFlight /\ payoutOf[q] \in Payments
             => BookingOf[payoutOf[q]] # BookingOf[payoutOf[po]]
      BY <2>3 DEF Raises, PayoutsOf, InFlight
    <3>2. payout' = [payout EXCEPT ![po] = "processing"] /\ payoutOf' = payoutOf
      BY <1>3, <2>3 DEF MarkProcessing
    <3> QED
      BY <1>0, <2>1, <3>1, <3>2 DEF Exclusive
  <2> QED
    BY <2>2, <2>3
<1>4. ASSUME UNCHANGED payoutOf,
             \A q \in Payouts : payout'[q] \in InFlight => payout[q] \in InFlight
      PROVE Exclusive(InFlight)'
  BY <1>4 DEF Exclusive
<1>5. ASSUME NEW c \in Callers, MarkFailed(c) PROVE Exclusive(InFlight)'
  BY <1>0, <1>4, <1>5 DEF MarkFailed, InFlight
<1>6. ASSUME NEW po \in Payouts, NEW agrees \in BOOLEAN, HandlePayoutCompleted(po, agrees) PROVE Exclusive(InFlight)'
  BY <1>0, <1>4, <1>6 DEF HandlePayoutCompleted, InFlight
<1>7. ASSUME NEW stale \in SUBSET Payouts, RunSweep(stale) PROVE Exclusive(InFlight)'
  BY <1>0, <1>4, <1>7 DEF RunSweep, InFlight
<1> QED
  BY <1>1, <1>2, <1>3, <1>5, <1>6, <1>7, RowSteps DEF RowStep

LEMMA CompletedStep ==
  ASSUME TypeOK, RowsAreOwned, Exclusive({"completed"}), [Next]_vars
  PROVE  Exclusive({"completed"})'
<1>0. /\ payout \in [Payouts -> PayoutStates]
      /\ payoutOf \in [Payouts -> Payments \cup {NoPayment}]
      /\ \A po \in Payouts : payout[po] # "none" => payoutOf[po] \in Payments
  BY DEF TypeOK
<1>1. CASE UNCHANGED rows
  BY <1>1 DEF Exclusive, rows
<1>2. ASSUME \A q \in Payouts : payout'[q] = "completed" => payout[q] = "completed" /\ payoutOf'[q] = payoutOf[q]
      PROVE Exclusive({"completed"})'
  BY <1>2 DEF Exclusive
<1>3. ASSUME NEW c \in Callers, NEW p \in Payments, NEW po \in Payouts, InsertPayout(c, p, po)
      PROVE Exclusive({"completed"})'
  BY <1>0, <1>2, <1>3 DEF InsertPayout
<1>4. ASSUME NEW c \in Callers, MarkProcessing(c) \/ MarkFailed(c) PROVE Exclusive({"completed"})'
  BY <1>0, <1>2, <1>4 DEF MarkProcessing, MarkFailed
<1>5. ASSUME NEW po \in Payouts, NEW agrees \in BOOLEAN, HandlePayoutCompleted(po, agrees) PROVE Exclusive({"completed"})'
  <2>1. CASE agrees
    <3>1. \A q \in Payouts \ {po} : payout[q] = "completed" /\ payoutOf[q] \in Payments
             => BookingOf[payoutOf[q]] # BookingOf[payoutOf[po]]
      BY <1>5, <2>1 DEF HandlePayoutCompleted, CompletionRaises, PayoutsOf
    <3>2. payout' = [payout EXCEPT ![po] = "completed"] /\ payoutOf' = payoutOf
      BY <1>5, <2>1 DEF HandlePayoutCompleted
    <3> QED
      BY <1>0, <3>1, <3>2 DEF Exclusive
  <2>2. CASE ~agrees
    BY <1>2, <1>5, <2>2 DEF HandlePayoutCompleted
  <2> QED
    BY <2>1, <2>2
<1>6. ASSUME NEW stale \in SUBSET Payouts, RunSweep(stale) PROVE Exclusive({"completed"})'
  BY <1>0, <1>2, <1>6 DEF RunSweep
<1> QED
  BY <1>1, <1>3, <1>4, <1>5, <1>6, RowSteps DEF RowStep

\* A booking never has two payouts in flight, nor two completed ones.
THEOREM OnePayoutPerBookingCorrect == Spec => []OnePayoutPerBooking
<1> DEFINE Both == Exclusive(InFlight) /\ Exclusive({"completed"})
<1>1. Init => Both
  BY DEF Init, Exclusive, InFlight
<1>2. TypeOK /\ RowsAreOwned /\ Both /\ [Next]_vars => Both'
  BY InFlightStep, CompletedStep
<1>3. TypeOK /\ Both => OnePayoutPerBooking
  BY ExclusiveIsOne
<1> HIDE DEF Both
<1> QED
  BY <1>1, <1>2, <1>3, Owned, PTL DEF Spec

-----------------------------------------------------------------------------
(* What a step may not do *)

\* Escrow is only released for an accepted transfer of captured money that nobody
\* reviews, because the handler looks again in the transaction that releases it;
\* and if the booking is disputed, or was paid out before, only in a settlement
\* that disagrees, is reported and leaves its payout in flight, because the UPDATE
\* to completed raises and takes any other release back.
THEOREM ReleasesAreGuardedCorrect == Spec => ReleasesAreGuarded
<1>1. [Next]_vars => [ReleaseGuarded]_vars
  <2> SUFFICES ASSUME [Next]_vars PROVE ReleaseGuarded
    OBVIOUS
  <2>1. CASE UNCHANGED released
    BY <2>1 DEF ReleaseGuarded
  <2>2. ASSUME NEW po \in Payouts, NEW agrees \in BOOLEAN, HandlePayoutCompleted(po, agrees)
        PROVE ReleaseGuarded
    <3> DEFINE b == BookingOf[payoutOf[po]]
               Barred == DisputeOpen(b) \/ \E q \in PayoutsOf(b) : q # po /\ payout[q] = "completed"
    <3>1. released' \ released \subseteq {po}
      BY <2>2 DEF HandlePayoutCompleted, PostSettlementJournal
    <3>2. /\ po \in transfers /\ po \notin payoutReview /\ payout[po] \in InFlight
          /\ payment[payoutOf[po]] = "captured"
      BY <2>2 DEF HandlePayoutCompleted, Completable
    <3>3. Barred => CompletionRaises(b, po)
      BY DEF CompletionRaises
    <3>4. CompletionRaises(b, po) => po \in mismatches' /\ UNCHANGED payout
      BY <2>2 DEF HandlePayoutCompleted
    <3>5. Barred => po \in mismatches' /\ payout'[po] \in InFlight
      BY <3>2, <3>3, <3>4
    <3> QED
      BY <3>1, <3>2, <3>5 DEF ReleaseGuarded
  <2>3. RowStep =>
           UNCHANGED released \/ \E po \in Payouts, agrees \in BOOLEAN : HandlePayoutCompleted(po, agrees)
    BY DEF RowStep, InsertPayout, MarkProcessing, MarkFailed, RunSweep
  <2> QED
    BY <2>1, <2>2, <2>3, RowSteps DEF rows
<1> QED
  BY <1>1, PTL DEF Spec, ReleasesAreGuarded

\* No payout enters pending, processing or completed while its booking is in
\* dispute.
THEOREM DisputesHoldPayoutsCorrect == Spec => DisputesHoldPayouts
<1>1. TypeOK /\ RowsAreOwned /\ [Next]_vars => [HeldByDispute]_vars
  <2> SUFFICES ASSUME TypeOK, RowsAreOwned, [Next]_vars PROVE HeldByDispute
    OBVIOUS
  <2>0. /\ payout \in [Payouts -> PayoutStates]
        /\ payoutOf \in [Payouts -> Payments \cup {NoPayment}]
    BY DEF TypeOK
  <2>1. CASE UNCHANGED rows
    BY <2>1 DEF HeldByDispute, rows
  <2>2. ASSUME NEW c \in Callers, NEW p \in Payments, NEW po \in Payouts, InsertPayout(c, p, po)
        PROVE HeldByDispute
    BY <2>0, <2>2 DEF InsertPayout, Raises, HeldByDispute
  <2>3. ASSUME NEW c \in Callers, MarkProcessing(c) PROVE HeldByDispute
    BY <2>0, <2>3 DEF MarkProcessing, Raises, HeldByDispute
  <2>4. ASSUME NEW c \in Callers, MarkFailed(c) PROVE HeldByDispute
    BY <2>0, <2>4 DEF MarkFailed, HeldByDispute
  <2>5. ASSUME NEW po \in Payouts, NEW agrees \in BOOLEAN, HandlePayoutCompleted(po, agrees) PROVE HeldByDispute
    BY <2>0, <2>5 DEF HandlePayoutCompleted, CompletionRaises, HeldByDispute
  <2>6. ASSUME NEW stale \in SUBSET Payouts, RunSweep(stale) PROVE HeldByDispute
    BY <2>0, <2>6 DEF RunSweep, HeldByDispute
  <2> QED
    BY <2>1, <2>2, <2>3, <2>4, <2>5, <2>6, RowSteps DEF RowStep
<1> QED
  BY <1>1, Owned, PTL DEF Spec, DisputesHoldPayouts
=============================================================================
