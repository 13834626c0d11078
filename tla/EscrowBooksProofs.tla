--------------------------- MODULE EscrowBooksProofs ---------------------------
(***************************************************************************)
(* The ledger agrees with the rows of both rails, for any number of        *)
(* bookings, payouts, orders and cases and for any amounts.                *)
(***************************************************************************)
EXTENDS EscrowBooks, SumTheorems, TLAPS

\* A row is posted exactly when it was captured.
CapturesArePosted ==
    /\ \A p \in Payments : Posted(CaptureKey(p)) <=> payment[p] # "initiated"
    /\ \A t \in TicketPayments : Posted(TicketCaptureKey(t)) <=> ticketPayment[t] # "initiated"

\* A settlement that is not to be posted again has its release in the ledger.
SettlementsArePosted == \A po \in Payouts : AlreadyPosted(po) => Posted(ReleaseKey(po))

Inv == TypeOK /\ CapturesArePosted /\ SettlementsArePosted /\ SettledIsMirrored /\ CompletedIsSettled

-----------------------------------------------------------------------------
(* Amounts, lines and keys                                                 *)

LEMMA Amounts ==
    /\ \A x \in Payments \cup TicketPayments : Subtotal[x] \in Nat /\ Fee[x] \in Nat /\ Gross(x) \in Nat
    /\ \A k \in Cases : CaseRefund[k] \in Nat /\ CaseOf[k] \in TicketPayments
    /\ \A po \in Payouts : PaymentOf[po] \in Payments
    /\ \A q \in OrganizerPayouts : TicketOf[q] \in TicketPayments
  BY AmountsAssumption, OwnersAssumption DEF Gross

LEMMA ProductIsNat ==
    ASSUME NEW a \in Nat, NEW b \in Nat PROVE a * b \in Nat
  BY SMT

LEMMA QuotientIsNat ==
    ASSUME NEW a \in Nat, NEW b \in Nat, b # 0 PROVE a \div b \in Nat
  BY SMT

LEMMA FeeReversalType ==
    ASSUME NEW k \in Cases PROVE FeeReversal(k) \in Nat
  <1> DEFINE t == CaseOf[k]
  <1>1. Fee[t] \in Nat /\ Subtotal[t] \in Nat /\ CaseRefund[k] \in Nat
    BY Amounts
  <1>2. CASE CaseRefund[k] = 0 \/ Subtotal[t] = 0 \/ CaseRefund[k] >= Subtotal[t]
    BY <1>1, <1>2 DEF FeeReversal
  <1>3. CASE Subtotal[t] # 0 /\ CaseRefund[k] # 0 /\ ~(CaseRefund[k] >= Subtotal[t])
    <2>1. Fee[t] * CaseRefund[k] \in Nat
      BY <1>1, ProductIsNat
    <2>2. (Fee[t] * CaseRefund[k]) \div Subtotal[t] \in Nat
      BY <1>1, <1>3, <2>1, QuotientIsNat
    <2> QED BY <1>3, <2>2 DEF FeeReversal
  <1> QED BY <1>2, <1>3

LEMMA LineType ==
    ASSUME NEW a \in Accounts, NEW n \in Nat, NEW memo \in Memos
    PROVE  Debit(a, n, memo) \in Lines /\ Credit(a, n, memo) \in Lines
  BY DEF Debit, Credit, Line, Lines

LEMMA PoolAccounts ==
    /\ Psp \in Accounts /\ Escrow \in Accounts /\ PlatformFees \in Accounts /\ PayoutClearing \in Accounts
    /\ \A v \in Vendors : VendorPayable(v) \in Accounts
    /\ \A o \in Organizers : OrganizerPayable(o) \in Accounts
  BY DEF Accounts

\* What every operation writes is a set of lines; a capture and a release are not empty.
LEMMA LinesWritten ==
    ASSUME NEW n \in Nat, NEW m \in Nat
    PROVE  /\ CaptureLines(n, m) \in SUBSET Lines /\ CaptureLines(n, m) # {}
           /\ RefundLines(n) \in SUBSET Lines
           /\ \A v \in Vendors : /\ ChargebackLines(v, n) \in SUBSET Lines
                                 /\ PayoutReleaseLines(v, n) \in SUBSET Lines
                                 /\ PayoutReleaseLines(v, n) # {}
           /\ \A o \in Organizers : /\ TicketCaptureLines(o, n, m) \in SUBSET Lines
                                    /\ TicketCaptureLines(o, n, m) # {}
                                    /\ TicketRefundLines(o, n, m) \in SUBSET Lines
                                    /\ OrganizerReleaseLines(o, n) \in SUBSET Lines
  <1>1. n + m \in Nat
    OBVIOUS
  <1>2. \A lines \in SUBSET Lines : Positive(lines) \in SUBSET Lines
    BY DEF Positive
  <1>3. CaptureLines(n, m) \in SUBSET Lines /\ CaptureLines(n, m) # {} /\ RefundLines(n) \in SUBSET Lines
    <2>1. {Debit(Escrow, m, "fee"), Credit(PlatformFees, m, "fee")} \in SUBSET Lines
      BY LineType, PoolAccounts DEF Memos
    <2>2. /\ {Debit(Psp, n, "gross"), Credit(Escrow, n, "gross")} \in SUBSET Lines
          /\ {Debit(Escrow, n, "refund"), Credit(Psp, n, "refund")} \in SUBSET Lines
      BY LineType, PoolAccounts DEF Memos
    <2> QED BY <1>2, <2>1, <2>2 DEF CaptureLines, RefundLines
  <1>4. ASSUME NEW v \in Vendors
        PROVE  /\ ChargebackLines(v, n) \in SUBSET Lines
               /\ PayoutReleaseLines(v, n) \in SUBSET Lines /\ PayoutReleaseLines(v, n) # {}
    BY LineType, PoolAccounts DEF Memos, ChargebackLines, PayoutReleaseLines
  <1>5. ASSUME NEW o \in Organizers
        PROVE  /\ TicketCaptureLines(o, n, m) \in SUBSET Lines /\ TicketCaptureLines(o, n, m) # {}
               /\ TicketRefundLines(o, n, m) \in SUBSET Lines
               /\ OrganizerReleaseLines(o, n) \in SUBSET Lines
    <2>1. {Debit(Escrow, n, "fee"), Credit(PlatformFees, n, "fee")} \in SUBSET Lines
      BY LineType, PoolAccounts DEF Memos
    <2>2. {Debit(Escrow, m, "share"), Credit(OrganizerPayable(o), m, "share")} \in SUBSET Lines
      BY LineType, PoolAccounts DEF Memos
    <2>3. {Debit(Psp, n + m, "gross"), Credit(Escrow, n + m, "gross")} \in SUBSET Lines
      BY <1>1, LineType, PoolAccounts DEF Memos
    <2>4. {Debit(OrganizerPayable(o), n, "refund"), Debit(PlatformFees, m, "reversal"),
           Credit(Psp, n + m, "refund")} \in SUBSET Lines
      BY <1>1, LineType, PoolAccounts DEF Memos
    <2>5. OrganizerReleaseLines(o, n) \in SUBSET Lines
      BY LineType, PoolAccounts DEF Memos, OrganizerReleaseLines
    <2> QED BY <1>2, <2>1, <2>2, <2>3, <2>4, <2>5 DEF TicketCaptureLines, TicketRefundLines
  <1> QED BY <1>3, <1>4, <1>5

LEMMA KeysExist ==
    /\ \A p \in Payments : CaptureKey(p) \in Keys
    /\ \A p \in Payments, ev \in ChargebackEvents : ChargebackKey(p, ev) \in Keys
    /\ \A k \in RefundKeys : RefundKey(k) \in Keys
    /\ \A po \in Payouts : ReleaseKey(po) \in Keys
    /\ \A t \in TicketPayments : TicketCaptureKey(t) \in Keys
    /\ \A k \in Cases : TicketRefundKey(k) \in Keys
    /\ \A q \in OrganizerPayouts : OrganizerReleaseKey(q) \in Keys
  BY DEF Keys

\* The rows whose posting the rows tell of are told apart by their keys.
Watched(k) == k.reason \in {"payment_capture_quaser", "payment_capture_ticket", "payout_escrow_release"}

LEMMA KeysDiffer ==
    /\ \A p, q : CaptureKey(p) = CaptureKey(q) => p = q
    /\ \A t, s : TicketCaptureKey(t) = TicketCaptureKey(s) => t = s
    /\ \A po, px : ReleaseKey(po) = ReleaseKey(px) => po = px
    /\ \A p, t, po : /\ CaptureKey(p) # TicketCaptureKey(t) /\ CaptureKey(p) # ReleaseKey(po)
                     /\ TicketCaptureKey(t) # ReleaseKey(po)
    /\ \A x : Watched(CaptureKey(x)) /\ Watched(TicketCaptureKey(x)) /\ Watched(ReleaseKey(x))
    /\ \A x : ~Watched(RefundKey(x)) /\ ~Watched(TicketRefundKey(x)) /\ ~Watched(OrganizerReleaseKey(x))
    /\ \A x, ev : ~Watched(ChargebackKey(x, ev))
  BY DEF Watched, Key, CaptureKey, TicketCaptureKey, ReleaseKey, RefundKey, TicketRefundKey,
         OrganizerReleaseKey, ChargebackKey

LEMMA PostFacts ==
    ASSUME ledger \in [Keys -> SUBSET Lines], NEW key \in Keys, NEW lines \in SUBSET Lines
    PROVE  /\ Post(key, lines) \in [Keys -> SUBSET Lines]
           /\ \A k \in Keys : (k # key \/ Posted(k)) => Post(key, lines)[k] = ledger[k]
           /\ lines # {} => Post(key, lines)[key] # {}
  BY DEF Post, Posted

-----------------------------------------------------------------------------
(* Preservation                                                            *)

\* A step that leaves the release postings alone and completes no payout keeps
\* what is known of settlements.
LEMMA SettlementsKept ==
    ASSUME Inv, UNCHANGED <<settlement, postings>>,
           \A po \in Payouts : ledger'[ReleaseKey(po)] = ledger[ReleaseKey(po)],
           \A po \in Payouts : payout'[po] = "completed" => payout[po] = "completed"
    PROVE  SettlementsArePosted' /\ SettledIsMirrored' /\ CompletedIsSettled'
  <1>1. \A po \in Payouts : AlreadyPosted(po)' = AlreadyPosted(po)
    BY DEF AlreadyPosted
  <1>2. \A po \in Payouts : Posted(ReleaseKey(po))' = Posted(ReleaseKey(po))
    BY DEF Posted, ReleaseKey, Key
  <1>3. SettledIsMirrored'
    BY <1>2 DEF Inv, SettledIsMirrored, ReleaseKey, Key
  <1> QED BY <1>1, <1>2, <1>3 DEF Inv, SettlementsArePosted, CompletedIsSettled

\* A step that leaves the capture postings alone and captures no row keeps what
\* is known of captures.
LEMMA CapturesKept ==
    ASSUME Inv,
           \A p \in Payments : /\ ledger'[CaptureKey(p)] = ledger[CaptureKey(p)]
                               /\ payment'[p] = "initiated" <=> payment[p] = "initiated",
           \A t \in TicketPayments :
               /\ ledger'[TicketCaptureKey(t)] = ledger[TicketCaptureKey(t)]
               /\ ticketPayment'[t] = "initiated" <=> ticketPayment[t] = "initiated"
    PROVE  CapturesArePosted'
  <1>1. \A p \in Payments : Posted(CaptureKey(p))' = Posted(CaptureKey(p))
    BY DEF Posted, CaptureKey, Key
  <1>2. \A t \in TicketPayments : Posted(TicketCaptureKey(t))' = Posted(TicketCaptureKey(t))
    BY DEF Posted, TicketCaptureKey, Key
  <1> QED BY <1>1, <1>2 DEF Inv, CapturesArePosted

LEMMA LedgerKept ==
    ASSUME Inv, UNCHANGED <<treasury, payment, ticketPayment>>, TypeOK',
           \A po \in Payouts : payout'[po] = "completed" => payout[po] = "completed"
    PROVE  Inv'
  <1>1. UNCHANGED <<ledger, settlement, postings>>
    BY DEF treasury
  <1> QED BY <1>1, SettlementsKept, CapturesKept DEF Inv

\* A posting that no row tells of.
LEMMA UnwatchedPosting ==
    ASSUME Inv, NEW key \in Keys, ~Watched(key), NEW lines \in SUBSET Lines, Posts(key, lines),
           UNCHANGED <<payout, ticketPayment>>, TypeOK',
           \A p \in Payments : payment'[p] = "initiated" <=> payment[p] = "initiated"
    PROVE  Inv'
  <1>1. \A k \in Keys : Watched(k) => ledger'[k] = ledger[k]
    <2>1. \A k \in Keys : Watched(k) => k # key
      BY DEF Watched
    <2> QED BY <2>1, PostFacts DEF Posts, Inv, TypeOK
  <1>2. /\ \A po \in Payouts : ledger'[ReleaseKey(po)] = ledger[ReleaseKey(po)]
        /\ \A p \in Payments : ledger'[CaptureKey(p)] = ledger[CaptureKey(p)]
        /\ \A t \in TicketPayments : ledger'[TicketCaptureKey(t)] = ledger[TicketCaptureKey(t)]
    BY <1>1, KeysDiffer, KeysExist
  <1> QED BY <1>2, SettlementsKept, CapturesKept DEF Inv, Posts

LEMMA BookingCaptured ==
    ASSUME Inv, NEW p \in Payments, ApplyQuaserPaymentCapture(p) PROVE Inv'
  <1> DEFINE lines == CaptureLines(Gross(p), Fee[p])
  <1>1. lines \in SUBSET Lines /\ lines # {}
    BY Amounts, LinesWritten
  <1>2. ledger' = Post(CaptureKey(p), lines) /\ UNCHANGED <<settlement, postings, reports, deploy>>
    BY DEF ApplyQuaserPaymentCapture, Posts
  <1>3. /\ ledger' \in [Keys -> SUBSET Lines]
        /\ \A k \in Keys : k # CaptureKey(p) => ledger'[k] = ledger[k]
        /\ ledger'[CaptureKey(p)] # {}
    BY <1>1, <1>2, PostFacts, KeysExist DEF Inv, TypeOK
  <1>4. TypeOK'
    BY <1>2, <1>3 DEF Inv, TypeOK, ApplyQuaserPaymentCapture, PaymentStates, payoutRows, ticketRows, Gross
  <1>5. SettlementsArePosted' /\ SettledIsMirrored' /\ CompletedIsSettled'
    <2>1. \A po \in Payouts : ledger'[ReleaseKey(po)] = ledger[ReleaseKey(po)]
      BY <1>3, KeysDiffer, KeysExist
    <2> QED BY <1>2, <2>1, SettlementsKept DEF ApplyQuaserPaymentCapture, payoutRows
  <1>6. CapturesArePosted'
    <2>1. /\ payment'[p] # "initiated"
          /\ \A q \in Payments : q # p => payment'[q] = payment[q]
      BY DEF ApplyQuaserPaymentCapture, Inv, TypeOK
    <2>2. \A q \in Payments : q # p => ledger'[CaptureKey(q)] = ledger[CaptureKey(q)]
      BY <1>3, KeysDiffer, KeysExist
    <2>3. \A t \in TicketPayments : ledger'[TicketCaptureKey(t)] = ledger[TicketCaptureKey(t)]
      BY <1>3, KeysDiffer, KeysExist
    <2>4. \A q \in Payments : Posted(CaptureKey(q))' <=> payment'[q] # "initiated"
      BY <1>3, <2>1, <2>2 DEF Inv, CapturesArePosted, Posted, CaptureKey, Key
    <2>5. \A t \in TicketPayments : Posted(TicketCaptureKey(t))' <=> ticketPayment'[t] # "initiated"
      BY <2>3 DEF Inv, CapturesArePosted, Posted, ApplyQuaserPaymentCapture, ticketRows, TicketCaptureKey, Key
    <2> QED BY <2>4, <2>5 DEF CapturesArePosted
  <1> QED BY <1>4, <1>5, <1>6 DEF Inv

LEMMA TicketCaptured ==
    ASSUME Inv, NEW t \in TicketPayments, ApplyTicketCapture(t) PROVE Inv'
  <1> DEFINE lines == TicketCaptureLines(OrganizerOf[t], Fee[t], Subtotal[t])
  <1>1. lines \in SUBSET Lines /\ lines # {}
    BY Amounts, OwnersAssumption, LinesWritten
  <1>2. ledger' = Post(TicketCaptureKey(t), lines) /\ UNCHANGED <<settlement, postings, reports, deploy>>
    BY DEF ApplyTicketCapture, Posts
  <1>3. /\ ledger' \in [Keys -> SUBSET Lines]
        /\ \A k \in Keys : k # TicketCaptureKey(t) => ledger'[k] = ledger[k]
        /\ ledger'[TicketCaptureKey(t)] # {}
    BY <1>1, <1>2, PostFacts, KeysExist DEF Inv, TypeOK
  <1>4. TypeOK'
    BY <1>2, <1>3 DEF Inv, TypeOK, ApplyTicketCapture, payoutRows, bookingRows, Gross
  <1>5. SettlementsArePosted' /\ SettledIsMirrored' /\ CompletedIsSettled'
    <2>1. \A po \in Payouts : ledger'[ReleaseKey(po)] = ledger[ReleaseKey(po)]
      BY <1>3, KeysDiffer, KeysExist
    <2> QED BY <1>2, <2>1, SettlementsKept DEF ApplyTicketCapture, payoutRows
  <1>6. CapturesArePosted'
    <2>1. /\ ticketPayment'[t] # "initiated"
          /\ \A s \in TicketPayments : s # t => ticketPayment'[s] = ticketPayment[s]
      BY DEF ApplyTicketCapture, Inv, TypeOK
    <2>2. \A s \in TicketPayments : s # t => ledger'[TicketCaptureKey(s)] = ledger[TicketCaptureKey(s)]
      BY <1>3, KeysDiffer, KeysExist
    <2>3. \A p \in Payments : ledger'[CaptureKey(p)] = ledger[CaptureKey(p)]
      BY <1>3, KeysDiffer, KeysExist
    <2>4. \A s \in TicketPayments : Posted(TicketCaptureKey(s))' <=> ticketPayment'[s] # "initiated"
      BY <1>3, <2>1, <2>2 DEF Inv, CapturesArePosted, Posted, TicketCaptureKey, Key
    <2>5. \A p \in Payments : Posted(CaptureKey(p))' <=> payment'[p] # "initiated"
      BY <2>3 DEF Inv, CapturesArePosted, Posted, ApplyTicketCapture, bookingRows, CaptureKey, Key
    <2> QED BY <2>4, <2>5 DEF CapturesArePosted
  <1> QED BY <1>4, <1>5, <1>6 DEF Inv

\* Refunds, chargebacks, flags and recovery.
LEMMA PaymentSteps ==
    ASSUME Inv, NEW p \in Payments, PaymentNext(p) PROVE Inv'
  <1>1. CASE ApplyQuaserPaymentCapture(p)
    BY <1>1, BookingCaptured
  <1>2. ASSUME NEW amount \in 1..Gross(p), NEW k \in RefundKeys, RefundPayment(p, amount, k)
        PROVE  Inv'
    <2>1. /\ amount \in Nat /\ RefundLines(amount) \in SUBSET Lines /\ RefundKey(k) \in Keys
          /\ ~Watched(RefundKey(k))
      BY Amounts, LinesWritten, KeysExist, KeysDiffer
    <2>2. Posts(RefundKey(k), RefundLines(amount))
          /\ UNCHANGED <<settlement, postings, reports, deploy, payout, asking, ticketPayment>>
      BY <1>2 DEF RefundPayment, Posts, payoutRows, ticketRows
    <2>3. ledger' \in [Keys -> SUBSET Lines]
      BY <2>1, <2>2, PostFacts DEF Posts, Inv, TypeOK
    <2>4. refunded[p] + amount \in Nat /\ refunded[p] + amount <= Gross(p)
      BY <1>2, <2>1 DEF RefundPayment, Inv, TypeOK
    <2>5. TypeOK'
      BY <1>2, <2>2, <2>3, <2>4 DEF Inv, TypeOK, RefundPayment, PaymentStates, payoutRows, ticketRows, Gross
    <2>6. \A q \in Payments : payment'[q] = "initiated" <=> payment[q] = "initiated"
      BY <1>2 DEF RefundPayment, Inv, TypeOK
    <2> QED BY <2>1, <2>2, <2>5, <2>6, UnwatchedPosting
  <1>3. ASSUME NEW amount \in 1..Gross(p), NEW ev \in ChargebackEvents, ApplyChargeback(p, amount, ev)
        PROVE  Inv'
    <2>1. /\ amount \in Nat /\ ChargebackLines(VendorOf[p], amount) \in SUBSET Lines
          /\ ChargebackKey(p, ev) \in Keys /\ ~Watched(ChargebackKey(p, ev))
      <3>1. amount \in Nat /\ VendorOf[p] \in Vendors
        BY Amounts, OwnersAssumption
      <3>2. ChargebackLines(VendorOf[p], amount) \in SUBSET Lines
        BY <3>1, LinesWritten
      <3> QED BY <3>1, <3>2, KeysExist, KeysDiffer
    <2>2. Posts(ChargebackKey(p, ev), ChargebackLines(VendorOf[p], amount))
          /\ UNCHANGED <<settlement, postings, reports, deploy, payout, asking, ticketPayment, payment>>
      BY <1>3 DEF ApplyChargeback, Posts, payoutRows, ticketRows
    <2>3. ledger' \in [Keys -> SUBSET Lines]
      BY <2>1, <2>2, PostFacts DEF Posts, Inv, TypeOK
    <2>4. TypeOK'
      BY <1>3, <2>2, <2>3 DEF Inv, TypeOK, ApplyChargeback, payoutRows, ticketRows, Gross
    <2> QED BY <2>1, <2>2, <2>4, UnwatchedPosting
  <1>4. CASE (\E flag \in BOOLEAN : SetReview(p, flag)) \/ RecoverMissingCaptureLedger(p)
    <2>1. UNCHANGED <<treasury, deploy, payment, refunded, payoutRows, ticketRows>>
      BY <1>4 DEF SetReview, RecoverMissingCaptureLedger
    <2>2. paymentReview' \subseteq Payments \cup TicketPayments
      BY <1>4, Zenon DEF SetReview, RecoverMissingCaptureLedger, Inv, TypeOK
    <2>3. TypeOK'
      BY <2>1, <2>2 DEF Inv, TypeOK, treasury, payoutRows, ticketRows, Gross
    <2> QED BY <2>1, <2>3, LedgerKept DEF payoutRows, ticketRows
  <1> QED BY <1>1, <1>2, <1>3, <1>4 DEF PaymentNext

\* The rows of payouts, outside the webhook.
LEMMA PayoutRowSteps ==
    ASSUME Inv,
           \/ \E po \in Payouts : \/ InsertPayout(po) \/ MarkProcessing(po)
                                  \/ MarkFailed(po) \/ RequestDies(po)
           \/ \E stale \in SUBSET Payouts : RunSweep(stale)
    PROVE  Inv'
  <1>1. /\ UNCHANGED <<treasury, deploy, bookingRows, ticketRows>>
        /\ payout' \in [Payouts -> PayoutStates] /\ asking' \subseteq Payouts
        /\ \A po \in Payouts : payout'[po] = "completed" => payout[po] = "completed"
    BY DEF InsertPayout, MarkProcessing, MarkFailed, RequestDies, RunSweep, Inv, TypeOK, PayoutStates
  <1>2. TypeOK'
    BY <1>1 DEF Inv, TypeOK, treasury, bookingRows, ticketRows, Gross
  <1> QED BY <1>1, <1>2, LedgerKept DEF bookingRows, ticketRows

\* What a writer copies is made of lines.
LEMMA CopyType ==
    ASSUME NEW entries \in SUBSET Lines, NEW copy \in Copies(entries)
    PROVE  copy \in SUBSET Lines
  <1>1. CASE deploy # "bad"
    BY <1>1 DEF Copies
  <1>2. CASE deploy = "bad"
    <2>1. \A l \in entries : [l EXCEPT !.account = Escrow] \in Lines
      BY PoolAccounts DEF Lines
    <2> QED BY <1>2, <2>1 DEF Copies
  <1> QED BY <1>1, <1>2

LEMMA PayoutSettled ==
    ASSUME Inv, NEW po \in Payouts,
           NEW copy \in Copies(Entries(po, VendorOf[PaymentOf[po]], Subtotal[PaymentOf[po]])),
           HandlePayoutCompleted(po, copy)
    PROVE  Inv'
  <1> DEFINE v == VendorOf[PaymentOf[po]]
             amount == Subtotal[PaymentOf[po]]
             lines == PayoutReleaseLines(v, amount)
             key == ReleaseKey(po)
             copied == WriteTreasurySettlementFinancial(po, copy)
  <1>1. /\ lines \in SUBSET Lines /\ lines # {} /\ key \in Keys
    BY Amounts, OwnersAssumption, LinesWritten, KeysExist
  <1>2. UNCHANGED <<deploy, bookingRows, asking, ticketRows>>
    BY DEF HandlePayoutCompleted
  <1>3. /\ payout' \in [Payouts -> PayoutStates]
        /\ \A px \in Payouts : px # po => payout'[px] = payout[px]
        /\ payout'[po] = "completed" => Settles(po, v, amount, copy)
    BY DEF HandlePayoutCompleted, SettlesPayout, Inv, TypeOK, PayoutStates, InFlight
  <1>4. CASE AlreadyPosted(po)
    <2>1. UNCHANGED treasury
      BY <1>4 DEF HandlePayoutCompleted, PostSettlementJournal
    <2>2. TypeOK'
      BY <1>2, <1>3, <2>1 DEF Inv, TypeOK, treasury, bookingRows, ticketRows, Gross
    <2>3. CapturesArePosted'
      BY <1>2, <2>1, CapturesKept DEF treasury, bookingRows, ticketRows
    <2>4. \A px \in Payouts : /\ AlreadyPosted(px)' = AlreadyPosted(px)
                              /\ Posted(ReleaseKey(px))' = Posted(ReleaseKey(px))
      BY <2>1 DEF treasury, AlreadyPosted, Posted, ReleaseKey, Key
    <2>5. SettlementsArePosted' /\ CompletedIsSettled'
      BY <1>3, <1>4, <2>4 DEF Inv, SettlementsArePosted, CompletedIsSettled
    <2>6. SettledIsMirrored'
      BY <2>1, <2>4 DEF Inv, SettledIsMirrored, treasury, ReleaseKey, Key
    <2> QED BY <2>2, <2>3, <2>5, <2>6 DEF Inv
  <1>5. CASE ~AlreadyPosted(po)
    <2>1. /\ ledger' = Post(key, lines)
          /\ settlement' = [settlement EXCEPT ![po] = SettlementStatus(po, v, amount, copy)]
          /\ postings' = IF DualWrite THEN [postings EXCEPT ![po] = copied] ELSE postings
          /\ reports' = IF Settles(po, v, amount, copy) THEN reports ELSE RecordTreasuryMismatch(po)
      BY <1>5 DEF HandlePayoutCompleted, PostSettlementJournal
    <2>2. /\ ledger' \in [Keys -> SUBSET Lines] /\ ledger'[key] # {}
          /\ \A k \in Keys : (k # key \/ Posted(k)) => ledger'[k] = ledger[k]
      BY <1>1, <2>1, PostFacts DEF Inv, TypeOK
    <2>3. Entries(po, v, amount) = ledger'[key]
      BY <2>1 DEF Entries
    <2>4. copied \in SUBSET Lines
      <3>1. Entries(po, v, amount) \in SUBSET Lines
        BY <1>1, <2>2, <2>3
      <3>2. copy \in SUBSET Lines
        BY <3>1, CopyType
      <3> QED BY <3>2 DEF WriteTreasurySettlementFinancial, Inv, TypeOK
    <2>5. TypeOK'
      <3>1. settlement' \in [Payouts -> SettlementStates] /\ postings' \in [Payouts -> SUBSET Lines]
        BY <2>1, <2>4 DEF Inv, TypeOK, SettlementStatus, SettlementStates
      <3>2. reports' \subseteq Issues
        BY <2>1 DEF Inv, TypeOK, RecordTreasuryMismatch, Issues
      <3> QED BY <1>2, <1>3, <2>2, <3>1, <3>2 DEF Inv, TypeOK, bookingRows, ticketRows, Gross
    <2>6. CapturesArePosted'
      <3>1. /\ \A p \in Payments : ledger'[CaptureKey(p)] = ledger[CaptureKey(p)]
            /\ \A t \in TicketPayments : ledger'[TicketCaptureKey(t)] = ledger[TicketCaptureKey(t)]
        BY <2>2, KeysDiffer, KeysExist
      <3> QED BY <1>2, <3>1, CapturesKept DEF bookingRows, ticketRows
    <2>7. /\ settlement'[po] = SettlementStatus(po, v, amount, copy)
          /\ \A px \in Payouts : px # po => /\ settlement'[px] = settlement[px]
                                           /\ postings'[px] = postings[px]
                                           /\ ledger'[ReleaseKey(px)] = ledger[ReleaseKey(px)]
      BY <2>1, <2>2, KeysDiffer, KeysExist DEF Inv, TypeOK
    <2>8. /\ AlreadyPosted(po)' <=> Settles(po, v, amount, copy)
          /\ Posted(key)'
          /\ \A px \in Payouts : px # po => /\ AlreadyPosted(px)' = AlreadyPosted(px)
                                           /\ Posted(ReleaseKey(px))' = Posted(ReleaseKey(px))
      BY <2>2, <2>7 DEF AlreadyPosted, SettlementStatus, Posted, ReleaseKey, Key
    <2>9. SettlementsArePosted' /\ CompletedIsSettled'
      BY <1>3, <2>8 DEF Inv, SettlementsArePosted, CompletedIsSettled
    <2>10. SettledIsMirrored'
      <3>1. ASSUME settlement'[po] = "reconciled"
            PROVE  /\ SumDirection(postings'[po], "debit") = SumDirection(ledger'[key], "debit")
                   /\ SumDirection(postings'[po], "credit") = SumDirection(ledger'[key], "credit")
        <4>1. DualWrite /\ Settles(po, v, amount, copy)
          BY <2>7, <3>1 DEF SettlementStatus
        <4>2. Parity(ledger'[key], copied)
          BY <1>5, <2>3, <4>1 DEF Settles
        <4>3. postings'[po] = copied
          BY <2>1, <4>1 DEF Inv, TypeOK
        <4> QED BY <4>2, <4>3 DEF Parity
      <3>2. \A px \in Payouts : px # po /\ settlement'[px] = "reconciled" =>
              /\ SumDirection(postings'[px], "debit") = SumDirection(ledger'[ReleaseKey(px)], "debit")
              /\ SumDirection(postings'[px], "credit") = SumDirection(ledger'[ReleaseKey(px)], "credit")
        BY <2>7 DEF Inv, SettledIsMirrored
      <3>3. \A px \in Payouts : settlement'[px] = "reconciled" => Posted(ReleaseKey(px))'
        BY <2>7, <2>8 DEF Inv, SettledIsMirrored
      <3> QED BY <3>1, <3>2, <3>3 DEF SettledIsMirrored, ReleaseKey, Key
    <2> QED BY <2>5, <2>6, <2>9, <2>10 DEF Inv
  <1> QED BY <1>4, <1>5

\* Steps of the ticket rail and of the nightly comparison.
LEMMA TicketSteps ==
    ASSUME Inv, TicketNext PROVE Inv'
  <1>1. ASSUME NEW t \in TicketPayments, ApplyTicketCapture(t) PROVE Inv'
    BY <1>1, TicketCaptured
  <1>2. ASSUME NEW k \in Cases, CompleteCase(k) PROVE Inv'
    <2>1. TypeOK'
      BY <1>2 DEF CompleteCase, Inv, TypeOK, treasury, bookingRows, payoutRows, Gross
    <2> QED BY <1>2, <2>1, LedgerKept DEF CompleteCase, bookingRows, payoutRows
  <1>3. ASSUME NEW k \in Cases, PostTicketRefund(k) PROVE Inv'
    <2> DEFINE lines == TicketRefundLines(OrganizerOf[CaseOf[k]], CaseRefund[k], FeeReversal(k))
    <2>1. /\ lines \in SUBSET Lines /\ TicketRefundKey(k) \in Keys /\ ~Watched(TicketRefundKey(k))
      <3>1. CaseRefund[k] \in Nat /\ FeeReversal(k) \in Nat /\ OrganizerOf[CaseOf[k]] \in Organizers
        BY Amounts, FeeReversalType, OwnersAssumption
      <3>2. lines \in SUBSET Lines
        BY <3>1, LinesWritten
      <3> QED BY <3>2, KeysExist, KeysDiffer
    <2>2. Posts(TicketRefundKey(k), lines) /\ UNCHANGED <<bookingRows, payoutRows, ticketRows>>
      BY <1>3 DEF PostTicketRefund
    <2>3. ledger' \in [Keys -> SUBSET Lines]
      BY <2>1, <2>2, PostFacts DEF Posts, Inv, TypeOK
    <2>4. TypeOK'
      BY <2>2, <2>3 DEF Posts, Inv, TypeOK, bookingRows, payoutRows, ticketRows, Gross
    <2> QED BY <2>1, <2>2, <2>4, UnwatchedPosting DEF bookingRows, payoutRows, ticketRows
  <1>4. ASSUME NEW q \in OrganizerPayouts, CompleteOrganizerPayout(q) PROVE Inv'
    <2> DEFINE lines == OrganizerReleaseLines(OrganizerOf[TicketOf[q]], Subtotal[TicketOf[q]])
    <2>1. /\ lines \in SUBSET Lines /\ OrganizerReleaseKey(q) \in Keys
          /\ ~Watched(OrganizerReleaseKey(q))
      <3>1. Subtotal[TicketOf[q]] \in Nat /\ OrganizerOf[TicketOf[q]] \in Organizers
        BY Amounts, OwnersAssumption
      <3>2. lines \in SUBSET Lines
        BY <3>1, LinesWritten
      <3> QED BY <3>2, KeysExist, KeysDiffer
    <2>2. Posts(OrganizerReleaseKey(q), lines) /\ UNCHANGED <<bookingRows, payoutRows, ticketRows>>
      BY <1>4 DEF CompleteOrganizerPayout
    <2>3. ledger' \in [Keys -> SUBSET Lines]
      BY <2>1, <2>2, PostFacts DEF Posts, Inv, TypeOK
    <2>4. TypeOK'
      BY <2>2, <2>3 DEF Posts, Inv, TypeOK, bookingRows, payoutRows, ticketRows, Gross
    <2> QED BY <2>1, <2>2, <2>4, UnwatchedPosting DEF bookingRows, payoutRows, ticketRows
  <1> QED BY <1>1, <1>2, <1>3, <1>4 DEF TicketNext

LEMMA ConsistencyChecked ==
    ASSUME Inv, NEW row \in Payments \cup TicketPayments \cup Payouts, RunConsistencyCheck({row})
    PROVE  Inv'
  <1>1. UNCHANGED <<ledger, settlement, postings, deploy, payment, refunded, payoutRows, ticketRows>>
    BY DEF RunConsistencyCheck
  <1>2. paymentReview' \subseteq Payments \cup TicketPayments
    BY DEF RunConsistencyCheck, Inv, TypeOK, MissingLedger, OrphanLedger, MissingTicketLedger,
           CapturedTickets, OrphanTicketLedger
  <1>3. reports' \subseteq Issues
    <2>1. \A rows \in SUBSET (Payments \cup TicketPayments) :
            /\ Raised("ledger_only_transaction", rows) \subseteq Issues
            /\ Raised("psp_only_transaction", rows) \subseteq Issues
      BY DEF Raised, Issues
    <2>2. \A rows \in SUBSET Payouts : Raised("status_mismatch", rows) \subseteq Issues
      BY DEF Raised, Issues
    <2>3. /\ {row} \cap (MissingLedger \cup MissingTicketLedger) \in SUBSET (Payments \cup TicketPayments)
          /\ {row} \cap (OrphanLedger \cup OrphanTicketLedger) \in SUBSET (Payments \cup TicketPayments)
          /\ {row} \cap SettlementMismatches \in SUBSET Payouts
      BY DEF MissingLedger, OrphanLedger, MissingTicketLedger, CapturedTickets, OrphanTicketLedger,
             SettlementMismatches
    <2> QED BY <2>1, <2>2, <2>3 DEF RunConsistencyCheck, Inv, TypeOK
  <1>4. TypeOK'
    BY <1>1, <1>2, <1>3 DEF Inv, TypeOK, payoutRows, ticketRows, Gross
  <1> QED BY <1>1, <1>4, SettlementsKept, CapturesKept DEF Inv, payoutRows, ticketRows

LEMMA Redeployed ==
    ASSUME Inv, NEW build \in Deploys, Redeploy(build), UNCHANGED <<bookingRows, payoutRows, ticketRows>>
    PROVE  Inv'
  <1>1. TypeOK'
    BY DEF Redeploy, Inv, TypeOK, treasury, bookingRows, payoutRows, ticketRows, Gross
  <1> QED BY <1>1, LedgerKept DEF Redeploy, bookingRows, payoutRows, ticketRows

-----------------------------------------------------------------------------
(* Theorems                                                                *)

LEMMA InitInv == Init => Inv
  <1> SUFFICES ASSUME Init PROVE Inv
    OBVIOUS
  <1>1. TypeOK
    BY Amounts DEF Init, TypeOK, SettlementStates, Deploys, PaymentStates, PayoutStates
  <1>2. CapturesArePosted
    BY KeysExist DEF Init, CapturesArePosted, Posted
  <1>3. SettlementsArePosted /\ SettledIsMirrored /\ CompletedIsSettled
    BY DEF Init, SettlementsArePosted, SettledIsMirrored, CompletedIsSettled, AlreadyPosted
  <1> QED BY <1>1, <1>2, <1>3 DEF Inv

LEMMA InvStep == Inv /\ [Next]_vars => Inv'
  <1> SUFFICES ASSUME Inv, [Next]_vars PROVE Inv'
    OBVIOUS
  <1>1. ASSUME NEW p \in Payments, PaymentNext(p) PROVE Inv'
    BY <1>1, PaymentSteps
  <1>2. ASSUME NEW po \in Payouts, PayoutNext(po) PROVE Inv'
    BY <1>2, PayoutRowSteps, PayoutSettled DEF PayoutNext
  <1>3. ASSUME NEW stale \in SUBSET Payouts, RunSweep(stale) PROVE Inv'
    BY <1>3, PayoutRowSteps
  <1>4. CASE UNCHANGED vars
    <2>1. TypeOK'
      BY <1>4 DEF vars, treasury, bookingRows, payoutRows, ticketRows, Inv, TypeOK, Gross
    <2> QED BY <1>4, <2>1, LedgerKept DEF vars, bookingRows, payoutRows, ticketRows
  <1> QED BY <1>1, <1>2, <1>3, <1>4, TicketSteps, ConsistencyChecked, Redeployed DEF Next

LEMMA Inductive == Spec => []Inv
  BY InitInv, InvStep, PTL DEF Spec

\* Whatever the amounts, no row is refunded beyond its capture, and every
\* posting, settlement and report is one that the code writes.
THEOREM TypeCorrect == Spec => []TypeOK
  <1>1. Inv => TypeOK
    BY DEF Inv
  <1> QED BY Inductive, <1>1, PTL

\* The dual write: nothing is reconciled that the mirror does not add up to.
THEOREM ReconciledIsMirrored == Spec => []SettledIsMirrored
  <1>1. Inv => SettledIsMirrored
    BY DEF Inv
  <1> QED BY Inductive, <1>1, PTL

\* No payout is completed over a mismatch or without its release.
THEOREM CompletedPayoutsAreReleased == Spec => []CompletedIsSettled
  <1>1. Inv => CompletedIsSettled
    BY DEF Inv
  <1> QED BY Inductive, <1>1, PTL

\* The nightly comparison finds refunded payments and nothing else.
THEOREM ComparisonFindsRefunds == Spec => []OnlyRefundsAreFlagged
  <1>1. Inv => OnlyRefundsAreFlagged
    <2> SUFFICES ASSUME Inv PROVE OnlyRefundsAreFlagged
      OBVIOUS
    <2>1. MissingLedger = {} /\ SettlementMismatches = {}
      BY DEF Inv, MissingLedger, SettlementMismatches, CapturesArePosted, SettlementsArePosted
    <2>2. MissingTicketLedger = {} /\ OrphanTicketLedger = {}
      BY DEF Inv, TypeOK, MissingTicketLedger, OrphanTicketLedger, CapturedTickets, CapturesArePosted
    <2>3. \A p \in OrphanLedger : payment[p] \in {"partially_refunded", "refunded"}
      BY DEF Inv, TypeOK, OrphanLedger, CapturesArePosted, PaymentStates
    <2> QED BY <2>1, <2>2, <2>3 DEF OnlyRefundsAreFlagged
  <1> QED BY Inductive, <1>1, PTL
-----------------------------------------------------------------------------
(* What a posting does to accounts                                         *)

\* What a line adds to the balance of some accounts.
Effect(l, accounts) ==
    IF l.account \notin accounts THEN 0 ELSE IF l.direction = "credit" THEN l.amount ELSE 0 - l.amount
NetEffect(lines, accounts) == SumFunctionOnSet([l \in lines |-> Effect(l, accounts)], lines)

AreLines(lines) ==
    IsFiniteSet(lines) /\ \A l \in lines : l.amount \in Nat /\ l.direction \in {"debit", "credit"}

LEMMA EffectType ==
    ASSUME NEW lines, AreLines(lines), NEW accounts
    PROVE  \A l \in lines : Effect(l, accounts) \in Int
  BY DEF AreLines, Effect

LEMMA DirectionIsSum ==
    ASSUME NEW lines, NEW direction
    PROVE  SumDirection(lines, direction)
             = SumFunctionOnSet([l \in {x \in lines : x.direction = direction} |-> l.amount],
                                {x \in lines : x.direction = direction})
  BY Zenon DEF SumDirection, SumFunctionOnSet, FoldFunctionOnSet, MapThenSumSet, MapThenFoldSet

LEMMA DirectionType ==
    ASSUME NEW lines, AreLines(lines), NEW direction
    PROVE  SumDirection(lines, direction) \in Nat
  <1> DEFINE S == {x \in lines : x.direction = direction}
             f == [l \in S |-> l.amount]
  <1>1. IsFiniteSet(S) /\ \A l \in S : f[l] \in Nat
    BY FS_Subset DEF AreLines
  <1>2. SumFunctionOnSet(f, S) \in Nat
    <2> HIDE DEF S, f
    <2> QED BY <1>1, SumNatural
  <1> QED BY <1>2, DirectionIsSum

\* Credits less debits of the lines of some accounts are the effects of all lines.
LEMMA NetIsSum ==
    ASSUME NEW lines, AreLines(lines), NEW accounts
    PROVE  Net({l \in lines : l.account \in accounts}) = NetEffect(lines, accounts)
  <1> DEFINE own == {l \in lines : l.account \in accounts}
             C == {x \in own : x.direction = "credit"}
             D == {x \in own : x.direction = "debit"}
             e == [l \in lines |-> Effect(l, accounts)]
             c == [l \in C |-> l.amount]
             d == [l \in D |-> l.amount]
             minus == [l \in D |-> 0 - l.amount]
             nothing == [l \in D |-> 0]
  <1>1. /\ IsFiniteSet(C) /\ IsFiniteSet(D) /\ IsFiniteSet(C \cup D) /\ IsFiniteSet(lines)
        /\ C \cap D = {} /\ C \cup D \in SUBSET lines
    <2>1. C \in SUBSET lines /\ D \in SUBSET lines /\ IsFiniteSet(lines) /\ C \cap D = {}
      BY DEF AreLines
    <2> HIDE DEF C, D
    <2> QED BY <2>1, FS_Subset, FS_Union
  <1>2. /\ \A l \in C : c[l] \in Int /\ e[l] = c[l]
        /\ \A l \in D : d[l] \in Int /\ minus[l] \in Int /\ e[l] = minus[l]
        /\ \A l \in D : nothing[l] = 0 /\ nothing[l] = d[l] + minus[l]
        /\ \A l \in lines \ (C \cup D) : e[l] = 0
        /\ \A l \in lines : e[l] \in Int
    BY EffectType DEF AreLines, Effect
  <1>3. SumDirection(own, "credit") = SumFunctionOnSet(c, C)
        /\ SumDirection(own, "debit") = SumFunctionOnSet(d, D)
    BY DirectionIsSum
  <1>4. NetEffect(lines, accounts) = SumFunctionOnSet(e, lines)
    BY DEF NetEffect
  <1> HIDE DEF own, C, D, e, c, d, minus, nothing
  <1>5. SumFunctionOnSet(e, lines) = SumFunctionOnSet(e, C \cup D)
    BY <1>1, <1>2, SumSubset
  <1>6. SumFunctionOnSet(e, C \cup D) = SumFunctionOnSet(e, C) + SumFunctionOnSet(e, D)
    <2>1. \A l \in C \cup D : e[l] \in Int
      BY <1>1, <1>2
    <2> QED BY <1>1, <2>1, SumUnion
  <1>7. SumFunctionOnSet(e, C) = SumFunctionOnSet(c, C) /\ SumFunctionOnSet(e, D) = SumFunctionOnSet(minus, D)
    BY <1>1, <1>2, SumSame
  <1>8. SumFunctionOnSet(nothing, D) = SumFunctionOnSet(d, D) + SumFunctionOnSet(minus, D)
    BY <1>1, <1>2, SumPlus
  <1>9. SumFunctionOnSet(nothing, D) = 0
    BY <1>1, <1>2, SumZero
  <1>10. /\ SumFunctionOnSet(c, C) \in Int /\ SumFunctionOnSet(d, D) \in Int
         /\ SumFunctionOnSet(minus, D) \in Int
    BY <1>1, <1>2, SumType
  <1>11. Net(own) = SumFunctionOnSet(c, C) - SumFunctionOnSet(d, D)
    BY <1>3 DEF Net
  <1>12. Net(own) = NetEffect(lines, accounts)
    BY <1>4, <1>5, <1>6, <1>7, <1>8, <1>9, <1>10, <1>11
  <1> QED BY <1>12 DEF own

\* The lines of one account, as the services select them.
LEMMA NetOfAccount ==
    ASSUME NEW lines, AreLines(lines), NEW account
    PROVE  Net(LinesOf(lines, account)) = NetEffect(lines, {account})
  <1>1. LinesOf(lines, account) = {l \in lines : l.account \in {account}}
    BY DEF LinesOf
  <1> QED BY <1>1, NetIsSum
LEMMA NoLines ==
    ASSUME NEW accounts PROVE AreLines({}) /\ NetEffect({}, accounts) = 0
  BY FS_EmptySet, SumEmpty DEF AreLines, NetEffect

LEMMA NetEffectType ==
    ASSUME NEW lines, AreLines(lines), NEW accounts PROVE NetEffect(lines, accounts) \in Int
  <1> DEFINE f == [l \in lines |-> Effect(l, accounts)]
  <1>1. IsFiniteSet(lines) /\ \A l \in lines : f[l] \in Int
    BY EffectType DEF AreLines
  <1> HIDE DEF f
  <1>2. SumFunctionOnSet(f, lines) \in Int
    BY <1>1, SumType
  <1> QED BY <1>2 DEF f, NetEffect

\* Two sets of lines posted together have the effects of both.
LEMMA NetJoin ==
    ASSUME NEW A, AreLines(A), NEW B, AreLines(B), A \cap B = {}, NEW accounts
    PROVE  /\ AreLines(A \cup B)
           /\ NetEffect(A \cup B, accounts) = NetEffect(A, accounts) + NetEffect(B, accounts)
  <1> DEFINE f == [l \in A \cup B |-> Effect(l, accounts)]
             a == [l \in A |-> Effect(l, accounts)]
             b == [l \in B |-> Effect(l, accounts)]
  <1>1. AreLines(A \cup B) /\ IsFiniteSet(A) /\ IsFiniteSet(B)
    BY FS_Union DEF AreLines
  <1>2. /\ \A l \in A : f[l] = a[l]
        /\ \A l \in B : f[l] = b[l]
        /\ \A l \in A \cup B : f[l] \in Int
    BY <1>1, EffectType
  <1>3. /\ NetEffect(A \cup B, accounts) = SumFunctionOnSet(f, A \cup B)
        /\ NetEffect(A, accounts) = SumFunctionOnSet(a, A)
        /\ NetEffect(B, accounts) = SumFunctionOnSet(b, B)
    BY DEF NetEffect
  <1> HIDE DEF f, a, b
  <1>4. SumFunctionOnSet(f, A \cup B) = SumFunctionOnSet(f, A) + SumFunctionOnSet(f, B)
    BY <1>1, <1>2, SumUnion
  <1>5. SumFunctionOnSet(f, A) = SumFunctionOnSet(a, A) /\ SumFunctionOnSet(f, B) = SumFunctionOnSet(b, B)
    BY <1>1, <1>2, SumSame
  <1> QED BY <1>1, <1>3, <1>4, <1>5

\* Lines of 0, which are never written, have none.
LEMMA NetPositive ==
    ASSUME NEW lines, AreLines(lines), NEW accounts
    PROVE  /\ AreLines(Positive(lines))
           /\ NetEffect(Positive(lines), accounts) = NetEffect(lines, accounts)
  <1> DEFINE S == Positive(lines)
             f == [l \in lines |-> Effect(l, accounts)]
             g == [l \in S |-> Effect(l, accounts)]
  <1>1. AreLines(S) /\ S \in SUBSET lines /\ IsFiniteSet(S) /\ IsFiniteSet(lines)
    <2>1. S \in SUBSET lines /\ IsFiniteSet(lines)
      BY DEF Positive, AreLines
    <2>2. IsFiniteSet(S)
      BY <2>1, FS_Subset
    <2> QED BY <2>1, <2>2 DEF AreLines
  <1>2. /\ \A l \in S : f[l] = g[l] /\ f[l] \in Int
        /\ \A l \in lines \ S : f[l] = 0
    BY <1>1, EffectType DEF Positive, AreLines, Effect
  <1>3. NetEffect(lines, accounts) = SumFunctionOnSet(f, lines) /\ NetEffect(S, accounts) = SumFunctionOnSet(g, S)
    BY DEF NetEffect
  <1> HIDE DEF S, f, g
  <1>4. SumFunctionOnSet(f, lines) = SumFunctionOnSet(f, S)
    BY <1>1, <1>2, SumSubset
  <1>5. SumFunctionOnSet(f, S) = SumFunctionOnSet(g, S)
    BY <1>1, <1>2, SumSame
  <1> QED BY <1>1, <1>3, <1>4, <1>5 DEF S

IsLine(l) == l.amount \in Nat /\ l.direction \in {"debit", "credit"}

LEMMA NetLine ==
    ASSUME NEW l, IsLine(l), NEW accounts
    PROVE  AreLines({l}) /\ NetEffect({l}, accounts) = Effect(l, accounts)
  <1> DEFINE f == [x \in {l} |-> Effect(x, accounts)]
  <1>1. AreLines({l})
    BY FS_Singleton DEF AreLines, IsLine
  <1>2. f[l] = Effect(l, accounts) /\ f[l] \in Int
    BY <1>1, EffectType
  <1>3. NetEffect({l}, accounts) = SumFunctionOnSet(f, {l})
    BY DEF NetEffect
  <1> HIDE DEF f
  <1> QED BY <1>1, <1>2, <1>3, SumOne

LEMMA NetPair ==
    ASSUME NEW l, IsLine(l), NEW m, IsLine(m), l # m, NEW accounts
    PROVE  AreLines({l, m}) /\ NetEffect({l, m}, accounts) = Effect(l, accounts) + Effect(m, accounts)
  <1>1. {l, m} = {l} \cup {m} /\ {l} \cap {m} = {}
    OBVIOUS
  <1>2. /\ AreLines({l}) /\ NetEffect({l}, accounts) = Effect(l, accounts)
        /\ AreLines({m}) /\ NetEffect({m}, accounts) = Effect(m, accounts)
    BY NetLine
  <1>3. AreLines({l} \cup {m})
        /\ NetEffect({l} \cup {m}, accounts) = NetEffect({l}, accounts) + NetEffect({m}, accounts)
    BY <1>1, <1>2, NetJoin
  <1> QED BY <1>1, <1>2, <1>3

-----------------------------------------------------------------------------
(* The effects of each posting                                             *)

In(accounts, a, n) == IF a \in accounts THEN n ELSE 0

LEMMA LineEffects ==
    ASSUME NEW a, NEW n \in Nat, NEW memo
    PROVE  /\ IsLine(Debit(a, n, memo)) /\ IsLine(Credit(a, n, memo))
           /\ \A accounts : /\ Effect(Debit(a, n, memo), accounts) = 0 - In(accounts, a, n)
                          /\ Effect(Credit(a, n, memo), accounts) = In(accounts, a, n)
  BY DEF IsLine, Debit, Credit, Line, Effect, In

LEMMA LinesDiffer ==
    /\ \A a, b, n, m, x, y : Debit(a, n, x) # Credit(b, m, y)
    /\ \A a, b, n, m, x, y : x # y => /\ Debit(a, n, x) # Debit(b, m, y)
                                     /\ Credit(a, n, x) # Credit(b, m, y)
                                     /\ Debit(a, n, x) # Credit(b, m, y)
  BY DEF Debit, Credit, Line

LEMMA PairEffects ==
    ASSUME NEW a, NEW b, NEW n \in Nat, NEW x, NEW y, NEW accounts
    PROVE  /\ AreLines({Debit(a, n, x), Credit(b, n, y)})
           /\ NetEffect({Debit(a, n, x), Credit(b, n, y)}, accounts) = In(accounts, b, n) - In(accounts, a, n)
  <1> DEFINE d == Debit(a, n, x)
             c == Credit(b, n, y)
  <1>1. In(accounts, a, n) \in Int /\ In(accounts, b, n) \in Int
    BY DEF In
  <1>2. /\ IsLine(d) /\ IsLine(c) /\ d # c
        /\ Effect(d, accounts) = 0 - In(accounts, a, n) /\ Effect(c, accounts) = In(accounts, b, n)
    BY LineEffects, LinesDiffer
  <1> HIDE DEF d, c
  <1>3. /\ AreLines({d, c})
        /\ NetEffect({d, c}, accounts) = Effect(d, accounts) + Effect(c, accounts)
    BY <1>2, NetPair
  <1>4. NetEffect({d, c}, accounts) = In(accounts, b, n) - In(accounts, a, n)
    BY <1>1, <1>2, <1>3
  <1> QED BY <1>3, <1>4 DEF d, c

\* owanbe_apply_quaser_payment_capture
LEMMA CaptureEffects ==
    ASSUME NEW gross \in Nat, NEW fee \in Nat, NEW accounts
    PROVE  /\ AreLines(CaptureLines(gross, fee))
           /\ NetEffect(CaptureLines(gross, fee), accounts)
                = (In(accounts, Escrow, gross) - In(accounts, Psp, gross))
                  + (In(accounts, PlatformFees, fee) - In(accounts, Escrow, fee))
  <1> DEFINE G == {Debit(Psp, gross, "gross"), Credit(Escrow, gross, "gross")}
             F == {Debit(Escrow, fee, "fee"), Credit(PlatformFees, fee, "fee")}
  <1>1. /\ AreLines(G) /\ NetEffect(G, accounts) = In(accounts, Escrow, gross) - In(accounts, Psp, gross)
        /\ AreLines(F) /\ NetEffect(F, accounts) = In(accounts, PlatformFees, fee) - In(accounts, Escrow, fee)
    BY PairEffects
  <1>2. G \cap Positive(F) = {}
    BY DEF Positive, Debit, Credit, Line
  <1>3. CaptureLines(gross, fee) = G \cup Positive(F)
    BY DEF CaptureLines
  <1> HIDE DEF G, F
  <1>4. AreLines(Positive(F)) /\ NetEffect(Positive(F), accounts) = NetEffect(F, accounts)
    BY <1>1, NetPositive
  <1>5. /\ AreLines(G \cup Positive(F))
        /\ NetEffect(G \cup Positive(F), accounts) = NetEffect(G, accounts) + NetEffect(Positive(F), accounts)
    BY <1>1, <1>2, <1>4, NetJoin
  <1> QED BY <1>1, <1>3, <1>4, <1>5

\* owanbe_apply_ticket_payment_capture
LEMMA TicketCaptureEffects ==
    ASSUME NEW o, NEW fee \in Nat, NEW share \in Nat, NEW accounts
    PROVE  /\ AreLines(TicketCaptureLines(o, fee, share))
           /\ NetEffect(TicketCaptureLines(o, fee, share), accounts)
                = (In(accounts, Escrow, fee + share) - In(accounts, Psp, fee + share))
                  + (In(accounts, PlatformFees, fee) - In(accounts, Escrow, fee))
                  + (In(accounts, OrganizerPayable(o), share) - In(accounts, Escrow, share))
  <1> DEFINE G == {Debit(Psp, fee + share, "gross"), Credit(Escrow, fee + share, "gross")}
             F == {Debit(Escrow, fee, "fee"), Credit(PlatformFees, fee, "fee")}
             S == {Debit(Escrow, share, "share"), Credit(OrganizerPayable(o), share, "share")}
  <1>0. fee + share \in Nat
    OBVIOUS
  <1>g. AreLines(G) /\ NetEffect(G, accounts) = In(accounts, Escrow, fee + share) - In(accounts, Psp, fee + share)
    BY <1>0, PairEffects
  <1>f. AreLines(F) /\ NetEffect(F, accounts) = In(accounts, PlatformFees, fee) - In(accounts, Escrow, fee)
    BY PairEffects
  <1>s. AreLines(S) /\ NetEffect(S, accounts) = In(accounts, OrganizerPayable(o), share) - In(accounts, Escrow, share)
    BY PairEffects
  <1>2. /\ \A l \in G : l.memo = "gross"
        /\ \A l \in F : l.memo = "fee"
        /\ \A l \in S : l.memo = "share"
    BY DEF Debit, Credit, Line
  <1> DEFINE P == Positive(F)
             Q == Positive(S)
             R == G \cup P
  <1>3. TicketCaptureLines(o, fee, share) = R \cup Q
    BY DEF TicketCaptureLines
  <1> HIDE DEF G, F, S
  <1>4. G \cap P = {} /\ R \cap Q = {}
    BY <1>2 DEF Positive
  <1>5. /\ AreLines(P) /\ NetEffect(P, accounts) = NetEffect(F, accounts)
        /\ AreLines(Q) /\ NetEffect(Q, accounts) = NetEffect(S, accounts)
    BY <1>f, <1>s, NetPositive
  <1> HIDE DEF P, Q
  <1>6. AreLines(R) /\ NetEffect(R, accounts) = NetEffect(G, accounts) + NetEffect(P, accounts)
    BY <1>g, <1>4, <1>5, NetJoin
  <1> HIDE DEF R
  <1>7. AreLines(R \cup Q) /\ NetEffect(R \cup Q, accounts) = NetEffect(R, accounts) + NetEffect(Q, accounts)
    BY <1>4, <1>5, <1>6, NetJoin
  <1> QED BY <1>g, <1>f, <1>s, <1>3, <1>5, <1>6, <1>7

\* applyTicketRefundLedger
LEMMA TicketRefundEffects ==
    ASSUME NEW o, NEW refund \in Nat, NEW reversal \in Nat, NEW accounts
    PROVE  /\ AreLines(TicketRefundLines(o, refund, reversal))
           /\ NetEffect(TicketRefundLines(o, refund, reversal), accounts)
                = In(accounts, Psp, refund + reversal)
                  - In(accounts, OrganizerPayable(o), refund) - In(accounts, PlatformFees, reversal)
  <1> DEFINE d == Debit(OrganizerPayable(o), refund, "refund")
             f == Debit(PlatformFees, reversal, "reversal")
             c == Credit(Psp, refund + reversal, "refund")
  <1>0. refund + reversal \in Nat
    OBVIOUS
  <1>1. /\ IsLine(d) /\ IsLine(f) /\ IsLine(c) /\ d # f /\ c # d /\ c # f
        /\ Effect(d, accounts) = 0 - In(accounts, OrganizerPayable(o), refund)
        /\ Effect(f, accounts) = 0 - In(accounts, PlatformFees, reversal)
        /\ Effect(c, accounts) = In(accounts, Psp, refund + reversal)
    BY <1>0, LineEffects, LinesDiffer
  <1>2. /\ In(accounts, OrganizerPayable(o), refund) \in Int /\ In(accounts, PlatformFees, reversal) \in Int
        /\ In(accounts, Psp, refund + reversal) \in Int
    BY <1>0 DEF In
  <1>3. TicketRefundLines(o, refund, reversal) = Positive({d, f} \cup {c})
    BY DEF TicketRefundLines
  <1> HIDE DEF d, f, c
  <1> DEFINE D == {d, f}
             C == {c}
  <1>4. AreLines(D) /\ NetEffect(D, accounts) = Effect(d, accounts) + Effect(f, accounts)
    BY <1>1, NetPair
  <1>5. AreLines(C) /\ NetEffect(C, accounts) = Effect(c, accounts)
    BY <1>1, NetLine
  <1>6. D \cap C = {}
    BY <1>1
  <1> HIDE DEF D, C
  <1>7. AreLines(D \cup C) /\ NetEffect(D \cup C, accounts) = NetEffect(D, accounts) + NetEffect(C, accounts)
    BY <1>4, <1>5, <1>6, NetJoin
  <1>8. /\ AreLines(Positive(D \cup C))
        /\ NetEffect(Positive(D \cup C), accounts) = NetEffect(D \cup C, accounts)
    BY <1>7, NetPositive
  <1>9. NetEffect(D \cup C, accounts)
          = In(accounts, Psp, refund + reversal)
            - In(accounts, OrganizerPayable(o), refund) - In(accounts, PlatformFees, reversal)
    BY <1>1, <1>2, <1>4, <1>5, <1>7
  <1> QED BY <1>3, <1>8, <1>9 DEF D, C

\* The postings of one debit and one credit.
LEMMA SimpleEffects ==
    ASSUME NEW n \in Nat, NEW accounts
    PROVE  /\ AreLines(RefundLines(n))
           /\ NetEffect(RefundLines(n), accounts) = In(accounts, Psp, n) - In(accounts, Escrow, n)
           /\ \A v : /\ AreLines(ChargebackLines(v, n))
                     /\ NetEffect(ChargebackLines(v, n), accounts)
                          = In(accounts, Psp, n) - In(accounts, VendorPayable(v), n)
                     /\ AreLines(PayoutReleaseLines(v, n))
                     /\ NetEffect(PayoutReleaseLines(v, n), accounts)
                          = In(accounts, VendorPayable(v), n) - In(accounts, Escrow, n)
           /\ \A o : /\ AreLines(OrganizerReleaseLines(o, n))
                     /\ NetEffect(OrganizerReleaseLines(o, n), accounts)
                          = In(accounts, PayoutClearing, n) - In(accounts, OrganizerPayable(o), n)
  <1>1. /\ AreLines(RefundLines(n))
        /\ NetEffect(RefundLines(n), accounts) = In(accounts, Psp, n) - In(accounts, Escrow, n)
    BY PairEffects DEF RefundLines
  <1>2. ASSUME NEW v
        PROVE  /\ AreLines(ChargebackLines(v, n))
               /\ NetEffect(ChargebackLines(v, n), accounts)
                    = In(accounts, Psp, n) - In(accounts, VendorPayable(v), n)
    BY PairEffects DEF ChargebackLines
  <1>3. ASSUME NEW v
        PROVE  /\ AreLines(PayoutReleaseLines(v, n))
               /\ NetEffect(PayoutReleaseLines(v, n), accounts)
                    = In(accounts, VendorPayable(v), n) - In(accounts, Escrow, n)
    BY PairEffects DEF PayoutReleaseLines
  <1>4. ASSUME NEW o
        PROVE  /\ AreLines(OrganizerReleaseLines(o, n))
               /\ NetEffect(OrganizerReleaseLines(o, n), accounts)
                    = In(accounts, PayoutClearing, n) - In(accounts, OrganizerPayable(o), n)
    BY PairEffects DEF OrganizerReleaseLines
  <1> QED BY <1>1, <1>2, <1>3, <1>4

LEMMA AccountsDiffer ==
    /\ Psp # Escrow /\ Psp # PlatformFees /\ Psp # PayoutClearing
    /\ Escrow # PlatformFees /\ Escrow # PayoutClearing /\ PlatformFees # PayoutClearing
    /\ \A v : /\ VendorPayable(v) # Psp /\ VendorPayable(v) # Escrow /\ VendorPayable(v) # PlatformFees
              /\ VendorPayable(v) # PayoutClearing
              /\ \A o : VendorPayable(v) # OrganizerPayable(o)
              /\ \A w : VendorPayable(v) = VendorPayable(w) => v = w
    /\ \A o : /\ OrganizerPayable(o) # Psp /\ OrganizerPayable(o) # Escrow
              /\ OrganizerPayable(o) # PlatformFees /\ OrganizerPayable(o) # PayoutClearing
              /\ \A w : OrganizerPayable(o) = OrganizerPayable(w) => o = w
  BY DEF Psp, Escrow, PlatformFees, PayoutClearing, PoolAccount, VendorPayable, OrganizerPayable
-----------------------------------------------------------------------------
(* What the ledger holds, posting by posting                               *)

CapturesExact ==
    \A p \in Payments : ledger[CaptureKey(p)] =
        IF payment[p] = "initiated" THEN {} ELSE CaptureLines(Gross(p), Fee[p])
TicketCapturesExact ==
    \A t \in TicketPayments : ledger[TicketCaptureKey(t)] =
        IF ticketPayment[t] = "initiated" THEN {}
        ELSE TicketCaptureLines(OrganizerOf[t], Fee[t], Subtotal[t])
ReleasesExact ==
    \A po \in Payouts : ledger[ReleaseKey(po)] =
        IF settlement[po] = "none" THEN {}
        ELSE PayoutReleaseLines(VendorOf[PaymentOf[po]], Subtotal[PaymentOf[po]])
OrganizerReleasesExact ==
    \A q \in OrganizerPayouts : ledger[OrganizerReleaseKey(q)] \in
        {{}, OrganizerReleaseLines(OrganizerOf[TicketOf[q]], Subtotal[TicketOf[q]])}
CasesExact ==
    \A k \in Cases : ledger[TicketRefundKey(k)] \in
        {{}, TicketRefundLines(OrganizerOf[CaseOf[k]], CaseRefund[k], FeeReversal(k))}

\* The amounts of these are the requests'; 0 is that of what was never posted.
RefundsExact ==
    \A k \in RefundKeys : \E a \in Nat :
        ledger[RefundKey(k)] = IF a = 0 THEN {} ELSE RefundLines(a)
ChargebacksExact ==
    \A p \in Payments, ev \in ChargebackEvents : \E a \in Nat :
        ledger[ChargebackKey(p, ev)] = IF a = 0 THEN {} ELSE ChargebackLines(VendorOf[p], a)

\* The ledger refunds no more than the rows say, whatever keys they share.
Returned == [k \in RefundKeys |-> SumDirection(ledger[RefundKey(k)], "debit")]
RefundsCovered == SumFunctionOnSet(Returned, RefundKeys) <= SumFunctionOnSet(refunded, Payments)

\* Only a payout that was inserted is settled, and no mismatch goes unreported.
SettlementsReported ==
    \A po \in Payouts :
        /\ settlement[po] # "none" => payout[po] # "none"
        /\ settlement[po] = "mismatch" => Issue("amount_mismatch", po) \in reports

Postings ==
    /\ CapturesExact /\ TicketCapturesExact /\ ReleasesExact /\ OrganizerReleasesExact
    /\ CasesExact /\ RefundsExact /\ ChargebacksExact
Book == Postings /\ RefundsCovered /\ SettlementsReported

LEMMA KeyReasons ==
    /\ \A x : /\ CaptureKey(x).reason = "payment_capture_quaser"
              /\ RefundKey(x).reason = "payment_refund"
              /\ ReleaseKey(x).reason = "payout_escrow_release"
              /\ TicketCaptureKey(x).reason = "payment_capture_ticket"
              /\ TicketRefundKey(x).reason = "payment_refund_ticket"
              /\ OrganizerReleaseKey(x).reason = "payout_organizer_release"
    /\ \A x, y : ChargebackKey(x, y).reason = "payment_chargeback"
  BY DEF Key, CaptureKey, TicketCaptureKey, ReleaseKey, RefundKey, TicketRefundKey,
         OrganizerReleaseKey, ChargebackKey

LEMMA KeysApart ==
    /\ \A x, y : /\ CaptureKey(x) = CaptureKey(y) => x = y
                 /\ RefundKey(x) = RefundKey(y) => x = y
                 /\ ReleaseKey(x) = ReleaseKey(y) => x = y
                 /\ TicketCaptureKey(x) = TicketCaptureKey(y) => x = y
                 /\ TicketRefundKey(x) = TicketRefundKey(y) => x = y
                 /\ OrganizerReleaseKey(x) = OrganizerReleaseKey(y) => x = y
    /\ \A x, y, u, w : ChargebackKey(x, u) = ChargebackKey(y, w) => x = y /\ u = w
  BY DEF Key, CaptureKey, TicketCaptureKey, ReleaseKey, RefundKey, TicketRefundKey,
         OrganizerReleaseKey, ChargebackKey

\* What a step does that posts for one reason, or not at all.
LEMMA PostingsKept ==
    ASSUME Postings, NEW reason, \A k \in Keys : k.reason # reason => ledger'[k] = ledger[k]
    PROVE  /\ reason # "payment_capture_quaser"
              /\ (\A p \in Payments : payment'[p] = "initiated" <=> payment[p] = "initiated")
              => CapturesExact'
           /\ reason # "payment_capture_ticket" /\ UNCHANGED ticketPayment => TicketCapturesExact'
           /\ reason # "payout_escrow_release" /\ UNCHANGED settlement => ReleasesExact'
           /\ reason # "payout_organizer_release" => OrganizerReleasesExact'
           /\ reason # "payment_refund_ticket" => CasesExact'
           /\ reason # "payment_refund" => RefundsExact' /\ Returned' = Returned
           /\ reason # "payment_chargeback" => ChargebacksExact'
  <1> USE DEF Postings
  <1>1. ASSUME reason # "payment_capture_quaser",
               \A p \in Payments : payment'[p] = "initiated" <=> payment[p] = "initiated"
        PROVE  CapturesExact'
    <2>1. \A p \in Payments : ledger'[CaptureKey(p)] = ledger[CaptureKey(p)]
      BY <1>1, KeysExist, KeyReasons
    <2> QED BY <1>1, <2>1 DEF CapturesExact
  <1>2. ASSUME reason # "payment_capture_ticket", UNCHANGED ticketPayment PROVE TicketCapturesExact'
    <2>1. \A t \in TicketPayments : ledger'[TicketCaptureKey(t)] = ledger[TicketCaptureKey(t)]
      BY <1>2, KeysExist, KeyReasons
    <2> QED BY <1>2, <2>1 DEF TicketCapturesExact
  <1>3. ASSUME reason # "payout_escrow_release", UNCHANGED settlement PROVE ReleasesExact'
    <2>1. \A po \in Payouts : ledger'[ReleaseKey(po)] = ledger[ReleaseKey(po)]
      BY <1>3, KeysExist, KeyReasons
    <2> QED BY <1>3, <2>1 DEF ReleasesExact
  <1>4. ASSUME reason # "payout_organizer_release" PROVE OrganizerReleasesExact'
    <2>1. \A q \in OrganizerPayouts : ledger'[OrganizerReleaseKey(q)] = ledger[OrganizerReleaseKey(q)]
      BY <1>4, KeysExist, KeyReasons
    <2> QED BY <2>1 DEF OrganizerReleasesExact
  <1>5. ASSUME reason # "payment_refund_ticket" PROVE CasesExact'
    <2>1. \A k \in Cases : ledger'[TicketRefundKey(k)] = ledger[TicketRefundKey(k)]
      BY <1>5, KeysExist, KeyReasons
    <2> QED BY <2>1 DEF CasesExact
  <1>6. ASSUME reason # "payment_refund" PROVE RefundsExact' /\ Returned' = Returned
    <2>1. \A k \in RefundKeys : ledger'[RefundKey(k)] = ledger[RefundKey(k)]
      BY <1>6, KeysExist, KeyReasons
    <2> QED BY <2>1 DEF RefundsExact, Returned
  <1>7. ASSUME reason # "payment_chargeback" PROVE ChargebacksExact'
    <2>1. \A p \in Payments, ev \in ChargebackEvents :
            ledger'[ChargebackKey(p, ev)] = ledger[ChargebackKey(p, ev)]
      BY <1>7, KeysExist, KeyReasons
    <2> QED BY <2>1 DEF ChargebacksExact
  <1> QED BY <1>1, <1>2, <1>3, <1>4, <1>5, <1>6, <1>7

LEMMA PostAlone ==
    ASSUME ledger \in [Keys -> SUBSET Lines], NEW key \in Keys, NEW lines, ledger' = Post(key, lines)
    PROVE  /\ \A k \in Keys : k # key => ledger'[k] = ledger[k]
           /\ \A k \in Keys : k.reason # key.reason => ledger'[k] = ledger[k]
           /\ ledger'[key] = IF Posted(key) THEN ledger[key] ELSE lines
  BY DEF Post, Posted
LEMMA NothingPosted ==
    ASSUME Inv, Book, UNCHANGED <<ledger, settlement, payment, refunded, ticketPayment>>,
           reports \subseteq reports', \A po \in Payouts : payout'[po] = "none" => payout[po] = "none"
    PROVE  Book'
  <1>1. \A k \in Keys : k.reason # "none" => ledger'[k] = ledger[k]
    OBVIOUS
  <1>2. Postings' /\ Returned' = Returned
    BY <1>1, PostingsKept DEF Book, Postings
  <1>3. RefundsCovered' /\ SettlementsReported'
    BY <1>2 DEF Book, RefundsCovered, SettlementsReported
  <1> QED BY <1>2, <1>3 DEF Book

LEMMA CaptureBooked ==
    ASSUME Inv, Book, NEW p \in Payments, ApplyQuaserPaymentCapture(p) PROVE Book'
  <1> DEFINE key == CaptureKey(p)
  <1>1. /\ ledger' = Post(key, CaptureLines(Gross(p), Fee[p]))
        /\ payment[p] = "initiated" /\ payment' = [payment EXCEPT ![p] = "captured"]
        /\ UNCHANGED <<settlement, reports, refunded, payout, ticketPayment>>
    BY DEF ApplyQuaserPaymentCapture, Posts, payoutRows, ticketRows
  <1>2. /\ \A k \in Keys : k # key => ledger'[k] = ledger[k]
        /\ \A k \in Keys : k.reason # "payment_capture_quaser" => ledger'[k] = ledger[k]
        /\ ledger'[key] = IF Posted(key) THEN ledger[key] ELSE CaptureLines(Gross(p), Fee[p])
    BY <1>1, PostAlone, KeysExist, KeyReasons DEF Inv, TypeOK
  <1>3. /\ TicketCapturesExact' /\ ReleasesExact' /\ OrganizerReleasesExact' /\ CasesExact'
        /\ RefundsExact' /\ Returned' = Returned /\ ChargebacksExact'
    BY <1>1, <1>2, PostingsKept DEF Book
  <1>4. CapturesExact'
    <2>1. ledger[key] = {}
      BY <1>1 DEF Book, Postings, CapturesExact
    <2>2. ledger'[key] = CaptureLines(Gross(p), Fee[p]) /\ payment'[p] # "initiated"
      BY <1>1, <1>2, <2>1 DEF Posted, Inv, TypeOK
    <2>3. \A q \in Payments : q # p => /\ ledger'[CaptureKey(q)] = ledger[CaptureKey(q)]
                                       /\ payment'[q] = payment[q]
      BY <1>1, <1>2, KeysApart, KeysExist DEF Inv, TypeOK
    <2> QED BY <2>2, <2>3 DEF Book, Postings, CapturesExact
  <1>5. RefundsCovered' /\ SettlementsReported'
    BY <1>1, <1>3 DEF Book, RefundsCovered, SettlementsReported
  <1> QED BY <1>3, <1>4, <1>5 DEF Book, Postings

LEMMA TicketBooked ==
    ASSUME Inv, Book, NEW t \in TicketPayments, ApplyTicketCapture(t) PROVE Book'
  <1> DEFINE key == TicketCaptureKey(t)
             lines == TicketCaptureLines(OrganizerOf[t], Fee[t], Subtotal[t])
  <1>1. /\ ledger' = Post(key, lines)
        /\ ticketPayment[t] = "initiated" /\ ticketPayment' = [ticketPayment EXCEPT ![t] = "captured"]
        /\ UNCHANGED <<settlement, reports, payment, refunded, payout>>
    BY DEF ApplyTicketCapture, Posts, payoutRows, bookingRows
  <1>2. /\ \A k \in Keys : k # key => ledger'[k] = ledger[k]
        /\ \A k \in Keys : k.reason # "payment_capture_ticket" => ledger'[k] = ledger[k]
        /\ ledger'[key] = IF Posted(key) THEN ledger[key] ELSE lines
    BY <1>1, PostAlone, KeysExist, KeyReasons DEF Inv, TypeOK
  <1>3. /\ CapturesExact' /\ ReleasesExact' /\ OrganizerReleasesExact' /\ CasesExact'
        /\ RefundsExact' /\ Returned' = Returned /\ ChargebacksExact'
    BY <1>1, <1>2, PostingsKept DEF Book
  <1>4. TicketCapturesExact'
    <2>1. ledger[key] = {}
      BY <1>1 DEF Book, Postings, TicketCapturesExact
    <2>2. ledger'[key] = lines /\ ticketPayment'[t] # "initiated"
      BY <1>1, <1>2, <2>1 DEF Posted, Inv, TypeOK
    <2>3. \A u \in TicketPayments : u # t => /\ ledger'[TicketCaptureKey(u)] = ledger[TicketCaptureKey(u)]
                                             /\ ticketPayment'[u] = ticketPayment[u]
      BY <1>1, <1>2, KeysApart, KeysExist DEF Inv, TypeOK
    <2> QED BY <2>2, <2>3 DEF Book, Postings, TicketCapturesExact
  <1>5. RefundsCovered' /\ SettlementsReported'
    BY <1>1, <1>3 DEF Book, RefundsCovered, SettlementsReported
  <1> QED BY <1>3, <1>4, <1>5 DEF Book, Postings

LEMMA CaseBooked ==
    ASSUME Inv, Book, NEW k \in Cases, PostTicketRefund(k) PROVE Book'
  <1> DEFINE key == TicketRefundKey(k)
             lines == TicketRefundLines(OrganizerOf[CaseOf[k]], CaseRefund[k], FeeReversal(k))
  <1>1. ledger' = Post(key, lines)
        /\ UNCHANGED <<settlement, reports, payment, refunded, payout, ticketPayment>>
    BY DEF PostTicketRefund, Posts, payoutRows, bookingRows, ticketRows
  <1>2. /\ \A j \in Keys : j # key => ledger'[j] = ledger[j]
        /\ \A j \in Keys : j.reason # "payment_refund_ticket" => ledger'[j] = ledger[j]
        /\ ledger'[key] = IF Posted(key) THEN ledger[key] ELSE lines
    BY <1>1, PostAlone, KeysExist, KeyReasons DEF Inv, TypeOK
  <1>3. /\ CapturesExact' /\ TicketCapturesExact' /\ ReleasesExact' /\ OrganizerReleasesExact'
        /\ RefundsExact' /\ Returned' = Returned /\ ChargebacksExact'
    BY <1>1, <1>2, PostingsKept DEF Book
  <1>4. CasesExact'
    <2>1. ledger'[key] \in {ledger[key], lines}
      BY <1>2
    <2>2. \A j \in Cases : j # k => ledger'[TicketRefundKey(j)] = ledger[TicketRefundKey(j)]
      BY <1>2, KeysApart, KeysExist
    <2> QED BY <2>1, <2>2 DEF Book, Postings, CasesExact
  <1>5. RefundsCovered' /\ SettlementsReported'
    BY <1>1, <1>3 DEF Book, RefundsCovered, SettlementsReported
  <1> QED BY <1>3, <1>4, <1>5 DEF Book, Postings

LEMMA OrganizerReleaseBooked ==
    ASSUME Inv, Book, NEW q \in OrganizerPayouts, CompleteOrganizerPayout(q) PROVE Book'
  <1> DEFINE key == OrganizerReleaseKey(q)
             lines == OrganizerReleaseLines(OrganizerOf[TicketOf[q]], Subtotal[TicketOf[q]])
  <1>1. ledger' = Post(key, lines)
        /\ UNCHANGED <<settlement, reports, payment, refunded, payout, ticketPayment>>
    BY DEF CompleteOrganizerPayout, Posts, payoutRows, bookingRows, ticketRows
  <1>2. /\ \A j \in Keys : j # key => ledger'[j] = ledger[j]
        /\ \A j \in Keys : j.reason # "payout_organizer_release" => ledger'[j] = ledger[j]
        /\ ledger'[key] = IF Posted(key) THEN ledger[key] ELSE lines
    BY <1>1, PostAlone, KeysExist, KeyReasons DEF Inv, TypeOK
  <1>3. /\ CapturesExact' /\ TicketCapturesExact' /\ ReleasesExact' /\ CasesExact'
        /\ RefundsExact' /\ Returned' = Returned /\ ChargebacksExact'
    BY <1>1, <1>2, PostingsKept DEF Book
  <1>4. OrganizerReleasesExact'
    <2>1. ledger'[key] \in {ledger[key], lines}
      BY <1>2
    <2>2. \A r \in OrganizerPayouts : r # q => ledger'[OrganizerReleaseKey(r)] = ledger[OrganizerReleaseKey(r)]
      BY <1>2, KeysApart, KeysExist
    <2> QED BY <2>1, <2>2 DEF Book, Postings, OrganizerReleasesExact
  <1>5. RefundsCovered' /\ SettlementsReported'
    BY <1>1, <1>3 DEF Book, RefundsCovered, SettlementsReported
  <1> QED BY <1>3, <1>4, <1>5 DEF Book, Postings

LEMMA ChargebackBooked ==
    ASSUME Inv, Book, NEW p \in Payments, NEW amount \in 1..Gross(p), NEW ev \in ChargebackEvents,
           ApplyChargeback(p, amount, ev)
    PROVE  Book'
  <1> DEFINE key == ChargebackKey(p, ev)
             lines == ChargebackLines(VendorOf[p], amount)
  <1>1. ledger' = Post(key, lines)
        /\ UNCHANGED <<settlement, reports, payment, refunded, payout, ticketPayment>>
    BY DEF ApplyChargeback, Posts, payoutRows, ticketRows
  <1>2. /\ \A j \in Keys : j # key => ledger'[j] = ledger[j]
        /\ \A j \in Keys : j.reason # "payment_chargeback" => ledger'[j] = ledger[j]
        /\ ledger'[key] = IF Posted(key) THEN ledger[key] ELSE lines
    BY <1>1, PostAlone, KeysExist, KeyReasons DEF Inv, TypeOK
  <1>3. /\ CapturesExact' /\ TicketCapturesExact' /\ ReleasesExact' /\ OrganizerReleasesExact'
        /\ CasesExact' /\ RefundsExact' /\ Returned' = Returned
    BY <1>1, <1>2, PostingsKept DEF Book
  <1>4. ChargebacksExact'
    <2>1. \E a \in Nat : ledger'[key] = IF a = 0 THEN {} ELSE ChargebackLines(VendorOf[p], a)
      <3>1. amount \in Nat /\ amount # 0
        BY Amounts
      <3>2. CASE Posted(key)
        BY <1>2, <3>2 DEF Book, Postings, ChargebacksExact
      <3>3. CASE ~Posted(key)
        BY <1>2, <3>1, <3>3
      <3> QED BY <3>2, <3>3
    <2>2. \A r \in Payments, ew \in ChargebackEvents : (r # p \/ ew # ev) =>
            ledger'[ChargebackKey(r, ew)] = ledger[ChargebackKey(r, ew)]
      BY <1>2, KeysApart, KeysExist
    <2> QED BY <2>1, <2>2 DEF Book, Postings, ChargebacksExact
  <1>5. RefundsCovered' /\ SettlementsReported'
    BY <1>1, <1>3 DEF Book, RefundsCovered, SettlementsReported
  <1> QED BY <1>3, <1>4, <1>5 DEF Book, Postings
LEMMA RefundDebit ==
    ASSUME NEW a \in Nat PROVE SumDirection(RefundLines(a), "debit") = a
  <1> DEFINE d == Debit(Escrow, a, "refund")
             S == {x \in RefundLines(a) : x.direction = "debit"}
             f == [l \in S |-> l.amount]
  <1>1. S = {d} /\ d.amount = a
    BY DEF RefundLines, Debit, Credit, Line
  <1>2. f[d] = a
    BY <1>1
  <1>3. SumDirection(RefundLines(a), "debit") = SumFunctionOnSet(f, S)
    BY DirectionIsSum
  <1> HIDE DEF d, S, f
  <1> QED BY <1>1, <1>2, <1>3, SumOne

LEMMA NothingDebited == SumDirection({}, "debit") = 0
  <1> DEFINE S == {x \in {} : x.direction = "debit"}
             f == [l \in S |-> l.amount]
  <1>1. S = {}
    OBVIOUS
  <1>2. SumDirection({}, "debit") = SumFunctionOnSet(f, S)
    BY DirectionIsSum
  <1> HIDE DEF S, f
  <1> QED BY <1>1, <1>2, SumEmpty

LEMMA ReturnedType ==
    ASSUME RefundsExact PROVE \A k \in RefundKeys : Returned[k] \in Nat
  <1> SUFFICES ASSUME NEW k \in RefundKeys PROVE SumDirection(ledger[RefundKey(k)], "debit") \in Nat
    BY DEF Returned
  <1>1. PICK a \in Nat : ledger[RefundKey(k)] = IF a = 0 THEN {} ELSE RefundLines(a)
    BY DEF RefundsExact
  <1>2. CASE a = 0
    BY <1>1, <1>2, NothingDebited
  <1>3. CASE a # 0
    BY <1>1, <1>3, RefundDebit
  <1> QED BY <1>2, <1>3

LEMMA RefundBooked ==
    ASSUME Inv, Book, NEW p \in Payments, NEW amount \in 1..Gross(p), NEW k \in RefundKeys,
           RefundPayment(p, amount, k)
    PROVE  Book'
  <1> DEFINE key == RefundKey(k)
  <1>1. /\ ledger' = Post(key, RefundLines(amount))
        /\ refunded' = [refunded EXCEPT ![p] = refunded[p] + amount]
        /\ payment[p] # "initiated"
        /\ payment' = [payment EXCEPT ![p] = IF refunded[p] + amount = Gross(p)
                                             THEN "refunded" ELSE "partially_refunded"]
        /\ UNCHANGED <<settlement, reports, payout, ticketPayment>>
    BY DEF RefundPayment, Posts, payoutRows, ticketRows
  <1>2. /\ \A j \in Keys : j # key => ledger'[j] = ledger[j]
        /\ \A j \in Keys : j.reason # "payment_refund" => ledger'[j] = ledger[j]
        /\ ledger'[key] = IF Posted(key) THEN ledger[key] ELSE RefundLines(amount)
    BY <1>1, PostAlone, KeysExist, KeyReasons DEF Inv, TypeOK
  <1>3. /\ CapturesExact' /\ TicketCapturesExact' /\ ReleasesExact' /\ OrganizerReleasesExact'
        /\ CasesExact' /\ ChargebacksExact'
    <2>1. \A q \in Payments : payment'[q] = "initiated" <=> payment[q] = "initiated"
      BY <1>1 DEF Inv, TypeOK
    <2> QED BY <1>1, <1>2, <2>1, PostingsKept DEF Book
  <1>4. /\ amount \in Nat /\ amount # 0 /\ amount \in Int
        /\ \A j \in RefundKeys : j # k => ledger'[RefundKey(j)] = ledger[RefundKey(j)]
    <2>1. amount \in Nat /\ amount # 0 /\ amount \in Int
      BY Amounts
    <2>2. \A j \in RefundKeys : j # k => ledger'[RefundKey(j)] = ledger[RefundKey(j)]
      BY <1>2, KeysApart, KeysExist
    <2> QED BY <2>1, <2>2
  <1>5. RefundsExact'
    <2>1. \E a \in Nat : ledger'[key] = IF a = 0 THEN {} ELSE RefundLines(a)
      <3>1. CASE Posted(key)
        BY <1>2, <3>1 DEF Book, Postings, RefundsExact
      <3>2. CASE ~Posted(key)
        BY <1>2, <1>4, <3>2
      <3> QED BY <3>1, <3>2
    <2> QED BY <1>4, <2>1 DEF Book, Postings, RefundsExact
  <1>6. RefundsCovered'
    <2> DEFINE before == SumFunctionOnSet(Returned, RefundKeys)
               after == SumFunctionOnSet(Returned', RefundKeys)
    <2>1. /\ IsFiniteSet(RefundKeys) /\ IsFiniteSet(Payments)
          /\ \A j \in RefundKeys : Returned[j] \in Int
          /\ \A q \in Payments : refunded[q] \in Int
      BY TablesAssumption, ReturnedType DEF Book, Postings, Inv, TypeOK
    <2>2. SumFunctionOnSet(refunded', Payments) = SumFunctionOnSet(refunded, Payments) + amount
      <3>1. refunded'[p] = refunded[p] + amount /\ \A q \in Payments : q # p => refunded'[q] = refunded[q]
        BY <1>1 DEF Inv, TypeOK
      <3> QED BY <1>4, <2>1, <3>1, SumChanged
    <2>3. before \in Int /\ SumFunctionOnSet(refunded, Payments) \in Int
      BY <2>1, SumType
    <2>4. \A j \in RefundKeys : j # k => Returned'[j] = Returned[j]
      BY <1>4 DEF Returned
    <2>5. Returned'[k] = Returned[k] \/ Returned'[k] = Returned[k] + amount
      <3>1. CASE Posted(key)
        BY <1>2, <3>1 DEF Returned
      <3>2. CASE ~Posted(key)
        <4>1. Returned[k] = 0
          BY <3>2, NothingDebited DEF Posted, Returned
        <4>2. Returned'[k] = amount
          BY <1>2, <1>4, <3>2, RefundDebit DEF Returned
        <4> QED BY <1>4, <4>1, <4>2
      <3> QED BY <3>1, <3>2
    <2>6. after = before \/ after = before + amount
      <3> HIDE DEF Returned
      <3>1. CASE Returned'[k] = Returned[k]
        <4>1. \A j \in RefundKeys : Returned'[j] = Returned[j]
          BY <2>4, <3>1
        <4> QED BY <2>1, <4>1, SumSame
      <3>2. CASE Returned'[k] = Returned[k] + amount
        BY <1>4, <2>1, <2>4, <3>2, SumChanged
      <3> QED BY <2>5, <3>1, <3>2
    <2>7. after <= SumFunctionOnSet(refunded', Payments)
      <3>1. before <= SumFunctionOnSet(refunded, Payments)
        BY DEF Book, RefundsCovered
      <3> HIDE DEF before, after
      <3> QED BY <1>4, <2>2, <2>3, <2>6, <3>1
    <2> QED BY <2>7 DEF RefundsCovered
  <1>7. SettlementsReported'
    BY <1>1 DEF Book, SettlementsReported
  <1> QED BY <1>3, <1>5, <1>6, <1>7 DEF Book, Postings

LEMMA SettlementBooked ==
    ASSUME Inv, Book, NEW po \in Payouts,
           NEW copy \in Copies(Entries(po, VendorOf[PaymentOf[po]], Subtotal[PaymentOf[po]])),
           HandlePayoutCompleted(po, copy)
    PROVE  Book'
  <1> DEFINE v == VendorOf[PaymentOf[po]]
             amount == Subtotal[PaymentOf[po]]
             lines == PayoutReleaseLines(v, amount)
             key == ReleaseKey(po)
  <1>1. /\ UNCHANGED <<payment, refunded, ticketPayment>>
        /\ payout[po] # "none"
        /\ \A px \in Payouts : payout'[px] = "none" => payout[px] = "none"
        /\ PostSettlementJournal(po, v, amount, copy)
    BY DEF HandlePayoutCompleted, InFlight, bookingRows, ticketRows, Inv, TypeOK
  <1>2. CASE AlreadyPosted(po)
    <2>1. UNCHANGED <<ledger, settlement, reports>>
      BY <1>1, <1>2 DEF PostSettlementJournal, treasury
    <2> QED BY <1>1, <2>1, NothingPosted
  <1>3. CASE ~AlreadyPosted(po)
    <2>1. /\ ledger' = Post(key, lines)
          /\ settlement' = [settlement EXCEPT ![po] = SettlementStatus(po, v, amount, copy)]
          /\ reports' = IF Settles(po, v, amount, copy) THEN reports ELSE RecordTreasuryMismatch(po)
      BY <1>1, <1>3 DEF PostSettlementJournal
    <2>2. /\ \A j \in Keys : j # key => ledger'[j] = ledger[j]
          /\ \A j \in Keys : j.reason # "payout_escrow_release" => ledger'[j] = ledger[j]
          /\ ledger'[key] = IF Posted(key) THEN ledger[key] ELSE lines
      BY <2>1, PostAlone, KeysExist, KeyReasons DEF Inv, TypeOK
    <2>3. /\ settlement'[po] # "none"
          /\ settlement'[po] = "mismatch" => ~Settles(po, v, amount, copy)
          /\ \A px \in Payouts : px # po => settlement'[px] = settlement[px]
      BY <2>1 DEF SettlementStatus, Inv, TypeOK
    <2>4. /\ CapturesExact' /\ TicketCapturesExact' /\ OrganizerReleasesExact' /\ CasesExact'
          /\ RefundsExact' /\ Returned' = Returned /\ ChargebacksExact'
      BY <1>1, <2>2, PostingsKept DEF Book
    <2>5. ReleasesExact'
      <3>1. ledger'[key] = lines
        BY <2>2 DEF Posted, Book, Postings, ReleasesExact
      <3>2. \A px \in Payouts : px # po => ledger'[ReleaseKey(px)] = ledger[ReleaseKey(px)]
        BY <2>2, KeysApart, KeysExist
      <3> QED BY <2>3, <3>1, <3>2 DEF Book, Postings, ReleasesExact
    <2>6. RefundsCovered'
      BY <1>1, <2>4 DEF Book, RefundsCovered
    <2>7. SettlementsReported'
      <3>1. /\ reports \subseteq reports'
            /\ ~Settles(po, v, amount, copy) => Issue("amount_mismatch", po) \in reports'
        BY <2>1 DEF RecordTreasuryMismatch
      <3> QED BY <1>1, <2>3, <3>1 DEF Book, SettlementsReported
    <2> QED BY <2>4, <2>5, <2>6, <2>7 DEF Book, Postings
  <1> QED BY <1>2, <1>3

LEMMA BookStep == Inv /\ Book /\ [Next]_vars => Book'
  <1> SUFFICES ASSUME Inv, Book, [Next]_vars PROVE Book'
    OBVIOUS
  <1>1. ASSUME NEW p \in Payments, PaymentNext(p) PROVE Book'
    <2>1. CASE (\E flag \in BOOLEAN : SetReview(p, flag)) \/ RecoverMissingCaptureLedger(p)
      <3>1. UNCHANGED <<treasury, payment, refunded, payoutRows, ticketRows>>
        BY <2>1 DEF SetReview, RecoverMissingCaptureLedger
      <3> QED BY <3>1, NothingPosted DEF treasury, payoutRows, ticketRows
    <2> QED BY <1>1, <2>1, CaptureBooked, RefundBooked, ChargebackBooked DEF PaymentNext
  <1>2. ASSUME \/ \E po \in Payouts : \/ InsertPayout(po) \/ MarkProcessing(po)
                                      \/ MarkFailed(po) \/ RequestDies(po)
               \/ \E stale \in SUBSET Payouts : RunSweep(stale)
        PROVE  Book'
    <2>1. /\ UNCHANGED <<treasury, bookingRows, ticketRows>>
          /\ \A po \in Payouts : payout'[po] = "none" => payout[po] = "none"
      BY <1>2 DEF InsertPayout, MarkProcessing, MarkFailed, RequestDies, RunSweep, Inv, TypeOK
    <2> QED BY <2>1, NothingPosted DEF treasury, bookingRows, ticketRows
  <1>3. ASSUME NEW po \in Payouts, PayoutNext(po) PROVE Book'
    BY <1>2, <1>3, SettlementBooked DEF PayoutNext
  <1>4. ASSUME TicketNext PROVE Book'
    <2>1. ASSUME NEW k \in Cases, CompleteCase(k) PROVE Book'
      BY <2>1, NothingPosted DEF CompleteCase, treasury, bookingRows, payoutRows
    <2> QED BY <1>4, <2>1, TicketBooked, CaseBooked, OrganizerReleaseBooked DEF TicketNext
  <1>5. ASSUME NEW period, RunConsistencyCheck(period) PROVE Book'
    BY <1>5, NothingPosted DEF RunConsistencyCheck, payoutRows, ticketRows
  <1>6. ASSUME NEW build \in Deploys, Redeploy(build), UNCHANGED <<bookingRows, payoutRows, ticketRows>>
        PROVE  Book'
    BY <1>6, NothingPosted DEF Redeploy, treasury, bookingRows, payoutRows, ticketRows
  <1>7. CASE UNCHANGED vars
    BY <1>7, NothingPosted DEF vars, treasury, bookingRows, payoutRows, ticketRows
  <1> QED BY <1>1, <1>2, <1>3, <1>4, <1>5, <1>6, <1>7 DEF Next

LEMMA InitBook == Init => Book
  <1> SUFFICES ASSUME Init PROVE Book
    OBVIOUS
  <1>1. \A k \in Keys : ledger[k] = {}
    BY DEF Init
  <1>2. CapturesExact /\ TicketCapturesExact /\ ReleasesExact /\ OrganizerReleasesExact /\ CasesExact
    BY <1>1, KeysExist DEF Init, CapturesExact, TicketCapturesExact, ReleasesExact, OrganizerReleasesExact,
                           CasesExact
  <1>3. RefundsExact /\ ChargebacksExact
    <2>1. 0 \in Nat
      OBVIOUS
    <2> QED BY <1>1, <2>1, KeysExist DEF RefundsExact, ChargebacksExact
  <1>4. RefundsCovered
    <2>1. \A k \in RefundKeys : Returned[k] = 0
      BY <1>1, KeysExist, NothingDebited DEF Returned
    <2>2. \A p \in Payments : refunded[p] = 0
      BY DEF Init
    <2>3. /\ SumFunctionOnSet(Returned, RefundKeys) = 0
          /\ SumFunctionOnSet(refunded, Payments) = 0
      BY <2>1, <2>2, TablesAssumption, SumZero
    <2> QED BY <2>3 DEF RefundsCovered
  <1>5. SettlementsReported
    BY DEF Init, SettlementsReported
  <1> QED BY <1>2, <1>3, <1>4, <1>5 DEF Book, Postings

LEMMA BookInductive == Spec => [](Inv /\ Book)
  BY InitInv, InitBook, InvStep, BookStep, PTL DEF Spec
-----------------------------------------------------------------------------
(* What each transaction of the ledger does to accounts                    *)

LEMMA CaptureMoves ==
    ASSUME Postings, NEW accounts, NEW p \in Payments
    PROVE  /\ AreLines(ledger[CaptureKey(p)])
           /\ NetEffect(ledger[CaptureKey(p)], accounts) =
                IF payment[p] = "initiated" THEN 0
                ELSE (In(accounts, Escrow, Gross(p)) - In(accounts, Psp, Gross(p)))
                     + (In(accounts, PlatformFees, Fee[p]) - In(accounts, Escrow, Fee[p]))
  <1>1. Gross(p) \in Nat /\ Fee[p] \in Nat
    BY Amounts
  <1> QED BY <1>1, CaptureEffects, NoLines DEF Postings, CapturesExact

LEMMA TicketCaptureMoves ==
    ASSUME Postings, NEW accounts, NEW t \in TicketPayments
    PROVE  /\ AreLines(ledger[TicketCaptureKey(t)])
           /\ NetEffect(ledger[TicketCaptureKey(t)], accounts) =
                IF ticketPayment[t] = "initiated" THEN 0
                ELSE (In(accounts, Escrow, Gross(t)) - In(accounts, Psp, Gross(t)))
                     + (In(accounts, PlatformFees, Fee[t]) - In(accounts, Escrow, Fee[t]))
                     + (In(accounts, OrganizerPayable(OrganizerOf[t]), Subtotal[t])
                        - In(accounts, Escrow, Subtotal[t]))
  <1> DEFINE lines == TicketCaptureLines(OrganizerOf[t], Fee[t], Subtotal[t])
  <1>1. Fee[t] \in Nat /\ Subtotal[t] \in Nat /\ Fee[t] + Subtotal[t] = Gross(t)
    BY Amounts DEF Gross
  <1>2. ledger[TicketCaptureKey(t)] = IF ticketPayment[t] = "initiated" THEN {} ELSE lines
    BY DEF Postings, TicketCapturesExact
  <1>3. /\ AreLines(lines)
        /\ NetEffect(lines, accounts) =
             (In(accounts, Escrow, Fee[t] + Subtotal[t]) - In(accounts, Psp, Fee[t] + Subtotal[t]))
             + (In(accounts, PlatformFees, Fee[t]) - In(accounts, Escrow, Fee[t]))
             + (In(accounts, OrganizerPayable(OrganizerOf[t]), Subtotal[t]) - In(accounts, Escrow, Subtotal[t]))
    BY <1>1, TicketCaptureEffects
  <1> HIDE DEF lines
  <1>4. CASE ticketPayment[t] = "initiated"
    BY <1>2, <1>4, NoLines
  <1>5. CASE ticketPayment[t] # "initiated"
    BY <1>1, <1>2, <1>3, <1>5
  <1> QED BY <1>4, <1>5

LEMMA ReleaseMoves ==
    ASSUME Postings, NEW accounts, NEW po \in Payouts
    PROVE  /\ AreLines(ledger[ReleaseKey(po)])
           /\ NetEffect(ledger[ReleaseKey(po)], accounts) =
                IF settlement[po] = "none" THEN 0
                ELSE In(accounts, VendorPayable(VendorOf[PaymentOf[po]]), Subtotal[PaymentOf[po]])
                     - In(accounts, Escrow, Subtotal[PaymentOf[po]])
  <1>1. Subtotal[PaymentOf[po]] \in Nat
    BY Amounts
  <1> QED BY <1>1, SimpleEffects, NoLines DEF Postings, ReleasesExact

LEMMA OrganizerReleaseMoves ==
    ASSUME Postings, NEW accounts, NEW q \in OrganizerPayouts
    PROVE  /\ AreLines(ledger[OrganizerReleaseKey(q)])
           /\ NetEffect(ledger[OrganizerReleaseKey(q)], accounts) =
                IF ~Posted(OrganizerReleaseKey(q)) THEN 0
                ELSE In(accounts, PayoutClearing, Subtotal[TicketOf[q]])
                     - In(accounts, OrganizerPayable(OrganizerOf[TicketOf[q]]), Subtotal[TicketOf[q]])
  <1>1. Subtotal[TicketOf[q]] \in Nat
    BY Amounts
  <1> QED BY <1>1, SimpleEffects, NoLines DEF Postings, OrganizerReleasesExact, Posted

LEMMA CaseMoves ==
    ASSUME Postings, NEW accounts, NEW k \in Cases
    PROVE  /\ AreLines(ledger[TicketRefundKey(k)])
           /\ NetEffect(ledger[TicketRefundKey(k)], accounts) =
                IF ~Posted(TicketRefundKey(k)) THEN 0
                ELSE In(accounts, Psp, CaseRefund[k] + FeeReversal(k))
                     - In(accounts, OrganizerPayable(OrganizerOf[CaseOf[k]]), CaseRefund[k])
                     - In(accounts, PlatformFees, FeeReversal(k))
  <1> DEFINE lines == TicketRefundLines(OrganizerOf[CaseOf[k]], CaseRefund[k], FeeReversal(k))
  <1>1. CaseRefund[k] \in Nat /\ FeeReversal(k) \in Nat
    BY Amounts, FeeReversalType
  <1>2. ledger[TicketRefundKey(k)] = {} \/ ledger[TicketRefundKey(k)] = lines
    BY DEF Postings, CasesExact
  <1>3. /\ AreLines(lines)
        /\ NetEffect(lines, accounts) =
             In(accounts, Psp, CaseRefund[k] + FeeReversal(k))
             - In(accounts, OrganizerPayable(OrganizerOf[CaseOf[k]]), CaseRefund[k])
             - In(accounts, PlatformFees, FeeReversal(k))
    BY <1>1, TicketRefundEffects
  <1> HIDE DEF lines
  <1>4. CASE ~Posted(TicketRefundKey(k))
    BY <1>4, NoLines DEF Posted
  <1>5. CASE Posted(TicketRefundKey(k))
    BY <1>2, <1>3, <1>5 DEF Posted
  <1> QED BY <1>4, <1>5

LEMMA RefundMoves ==
    ASSUME Postings, NEW accounts, NEW k \in RefundKeys
    PROVE  /\ AreLines(ledger[RefundKey(k)]) /\ Returned[k] \in Nat
           /\ NetEffect(ledger[RefundKey(k)], accounts) =
                In(accounts, Psp, Returned[k]) - In(accounts, Escrow, Returned[k])
  <1>1. PICK a \in Nat : ledger[RefundKey(k)] = IF a = 0 THEN {} ELSE RefundLines(a)
    BY DEF Postings, RefundsExact
  <1>2. Returned[k] = a
    BY <1>1, RefundDebit, NothingDebited DEF Returned
  <1>3. CASE a = 0
    BY <1>1, <1>2, <1>3, NoLines DEF In
  <1>4. CASE a # 0
    BY <1>1, <1>2, <1>4, SimpleEffects
  <1> QED BY <1>2, <1>3, <1>4

LEMMA ChargebackDebit ==
    ASSUME NEW v, NEW a \in Nat PROVE SumDirection(ChargebackLines(v, a), "debit") = a
  <1> DEFINE d == Debit(VendorPayable(v), a, "chargeback")
             S == {x \in ChargebackLines(v, a) : x.direction = "debit"}
             f == [l \in S |-> l.amount]
  <1>1. S = {d} /\ d.amount = a
    BY DEF ChargebackLines, Debit, Credit, Line
  <1>2. f[d] = a /\ f[d] \in Int
    BY <1>1
  <1>3. SumDirection(ChargebackLines(v, a), "debit") = SumFunctionOnSet(f, S)
    BY DirectionIsSum
  <1>4. SumFunctionOnSet(f, {d}) = f[d]
    <2> HIDE DEF d, S, f
    <2> QED BY <1>2, SumOne
  <1> QED BY <1>1, <1>2, <1>3, <1>4

\* What was charged back under a key, 0 when nothing was.
ChargedBackBy(k) == SumDirection(ledger[k], "debit")

LEMMA ChargebackMoves ==
    ASSUME Postings, NEW accounts, NEW p \in Payments, NEW ev \in ChargebackEvents
    PROVE  /\ AreLines(ledger[ChargebackKey(p, ev)]) /\ ChargedBackBy(ChargebackKey(p, ev)) \in Nat
           /\ Posted(ChargebackKey(p, ev)) =>
                 ledger[ChargebackKey(p, ev)] = ChargebackLines(VendorOf[p], ChargedBackBy(ChargebackKey(p, ev)))
           /\ NetEffect(ledger[ChargebackKey(p, ev)], accounts) =
                In(accounts, Psp, ChargedBackBy(ChargebackKey(p, ev)))
                - In(accounts, VendorPayable(VendorOf[p]), ChargedBackBy(ChargebackKey(p, ev)))
  <1> DEFINE key == ChargebackKey(p, ev)
  <1>1. PICK a \in Nat : ledger[key] = IF a = 0 THEN {} ELSE ChargebackLines(VendorOf[p], a)
    BY DEF Postings, ChargebacksExact
  <1>2. ChargedBackBy(key) = a
    BY <1>1, ChargebackDebit, NothingDebited DEF ChargedBackBy
  <1> HIDE DEF key
  <1>3. Posted(key) => ledger[key] = ChargebackLines(VendorOf[p], ChargedBackBy(key))
    BY <1>1, <1>2 DEF Posted
  <1>4. CASE a = 0
    BY <1>1, <1>2, <1>3, <1>4, NoLines DEF In, key
  <1>5. CASE a # 0
    BY <1>1, <1>2, <1>3, <1>5, SimpleEffects DEF key
  <1> QED BY <1>4, <1>5

\* The key of a transaction tells what it is of.
LEMMA KeyCases ==
    ASSUME NEW k \in Keys
    PROVE  \/ \E p \in Payments : k = CaptureKey(p)
           \/ \E j \in RefundKeys : k = RefundKey(j)
           \/ \E p \in Payments, ev \in ChargebackEvents : k = ChargebackKey(p, ev)
           \/ \E po \in Payouts : k = ReleaseKey(po)
           \/ \E t \in TicketPayments : k = TicketCaptureKey(t)
           \/ \E j \in Cases : k = TicketRefundKey(j)
           \/ \E q \in OrganizerPayouts : k = OrganizerReleaseKey(q)
  BY DEF Keys

LEMMA KeysHaveLines ==
    ASSUME Postings, NEW k \in Keys PROVE AreLines(ledger[k])
  BY KeyCases, CaptureMoves, RefundMoves, ChargebackMoves, ReleaseMoves, TicketCaptureMoves, CaseMoves,
     OrganizerReleaseMoves

\* Double entry: in every transaction of the ledger, on both rails, credits and
\* debits are the same amount.
PostingsBalance == \A k \in Keys : Net(ledger[k]) = 0

LEMMA PostingBalances ==
    ASSUME Inv, Postings, NEW k \in Keys PROVE Net(ledger[k]) = 0
  <1> DEFINE lines == ledger[k]
             own == {l \in lines : l.account \in Accounts}
  <1>1. own = lines
    BY DEF Inv, TypeOK, Lines
  <1>2. AreLines(lines)
    BY KeysHaveLines
  <1>3. Net(own) = NetEffect(lines, Accounts)
    <2> HIDE DEF lines
    <2> QED BY <1>2, NetIsSum
  <1>4. /\ \A n : /\ In(Accounts, Psp, n) = n /\ In(Accounts, Escrow, n) = n
                  /\ In(Accounts, PlatformFees, n) = n /\ In(Accounts, PayoutClearing, n) = n
        /\ \A n, v : v \in Vendors => In(Accounts, VendorPayable(v), n) = n
        /\ \A n, o : o \in Organizers => In(Accounts, OrganizerPayable(o), n) = n
    BY PoolAccounts DEF In
  <1>5. NetEffect(lines, Accounts) = 0
    <2>1. ASSUME NEW p \in Payments, k = CaptureKey(p) PROVE NetEffect(lines, Accounts) = 0
      BY <1>4, <2>1, CaptureMoves, Amounts
    <2>2. ASSUME NEW j \in RefundKeys, k = RefundKey(j) PROVE NetEffect(lines, Accounts) = 0
      BY <1>4, <2>2, RefundMoves
    <2>3. ASSUME NEW p \in Payments, NEW ev \in ChargebackEvents, k = ChargebackKey(p, ev)
          PROVE  NetEffect(lines, Accounts) = 0
      <3> DEFINE a == ChargedBackBy(ChargebackKey(p, ev))
                 v == VendorOf[p]
      <3>1. v \in Vendors
        BY OwnersAssumption
      <3>2. a \in Nat /\ NetEffect(lines, Accounts) = In(Accounts, Psp, a) - In(Accounts, VendorPayable(v), a)
        BY <2>3, ChargebackMoves
      <3>3. In(Accounts, Psp, a) = a /\ In(Accounts, VendorPayable(v), a) = a
        BY <1>4, <3>1
      <3> HIDE DEF a, v, lines
      <3> QED BY <3>2, <3>3
    <2>4. ASSUME NEW po \in Payouts, k = ReleaseKey(po) PROVE NetEffect(lines, Accounts) = 0
      <3> DEFINE a == Subtotal[PaymentOf[po]]
                 v == VendorOf[PaymentOf[po]]
      <3>1. v \in Vendors /\ a \in Nat
        BY Amounts, OwnersAssumption
      <3>2. NetEffect(lines, Accounts) = IF settlement[po] = "none" THEN 0
                                         ELSE In(Accounts, VendorPayable(v), a) - In(Accounts, Escrow, a)
        BY <2>4, ReleaseMoves
      <3>3. In(Accounts, Escrow, a) = a /\ In(Accounts, VendorPayable(v), a) = a
        BY <1>4, <3>1
      <3> HIDE DEF a, v, lines
      <3> QED BY <3>1, <3>2, <3>3
    <2>5. ASSUME NEW t \in TicketPayments, k = TicketCaptureKey(t) PROVE NetEffect(lines, Accounts) = 0
      <3> DEFINE o == OrganizerOf[t]
      <3>1. o \in Organizers /\ Fee[t] \in Nat /\ Subtotal[t] \in Nat /\ Gross(t) = Subtotal[t] + Fee[t]
        BY Amounts, OwnersAssumption DEF Gross
      <3>2. NetEffect(lines, Accounts) =
              IF ticketPayment[t] = "initiated" THEN 0
              ELSE (In(Accounts, Escrow, Gross(t)) - In(Accounts, Psp, Gross(t)))
                   + (In(Accounts, PlatformFees, Fee[t]) - In(Accounts, Escrow, Fee[t]))
                   + (In(Accounts, OrganizerPayable(o), Subtotal[t]) - In(Accounts, Escrow, Subtotal[t]))
        BY <2>5, TicketCaptureMoves
      <3>3. /\ In(Accounts, Escrow, Gross(t)) = Gross(t) /\ In(Accounts, Psp, Gross(t)) = Gross(t)
            /\ In(Accounts, PlatformFees, Fee[t]) = Fee[t] /\ In(Accounts, Escrow, Fee[t]) = Fee[t]
            /\ In(Accounts, OrganizerPayable(o), Subtotal[t]) = Subtotal[t]
            /\ In(Accounts, Escrow, Subtotal[t]) = Subtotal[t]
        BY <1>4, <3>1
      <3> HIDE DEF o, lines
      <3> QED BY <3>1, <3>2, <3>3
    <2>6. ASSUME NEW j \in Cases, k = TicketRefundKey(j) PROVE NetEffect(lines, Accounts) = 0
      <3> DEFINE o == OrganizerOf[CaseOf[j]]
                 a == CaseRefund[j]
                 b == FeeReversal(j)
      <3>1. a \in Nat /\ b \in Nat /\ o \in Organizers
        BY Amounts, FeeReversalType, OwnersAssumption
      <3>2. NetEffect(lines, Accounts) =
              IF ~Posted(TicketRefundKey(j)) THEN 0
              ELSE In(Accounts, Psp, a + b) - In(Accounts, OrganizerPayable(o), a) - In(Accounts, PlatformFees, b)
        BY <2>6, CaseMoves
      <3>3. /\ In(Accounts, Psp, a + b) = a + b /\ In(Accounts, OrganizerPayable(o), a) = a
            /\ In(Accounts, PlatformFees, b) = b
        BY <1>4, <3>1
      <3> HIDE DEF a, b, o, lines
      <3> QED BY <3>1, <3>2, <3>3
    <2>7. ASSUME NEW q \in OrganizerPayouts, k = OrganizerReleaseKey(q) PROVE NetEffect(lines, Accounts) = 0
      BY <1>4, <2>7, OrganizerReleaseMoves, Amounts, OwnersAssumption
    <2> HIDE DEF lines
    <2> QED BY <2>1, <2>2, <2>3, <2>4, <2>5, <2>6, <2>7, KeyCases
  <1> QED BY <1>1, <1>3, <1>5

\* Whatever the amounts, and whichever lines of 0 are left out, what a handler
\* posts balances; a captured row's transaction is that of its amounts, and no
\* repeated key changes it.
THEOREM PostingsBalanceCorrect == Spec => []PostingsBalance
  <1>1. Inv /\ Book => PostingsBalance
    BY PostingBalances DEF Book, PostingsBalance
  <1> QED BY BookInductive, <1>1, PTL

\* A row of either rail has the transaction of its own amounts, and one that was
\* not captured has none; releases are those of settlements, whole.
THEOREM LedgerIsExact == Spec => [](Postings /\ RefundsCovered)
  <1>1. Inv /\ Book => Postings /\ RefundsCovered
    BY DEF Book
  <1> QED BY BookInductive, <1>1, PTL

-----------------------------------------------------------------------------
(* To the ledger every step is one transaction or none                     *)

\* A transaction gives what it takes, and the accounts are those of its row.
LEMMA PostedTransfers ==
    ASSUME Inv, Postings, NEW k \in Keys, Posted(k) PROVE Transfers(k, ledger[k])
  <1> DEFINE lines == ledger[k]
  <1>1. lines # {} /\ Net(lines) = 0
    BY PostingBalances DEF Posted
  <1>2. SUFFICES ASSUME NEW a \in Accounts
                 PROVE  /\ NetEffect(lines, {a}) < 0 => a \in Payers(k)
                        /\ NetEffect(lines, {a}) > 0 => a \in Payees(k)
    <2>1. AreLines(lines)
      BY KeysHaveLines
    <2>2. \A a \in Accounts : Net(LinesOf(lines, a)) = NetEffect(lines, {a})
      <3> HIDE DEF lines
      <3> QED BY <2>1, NetOfAccount
    <2> QED BY <1>1, <1>2, <2>2 DEF Transfers
  <1> DEFINE Goal == /\ NetEffect(lines, {a}) < 0 => a \in Payers(k)
                     /\ NetEffect(lines, {a}) > 0 => a \in Payees(k)
  <1>3. \A x, n : In({a}, x, n) = IF a = x THEN n ELSE 0
    BY DEF In
  <1>4. ASSUME NEW p \in Payments, k = CaptureKey(p) PROVE Goal
    <2>1. Payers(k) = {Psp} /\ Payees(k) = {Escrow, PlatformFees}
      BY <1>4 DEF Payers, Payees, CaptureKey, Key
    <2>2. Gross(p) \in Nat /\ Fee[p] \in Nat /\ Fee[p] <= Gross(p)
      BY Amounts, AmountsAssumption DEF Gross
    <2>3. NetEffect(lines, {a}) =
            IF payment[p] = "initiated" THEN 0
            ELSE (In({a}, Escrow, Gross(p)) - In({a}, Psp, Gross(p)))
                 + (In({a}, PlatformFees, Fee[p]) - In({a}, Escrow, Fee[p]))
      BY <1>4, CaptureMoves
    <2> HIDE DEF lines
    <2>4. NetEffect(lines, {a}) =
            IF payment[p] = "initiated" THEN 0
            ELSE ((IF a = Escrow THEN Gross(p) ELSE 0) - (IF a = Psp THEN Gross(p) ELSE 0))
                 + ((IF a = PlatformFees THEN Fee[p] ELSE 0) - (IF a = Escrow THEN Fee[p] ELSE 0))
      BY <1>3, <2>3, Zenon
    <2> QED BY <2>1, <2>2, <2>4, AccountsDiffer
  <1>5. ASSUME NEW j \in RefundKeys, k = RefundKey(j) PROVE Goal
    <2>1. Payers(k) = {Escrow} /\ Payees(k) = {Psp}
      BY <1>5 DEF Payers, Payees, RefundKey, Key
    <2>2. Returned[j] \in Nat /\ NetEffect(lines, {a}) = In({a}, Psp, Returned[j]) - In({a}, Escrow, Returned[j])
      BY <1>5, RefundMoves
    <2> HIDE DEF lines
    <2> QED BY <1>3, <2>1, <2>2, AccountsDiffer
  <1>6. ASSUME NEW p \in Payments, NEW ev \in ChargebackEvents, k = ChargebackKey(p, ev) PROVE Goal
    <2> DEFINE n == ChargedBackBy(ChargebackKey(p, ev))
    <2>1. Payers(k) = {VendorPayable(VendorOf[p])} /\ Payees(k) = {Psp}
      BY <1>6 DEF Payers, Payees, ChargebackKey, Key
    <2>2. n \in Nat /\ NetEffect(lines, {a}) = In({a}, Psp, n) - In({a}, VendorPayable(VendorOf[p]), n)
      BY <1>6, ChargebackMoves
    <2> HIDE DEF lines, n
    <2> QED BY <1>3, <2>1, <2>2, AccountsDiffer
  <1>7. ASSUME NEW po \in Payouts, k = ReleaseKey(po) PROVE Goal
    <2> DEFINE v == VendorOf[PaymentOf[po]]
               n == Subtotal[PaymentOf[po]]
    <2>1. Payers(k) = {Escrow} /\ Payees(k) = {VendorPayable(v)}
      BY <1>7 DEF Payers, Payees, ReleaseKey, Key
    <2>2. n \in Nat
      BY Amounts
    <2>3. NetEffect(lines, {a}) =
            IF settlement[po] = "none" THEN 0 ELSE In({a}, VendorPayable(v), n) - In({a}, Escrow, n)
      BY <1>7, ReleaseMoves
    <2> HIDE DEF lines, v, n
    <2> QED BY <1>3, <2>1, <2>2, <2>3, AccountsDiffer
  <1>8. ASSUME NEW t \in TicketPayments, k = TicketCaptureKey(t) PROVE Goal
    <2> DEFINE o == OrganizerOf[t]
    <2>1. Payers(k) = {Psp} /\ Payees(k) = {OrganizerPayable(o), PlatformFees}
      BY <1>8 DEF Payers, Payees, TicketCaptureKey, Key
    <2>2. Fee[t] \in Nat /\ Subtotal[t] \in Nat /\ Gross(t) = Subtotal[t] + Fee[t]
      BY Amounts DEF Gross
    <2>3. NetEffect(lines, {a}) =
            IF ticketPayment[t] = "initiated" THEN 0
            ELSE (In({a}, Escrow, Gross(t)) - In({a}, Psp, Gross(t)))
                 + (In({a}, PlatformFees, Fee[t]) - In({a}, Escrow, Fee[t]))
                 + (In({a}, OrganizerPayable(o), Subtotal[t]) - In({a}, Escrow, Subtotal[t]))
      BY <1>8, TicketCaptureMoves
    <2> HIDE DEF lines, o
    <2>4. NetEffect(lines, {a}) =
            IF ticketPayment[t] = "initiated" THEN 0
            ELSE ((IF a = Escrow THEN Gross(t) ELSE 0) - (IF a = Psp THEN Gross(t) ELSE 0))
                 + ((IF a = PlatformFees THEN Fee[t] ELSE 0) - (IF a = Escrow THEN Fee[t] ELSE 0))
                 + ((IF a = OrganizerPayable(o) THEN Subtotal[t] ELSE 0)
                    - (IF a = Escrow THEN Subtotal[t] ELSE 0))
      BY <1>3, <2>3, Zenon
    <2> QED BY <2>1, <2>2, <2>4, AccountsDiffer
  <1>9. ASSUME NEW j \in Cases, k = TicketRefundKey(j) PROVE Goal
    <2> DEFINE o == OrganizerOf[CaseOf[j]]
               m == CaseRefund[j]
               n == FeeReversal(j)
    <2>1. Payers(k) = {OrganizerPayable(o), PlatformFees} /\ Payees(k) = {Psp}
      BY <1>9 DEF Payers, Payees, TicketRefundKey, Key
    <2>2. m \in Nat /\ n \in Nat
      BY Amounts, FeeReversalType
    <2>3. NetEffect(lines, {a}) =
            IF ~Posted(TicketRefundKey(j)) THEN 0
            ELSE In({a}, Psp, m + n) - In({a}, OrganizerPayable(o), m) - In({a}, PlatformFees, n)
      BY <1>9, CaseMoves
    <2> HIDE DEF lines, o, m, n
    <2> QED BY <1>3, <2>1, <2>2, <2>3, AccountsDiffer
  <1>10. ASSUME NEW q \in OrganizerPayouts, k = OrganizerReleaseKey(q) PROVE Goal
    <2> DEFINE o == OrganizerOf[TicketOf[q]]
               n == Subtotal[TicketOf[q]]
    <2>1. Payers(k) = {OrganizerPayable(o)} /\ Payees(k) = {PayoutClearing}
      BY <1>10 DEF Payers, Payees, OrganizerReleaseKey, Key
    <2>2. n \in Nat
      BY Amounts
    <2>3. NetEffect(lines, {a}) =
            IF ~Posted(OrganizerReleaseKey(q)) THEN 0
            ELSE In({a}, PayoutClearing, n) - In({a}, OrganizerPayable(o), n)
      BY <1>10, OrganizerReleaseMoves
    <2> HIDE DEF lines, o, n
    <2>4. NetEffect(lines, {a}) =
            IF ~Posted(OrganizerReleaseKey(q)) THEN 0
            ELSE (IF a = PayoutClearing THEN n ELSE 0) - (IF a = OrganizerPayable(o) THEN n ELSE 0)
      BY <1>3, <2>3, Zenon
    <2> QED BY <2>1, <2>2, <2>4, AccountsDiffer
  <1> HIDE DEF Goal
  <1>11. Goal
    BY <1>4, <1>5, <1>6, <1>7, <1>8, <1>9, <1>10, KeyCases
  <1> QED BY <1>11 DEF Goal

\* What the ledger is like between two steps: nothing happens to it, or one
\* transaction of which there was nothing is there.
OneTransactionAtMost ==
    \/ ledger' = ledger
    \/ \E k \in Keys : /\ ~Posted(k) /\ ledger'[k] # {}
                       /\ ledger' = [ledger EXCEPT ![k] = ledger'[k]]

LEMMA PostIsOneTransaction ==
    ASSUME Inv, NEW key \in Keys, NEW lines \in SUBSET Lines, ledger' = Post(key, lines)
    PROVE  OneTransactionAtMost
  <1>1. ledger \in [Keys -> SUBSET Lines]
    BY DEF Inv, TypeOK
  <1>2. CASE Posted(key)
    BY <1>2 DEF Post, OneTransactionAtMost
  <1>3. CASE ~Posted(key)
    <2>1. ledger' = [ledger EXCEPT ![key] = lines] /\ ledger'[key] = lines /\ ledger[key] = {}
      BY <1>1, <1>3 DEF Post, Posted
    <2>2. CASE lines = {}
      <3>1. [ledger EXCEPT ![key] = lines] = ledger
        BY <1>1, <2>1, <2>2
      <3> QED BY <2>1, <3>1 DEF OneTransactionAtMost
    <2>3. CASE lines # {}
      BY <1>3, <2>1, <2>3 DEF OneTransactionAtMost
    <2> QED BY <2>2, <2>3
  <1> QED BY <1>2, <1>3

LEMMA StepIsOneTransaction ==
    ASSUME Inv, [Next]_vars PROVE OneTransactionAtMost
  <1>1. ASSUME NEW p \in Payments, PaymentNext(p) PROVE OneTransactionAtMost
    <2>1. CASE ApplyQuaserPaymentCapture(p)
      <3>1. ledger' = Post(CaptureKey(p), CaptureLines(Gross(p), Fee[p]))
        BY <2>1 DEF ApplyQuaserPaymentCapture, Posts
      <3>2. CaptureLines(Gross(p), Fee[p]) \in SUBSET Lines /\ CaptureKey(p) \in Keys
        BY Amounts, LinesWritten, KeysExist
      <3> QED BY <3>1, <3>2, PostIsOneTransaction
    <2>2. ASSUME NEW amount \in 1..Gross(p), NEW k \in RefundKeys, RefundPayment(p, amount, k)
          PROVE  OneTransactionAtMost
      <3>1. ledger' = Post(RefundKey(k), RefundLines(amount))
        BY <2>2 DEF RefundPayment, Posts
      <3>2. amount \in Nat
        BY Amounts
      <3>3. RefundLines(amount) \in SUBSET Lines /\ RefundKey(k) \in Keys
        BY <3>2, LinesWritten, KeysExist
      <3> QED BY <3>1, <3>3, PostIsOneTransaction
    <2>3. ASSUME NEW amount \in 1..Gross(p), NEW ev \in ChargebackEvents, ApplyChargeback(p, amount, ev)
          PROVE  OneTransactionAtMost
      <3>1. ledger' = Post(ChargebackKey(p, ev), ChargebackLines(VendorOf[p], amount))
        BY <2>3 DEF ApplyChargeback, Posts
      <3>2. amount \in Nat /\ VendorOf[p] \in Vendors
        BY Amounts, OwnersAssumption
      <3>3. ChargebackLines(VendorOf[p], amount) \in SUBSET Lines /\ ChargebackKey(p, ev) \in Keys
        BY <3>2, LinesWritten, KeysExist
      <3> QED BY <3>1, <3>3, PostIsOneTransaction
    <2>4. CASE (\E flag \in BOOLEAN : SetReview(p, flag)) \/ RecoverMissingCaptureLedger(p)
      BY <2>4 DEF SetReview, RecoverMissingCaptureLedger, treasury, OneTransactionAtMost
    <2> QED BY <1>1, <2>1, <2>2, <2>3, <2>4 DEF PaymentNext
  <1>2. ASSUME NEW po \in Payouts,
               NEW copy \in Copies(Entries(po, VendorOf[PaymentOf[po]], Subtotal[PaymentOf[po]])),
               HandlePayoutCompleted(po, copy)
        PROVE  OneTransactionAtMost
    <2> DEFINE v == VendorOf[PaymentOf[po]]
               amount == Subtotal[PaymentOf[po]]
    <2>1. PostSettlementJournal(po, v, amount, copy)
      BY <1>2 DEF HandlePayoutCompleted
    <2>2. ledger' = ledger \/ ledger' = Post(ReleaseKey(po), PayoutReleaseLines(v, amount))
      BY <2>1 DEF PostSettlementJournal, treasury
    <2>3. PayoutReleaseLines(v, amount) \in SUBSET Lines /\ ReleaseKey(po) \in Keys
      BY Amounts, OwnersAssumption, LinesWritten, KeysExist
    <2>4. CASE ledger' = ledger
      BY <2>4 DEF OneTransactionAtMost
    <2> QED BY <2>2, <2>3, <2>4, PostIsOneTransaction
  <1>3. ASSUME \/ \E po \in Payouts : \/ InsertPayout(po) \/ MarkProcessing(po)
                                      \/ MarkFailed(po) \/ RequestDies(po)
               \/ \E stale \in SUBSET Payouts : RunSweep(stale)
        PROVE  OneTransactionAtMost
    BY <1>3 DEF InsertPayout, MarkProcessing, MarkFailed, RequestDies, RunSweep, treasury, OneTransactionAtMost
  <1>4. CASE TicketNext
    <2>1. ASSUME NEW t \in TicketPayments, ApplyTicketCapture(t) PROVE OneTransactionAtMost
      <3> DEFINE lines == TicketCaptureLines(OrganizerOf[t], Fee[t], Subtotal[t])
      <3>1. ledger' = Post(TicketCaptureKey(t), lines)
        BY <2>1 DEF ApplyTicketCapture, Posts
      <3>2. lines \in SUBSET Lines /\ TicketCaptureKey(t) \in Keys
        BY Amounts, OwnersAssumption, LinesWritten, KeysExist
      <3> QED BY <3>1, <3>2, PostIsOneTransaction
    <2>2. ASSUME NEW k \in Cases, PostTicketRefund(k) PROVE OneTransactionAtMost
      <3> DEFINE lines == TicketRefundLines(OrganizerOf[CaseOf[k]], CaseRefund[k], FeeReversal(k))
      <3>1. ledger' = Post(TicketRefundKey(k), lines)
        BY <2>2 DEF PostTicketRefund, Posts
      <3>2. CaseRefund[k] \in Nat /\ FeeReversal(k) \in Nat /\ OrganizerOf[CaseOf[k]] \in Organizers
        BY Amounts, FeeReversalType, OwnersAssumption
      <3>3. lines \in SUBSET Lines /\ TicketRefundKey(k) \in Keys
        BY <3>2, LinesWritten, KeysExist
      <3> QED BY <3>1, <3>3, PostIsOneTransaction
    <2>3. ASSUME NEW q \in OrganizerPayouts, CompleteOrganizerPayout(q) PROVE OneTransactionAtMost
      <3> DEFINE lines == OrganizerReleaseLines(OrganizerOf[TicketOf[q]], Subtotal[TicketOf[q]])
      <3>1. ledger' = Post(OrganizerReleaseKey(q), lines)
        BY <2>3 DEF CompleteOrganizerPayout, Posts
      <3>2. lines \in SUBSET Lines /\ OrganizerReleaseKey(q) \in Keys
        BY Amounts, OwnersAssumption, LinesWritten, KeysExist
      <3> QED BY <3>1, <3>2, PostIsOneTransaction
    <2>4. ASSUME NEW k \in Cases, CompleteCase(k) PROVE OneTransactionAtMost
      BY <2>4 DEF CompleteCase, treasury, OneTransactionAtMost
    <2> QED BY <1>4, <2>1, <2>2, <2>3, <2>4 DEF TicketNext
  <1>5. ASSUME NEW period, RunConsistencyCheck(period) PROVE OneTransactionAtMost
    BY <1>5 DEF RunConsistencyCheck, OneTransactionAtMost
  <1>6. ASSUME NEW build \in Deploys, Redeploy(build) PROVE OneTransactionAtMost
    BY <1>6 DEF Redeploy, treasury, OneTransactionAtMost
  <1>7. CASE UNCHANGED vars
    BY <1>7 DEF vars, treasury, OneTransactionAtMost
  <1> QED BY <1>1, <1>2, <1>3, <1>4, <1>5, <1>6, <1>7 DEF Next, PayoutNext

\* The books implement the journal.  That a transaction is written whole is what
\* the books say of the ledger after the step, and that no other is touched what
\* the step says, so no action has to be looked at for both.
AllTransfer == \A k \in Keys : Posted(k) => Transfers(k, ledger[k])

THEOREM JournalRefinement == Spec => ImplementsJournal
  <1>1. Init => JournalInit
    BY DEF Init, JournalInit
  <1>2. Inv /\ Book => AllTransfer
    BY PostedTransfers DEF Book, AllTransfer
  <1>3. Inv /\ AllTransfer' /\ [Next]_vars => [\E k \in Keys : PostTransaction(k)]_ledger
    <2> SUFFICES ASSUME Inv, AllTransfer', [Next]_vars
                 PROVE  [\E k \in Keys : PostTransaction(k)]_ledger
      OBVIOUS
    <2>1. OneTransactionAtMost
      BY StepIsOneTransaction
    <2>2. ASSUME NEW k \in Keys, ledger'[k] # {} PROVE Transfers(k, ledger'[k])
      BY <2>2 DEF AllTransfer, Posted, Transfers
    <2> QED BY <2>1, <2>2 DEF OneTransactionAtMost, PostTransaction
  <1> QED BY <1>1, <1>2, <1>3, BookInductive, PTL DEF Spec, ImplementsJournal, JournalSpec
=============================================================================
