-------------------------------- MODULE Ledger --------------------------------
(***************************************************************************)
(* The double-entry ledger both rails post to: ledger_accounts,            *)
(* ledger_transactions and ledger_lines.  A transaction is found by its    *)
(* idempotency key and its lines are written once, in the SQL transaction  *)
(* that writes its header, so one function from keys to sets of lines is   *)
(* the whole of it: {} is a transaction that was never posted.             *)
(*                                                                         *)
(* A definition that is used nowhere is a faulty variant of the one that   *)
(* follows it: the slip that a property has to notice.                     *)
(***************************************************************************)
EXTENDS Integers, FiniteSetsExt

CONSTANTS Payments, Payouts,                  \* rows of the booking rail
          RefundKeys,                         \* idempotency keys of refund requests
          ChargebackEvents,                   \* event ids of chargeback notices
          TicketPayments, Cases,              \* rows of the ticket rail
          OrganizerPayouts,
          Vendors, Organizers,                \* owners of payable accounts
          Platform                            \* owner of the pool accounts

\* A table has finitely many rows.
ASSUME TablesAssumption ==
    /\ IsFiniteSet(Payments) /\ IsFiniteSet(Payouts) /\ IsFiniteSet(RefundKeys)
    /\ IsFiniteSet(ChargebackEvents) /\ IsFiniteSet(TicketPayments) /\ IsFiniteSet(Cases)
    /\ IsFiniteSet(OrganizerPayouts) /\ IsFiniteSet(Vendors) /\ IsFiniteSet(Organizers)

VARIABLE ledger

-----------------------------------------------------------------------------
(* Accounts.  Each is inserted ON CONFLICT DO NOTHING by the first posting     *)
(* that needs it, so it is there whenever a line names it.                     *)

PoolAccount(kind) == <<kind, Platform>>
Psp == PoolAccount("external_psp")
Escrow == PoolAccount("escrow")
PlatformFees == PoolAccount("platform_fees")
PayoutClearing == PoolAccount("organizer_payout_clearing")
VendorPayable(v) == <<"vendor_payable", v>>
OrganizerPayable(o) == <<"organizer_payable", o>>

Accounts == {Psp, Escrow, PlatformFees, PayoutClearing}
            \cup {VendorPayable(v) : v \in Vendors}
            \cup {OrganizerPayable(o) : o \in Organizers}

-----------------------------------------------------------------------------
(* Lines.  The memo tells apart two lines of one posting to one account.       *)

Line(account, direction, amount, memo) ==
    [account |-> account, direction |-> direction, amount |-> amount, memo |-> memo]
Debit(account, amount, memo) == Line(account, "debit", amount, memo)
Credit(account, amount, memo) == Line(account, "credit", amount, memo)
Positive(lines) == {l \in lines : l.amount > 0}

\* owanbe_apply_quaser_payment_capture
CaptureLines(gross, fee) ==
    {Debit(Psp, gross, "gross"), Credit(Escrow, gross, "gross")}
    \cup Positive({Debit(Escrow, fee, "fee"), Credit(PlatformFees, fee, "fee")})

\* applyRefundLedger
RefundLines(amount) ==
    {Debit(Escrow, amount, "refund"), Credit(Psp, amount, "refund")}

\* applyChargebackLedger
ChargebackLines(v, amount) ==
    {Debit(VendorPayable(v), amount, "chargeback"), Credit(Psp, amount, "chargeback")}

\* applyPayoutReleaseLedger
PayoutReleaseLines(v, amount) ==
    {Debit(Escrow, amount, "payout"), Credit(VendorPayable(v), amount, "payout")}

TicketCaptureFeeToOrganizer(o, fee, share) ==
    {Debit(Psp, fee + share, "gross"), Credit(Escrow, fee + share, "gross"),
     Debit(Escrow, fee + share, "share"), Credit(OrganizerPayable(o), fee + share, "share")}

\* owanbe_apply_ticket_payment_capture
TicketCaptureLines(o, fee, share) ==
    {Debit(Psp, fee + share, "gross"), Credit(Escrow, fee + share, "gross")}
    \cup Positive({Debit(Escrow, fee, "fee"), Credit(PlatformFees, fee, "fee")})
    \cup Positive({Debit(Escrow, share, "share"), Credit(OrganizerPayable(o), share, "share")})

\* applyTicketRefundLedger
TicketRefundLines(o, refund, feeReversal) ==
    Positive({Debit(OrganizerPayable(o), refund, "refund"),
              Debit(PlatformFees, feeReversal, "reversal"),
              Credit(Psp, refund + feeReversal, "refund")})

\* applyOrganizerPayoutReleaseLedger
OrganizerReleaseLines(o, amount) ==
    {Debit(OrganizerPayable(o), amount, "payout"), Credit(PayoutClearing, amount, "payout")}

-----------------------------------------------------------------------------
(* Transactions: what ledger_transactions.reason says, and what the key is of. *)

Key(reason, of) == [reason |-> reason, of |-> of]
CaptureKey(p) == Key("payment_capture_quaser", p)
RefundKey(k) == Key("payment_refund", k)
ChargebackKey(p, ev) == Key("payment_chargeback", <<p, ev>>)
ReleaseKey(po) == Key("payout_escrow_release", po)
TicketCaptureKey(t) == Key("payment_capture_ticket", t)
TicketRefundKey(k) == Key("payment_refund_ticket", k)
OrganizerReleaseKey(q) == Key("payout_organizer_release", q)

Keys == {CaptureKey(p) : p \in Payments}
        \cup {RefundKey(k) : k \in RefundKeys}
        \cup {ChargebackKey(p, ev) : p \in Payments, ev \in ChargebackEvents}
        \cup {ReleaseKey(po) : po \in Payouts}
        \cup {TicketCaptureKey(t) : t \in TicketPayments}
        \cup {TicketRefundKey(k) : k \in Cases}
        \cup {OrganizerReleaseKey(q) : q \in OrganizerPayouts}

Posted(key) == ledger[key] # {}

PostAgain(key, lines) == [ledger EXCEPT ![key] = lines]

\* INSERT ... ON CONFLICT (tenant_id, idempotency_key) DO NOTHING, then lines
\* only under a header that has none.
Post(key, lines) == IF Posted(key) THEN ledger ELSE [ledger EXCEPT ![key] = lines]

-----------------------------------------------------------------------------
(* Sums, as the SELECTs of the services write them. *)

SumDirection(lines, direction) ==
    MapThenSumSet(LAMBDA l : l.amount, {l \in lines : l.direction = direction})

\* SUM(CASE WHEN direction = 'credit' THEN amount_minor ELSE -amount_minor END)
Net(lines) == SumDirection(lines, "credit") - SumDirection(lines, "debit")

LinesOf(lines, account) == {l \in lines : l.account = account}

NetFor(account, reasons) ==
    MapThenSumSet(LAMBDA k : Net(LinesOf(ledger[k], account)),
                  {k \in Keys : k.reason \in reasons})

Reasons == {k.reason : k \in Keys}
Balance(account) == NetFor(account, Reasons)
=============================================================================
