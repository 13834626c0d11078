------------------------------- MODULE Treasury -------------------------------
(***************************************************************************)
(* The settlement of a vendor payout (services/api/src/modules/qfe): the   *)
(* release posting in the ledger, its row in treasury_settlements and,     *)
(* when the dual write is on, its copy among                               *)
(* financial_transaction_postings.  All of it runs inside the transaction  *)
(* of the payout webhook, which commits also when the copy disagrees.      *)
(*                                                                         *)
(* A settlement is "pending" only inside that transaction.                 *)
(*                                                                         *)
(* A definition that is used nowhere is a faulty variant of the one that   *)
(* follows it: the slip that a property has to notice.                     *)
(***************************************************************************)
EXTENDS Ledger

VARIABLES settlement,   \* treasury_settlements.status, "none" without a row
          postings,     \* financial_transaction_postings of a payout
          reports,      \* open rows of reconciliation_reports
          deploy        \* the running build: QFE_DUAL_WRITE_TREASURY off or on,
                        \* or on with a writer that does not copy faithfully

treasury == <<ledger, settlement, postings, reports>>

SettlementStates == {"none", "mismatch", "journal_posted", "reconciled"}
Deploys == {"off", "on", "bad"}
DualWrite == deploy # "off"

Issue(kind, of) == [kind |-> kind, of |-> of]
Issues == {Issue("amount_mismatch", po) : po \in Payouts}
          \cup {Issue("status_mismatch", po) : po \in Payouts}
          \cup {Issue(kind, p) : kind \in {"ledger_only_transaction", "psp_only_transaction"},
                                 p \in Payments \cup TicketPayments}

-----------------------------------------------------------------------------

\* What docs/sprint-s5-treasury-dual-write.md calls a bad dual-write deploy
\* (external): it loses the credit lines, or writes them all to one account.
Copies(entries) ==
    IF deploy # "bad" THEN {entries}
    ELSE {{l \in entries : l.direction = "debit"},
          {[l EXCEPT !.account = Escrow] : l \in entries}}

\* writeTreasurySettlementFinancial: postings only under a header with none.
WriteTreasurySettlementFinancial(po, copy) ==
    IF postings[po] = {} THEN copy ELSE postings[po]

ParityUnchecked(entries, posted) == TRUE

\* assertPostingParity compares totals, not accounts.
Parity(entries, posted) ==
    /\ SumDirection(entries, "debit") = SumDirection(posted, "debit")
    /\ SumDirection(entries, "credit") = SumDirection(posted, "credit")
    /\ SumDirection(entries, "debit") = SumDirection(entries, "credit")

MismatchUnrecorded(po) == reports

\* recordTreasuryMismatch; a second report of the same payout adds nothing here.
RecordTreasuryMismatch(po) == reports \cup {Issue("amount_mismatch", po)}

-----------------------------------------------------------------------------
(* postSettlementJournal, through coordinateTreasurySettlement *)

AlreadyPosted(po) == settlement[po] \in {"journal_posted", "reconciled"}

\* writePayoutReleaseJournal: the entries are the lines the ledger has after it.
Entries(po, v, amount) == Post(ReleaseKey(po), PayoutReleaseLines(v, amount))[ReleaseKey(po)]

\* Whether postSettlementJournal returns with copy as what the writer copies,
\* instead of throwing QFE_TREASURY_DUAL_WRITE_MISMATCH.
Settles(po, v, amount, copy) ==
    \/ AlreadyPosted(po)
    \/ ~DualWrite
    \/ Parity(Entries(po, v, amount), WriteTreasurySettlementFinancial(po, copy))

SettlementStatus(po, v, amount, copy) ==
    IF ~Settles(po, v, amount, copy) THEN "mismatch"
    ELSE IF DualWrite THEN "reconciled" ELSE "journal_posted"

PostSettlementJournal(po, v, amount, copy) ==
    IF AlreadyPosted(po)
    THEN UNCHANGED treasury
    ELSE /\ ledger' = Post(ReleaseKey(po), PayoutReleaseLines(v, amount))
         /\ settlement' =
                [settlement EXCEPT ![po] = SettlementStatus(po, v, amount, copy)]
         /\ postings' = IF DualWrite
                        THEN [postings EXCEPT ![po] = WriteTreasurySettlementFinancial(po, copy)]
                        ELSE postings
         /\ reports' = IF Settles(po, v, amount, copy)
                       THEN reports ELSE RecordTreasuryMismatch(po)

\* A restart with another build or another value of the flag.
Redeploy(build) ==
    /\ deploy' = build
    /\ UNCHANGED treasury

-----------------------------------------------------------------------------
(* Properties *)

\* A settlement is reconciled only when the mirrored postings add up to the
\* release in the ledger, whichever builds wrote which of them, and how often
\* the webhook was repeated between.
SettledIsMirrored ==
    \A po \in Payouts : settlement[po] = "reconciled" =>
        /\ Posted(ReleaseKey(po))
        /\ SumDirection(postings[po], "debit") = SumDirection(ledger[ReleaseKey(po)], "debit")
        /\ SumDirection(postings[po], "credit") = SumDirection(ledger[ReleaseKey(po)], "credit")
=============================================================================
