# Owanbe: a TLA+ verification project

Owanbe sells event services. A client books a vendor and pays; the money sits in
a pooled escrow; when the booking is completed staff release it to the vendor. A
second rail sells event tickets for organizers. All money moves through one
external payment router, Quaser, which answers through webhooks. The server is a
NestJS API (`src/services/api`) on PostgreSQL (`src/infra/db`); the mobile app is
a client of it and keeps no state that the server relies on.

The project models the money: what may be captured, refunded, charged back, held
and released, in which order, and what survives repeated or late webhooks,
concurrent requests, timers and crashes; the books kept of it, and what staff,
vendors and organizers are shown; and how a user comes to be a vendor who may be paid.

## Inventory

| Component | State | Operations | Talks to | What makes it correct |
|---|---|---|---|---|
| Booking payments `payments.service.ts` | `payments`, `bookings.status` | createPaymentForBooking | router, finance state | one intent per row, only for a payable booking |
| Quaser webhooks `quaser-webhook.service.ts`, SQL `005` | the above, `payment_events`, ledger | payment captured / failed, payout completed | everything with money in it | idempotent; no order of deliveries corrupts a row |
| Ledger `ledger.service.ts` | `ledger_transactions`, `ledger_lines` | one posting per kind | called inside the caller's transaction | one posting per key, equal to what the rows say |
| Refunds and chargebacks `financial-adjustments.service.ts` | `payments`, ledger | refundPayment, applyChargeback | ledger, bookings | never more than was captured; nothing under review |
| Manual review `manual-review.service.ts` | `payments.under_review` | approve, reject, escalate | refunds, finance state | review holds the money |
| Finance state `finance-state.service.ts` | one row: the freeze switch | setState, ensure…Allowed | payments, payouts, tickets | – |
| Timeout sweep `finance-timeout.service.ts` | – | runSweep, every FINANCE_TIMEOUT_SWEEP_MS | payments, payouts | what stays open is closed; nothing settled is touched |
| Reconciliation `reconciliation.service.ts` | jobs, reports, review flags | inline issue, consistency check, recovery | payments, ledger | flags exactly what disagrees |
| Vendor payouts `payout.service.ts`, SQL `002`, `010` | `payouts` | batch, enqueue, retry | router, finance state, disputes | one release per booking, of captured, undisputed money |
| Disputes `disputes.service.ts` | `disputes` | create, message, evidence, resolve | refunds, payouts | an open dispute holds the payout |
| Treasury dual write `qfe/*` | `treasury_settlements`, mirrored transactions | postSettlementJournal, parity check | ledger, webhook | both books equal, or the settlement is flagged |
| Ticket orders and tiers `commerce/ticket-orders`, `events/event-tiers` | tiers' remaining, orders | createOrder, tier edits | ticket payments | never oversold |
| Ticket payments, capture, entitlements | `ticket_payments`, entitlements | createPayment, applyCapture, check-in | webhook, ledger | paid once, one set of entitlements, each used once |
| Ticket refunds | cases, `ticket_payments` | createCase, adminAction | ledger | refunds fit what was paid |
| Organizer payouts | `organizer_payouts` | requestPayout, enqueue, complete | router, webhook, ledger | one payout per order |
| Vendor and organizer finance, exports, dashboards | – | reports; a vendor's payout request | reads all of the above | figures from rows and figures from the ledger agree; a mismatch is never silent |
| Roles, guards `roles.service.ts`, `roles.guard.ts`, `vendor-access.service.ts` | `users`, `user_roles`, a cache per instance | loadPrincipal, the guards, invalidate | every request | nobody acts with roles they did not hold |
| Vendor onboarding and its review `onboarding`, `admin-onboarding`, `vendors`, SQL `003`, `004` | `vendors`, `vendor_applications`, business profiles | create, apply, save, submit, approve, reject, setStatus | roles, transition trigger | only approved vendors act; who is pending can be reviewed |
| Vendor participation | participations | apply, accept, reject | – | – |
| Events, platform admin, super admin, compliance, notifications, storage, health | their own tables | CRUD, output | – | – |

### What is hard here

* Webhooks arrive twice, late, or in another order than the events they report.
* A handler awaits the router, or another service, between two of its statements;
  what it read before may be stale after. The database helps with row locks,
  partial unique indexes and triggers, in some places and not in others.
* A router call can fail for the caller and still have been accepted.
* The process can die between two statements that are not in one transaction.
* A timer closes what looks abandoned, racing the webhook that is on its way.
* Idempotency keys come from clients or from amounts and reasons, so two different
  requests can share one.
* Every API instance caches the roles of users; no instance is told of a change.
* The treasury mirror is switched by a flag: one settlement can be posted by one build,
  mirrored by another and completed by a third.
* The same money is reported by a dozen queries, some over rows, some over the ledger.

`PROJECT.json` lists each of these at its line under `hazards`.

## Modules

| Module | Models |
|---|---|
| `BookingPayments` | the booking rail from the payment intent to the escrow, with refunds, chargebacks, review, the payment half of the sweep, the consistency check and the freeze |
| `Custody` | abstract: what that rail promises about a client's money |
| `BookingPaymentsProofs` | theorems about `BookingPayments` and that it implements `Custody` |
| `Disputes` | the status of a dispute (extended by the next) |
| `VendorPayouts` | the booking rail after the escrow: batches, the enqueue with every await a step, payout webhooks, the payout half of the sweep, dispute resolution |
| `VendorPayoutsProofs` | theorems about `VendorPayouts` |
| `TicketCommerce` | the ticket rail from the tier to the gate: tier edits, orders, payments, captures, tickets, check-in |
| `TicketCommerceProofs` | theorems about `TicketCommerce` |
| `TicketRefunds` | the refund cases of ticket orders and the staff who decide on them (extended by the next) |
| `OrganizerPayouts` | the ticket rail after the capture: the balance in its three queries, the loop of a payout request with every await a step, the completion, beside the refund cases of the same orders |
| `OrganizerPayoutsProofs` | theorems about the two |
| `Ledger` | accounts, double-entry lines, idempotent postings and sums: every posting of both rails |
| `Treasury` | the settlement of a vendor payout with its mirror (extends `Ledger`) |
| `Journal` | abstract: what the ledger promises, whoever posts to it (extends `Ledger`) |
| `EscrowBooks` | both rails on that ledger, with the treasury, reconciliation and redeploys (extends `Treasury` and `Journal`, which it implements) |
| `FinanceReports` | what staff, vendors and organizers are shown of it, as operators (extends `EscrowBooks`) |
| `SumTheorems` | lemmas about the totals of finite tables, for the next two and for `BookingPaymentsProofs` |
| `EscrowBooksProofs` | theorems about `EscrowBooks` and `Treasury`, every transaction of the ledger, and that `EscrowBooks` implements `Journal` |
| `FinanceReportsProofs` | theorems about `FinanceReports` and the trial balance |
| `Principals` | who a request acts as: roles, their version, the caches, the guards |
| `VendorOnboarding` | from a user to a vendor, and the review (extends `Principals`) |
| `VendorOnboardingProofs` | theorems about the two |
| `MCBookingPayments`, `MCVendorPayouts`, `MCTicketCommerce`, `MCOrganizerPayouts`, `MCEscrowBooks`, `MCVendorOnboarding` | the constants of the runs |

### BookingPayments

`status`, `refunded`, `underReview` and `booking` are columns of `payments` and
`bookings`; `ledger` is a set of postings, one per idempotency key. A database
transaction is one action, because every one of them locks its payment row first
(`FOR UPDATE`); what the code does in separate statements or outside the
transaction is a separate action: the freeze check before the payment
transaction (`admitted` is the request in between), the second statements of
`rejectPayment` and `escalatePayment` (`pending`). `events` is what the router
ever reported. It is never emptied, so each report can be delivered any number of
times, in any order, or never. `issues` and `thrown` are evidence for one property
and are read by no action.

Abstractions: the double-entry legs of a posting are one amount; the client's
idempotency key of a payment and the event ids of webhooks only ever make a
request a no-op, which is a stuttering step; the server-to-server verification
of a capture may refuse any delivery, which is a delivery that does not happen;
a report without an amount is compared with nothing and counts as a full capture. A
caller's refund key is none of those the code builds for captures, payouts and
chargebacks: in the database they share one namespace, unique by tenant, and
`applyRefundLedger` takes the caller's as it is; here, and in `Ledger`, each kind is apart.
The booking's later life (completed, cancelled) is not written by these services
and is external.

### VendorPayouts

A `Caller` is one request handler: `at` says which await it stands at, `queue` the
rows of its batch it still has to do, `payout` the row it inserted. It may be
overtaken by anything between two steps, and `Crash` ends all of them. `Eligible`
is the query of `findEligiblePayouts`; `Raises` is what the trigger of SQL `010`
and the in-flight index of SQL `002` refuse. `MarkProcessing` and `MarkFailed` are
the two `UPDATE … WHERE id = $1`, which look at no status. `released` holds the
payouts with a ledger posting `payout_release:<id>`: posting it twice is posting
it once. How a payment was captured does not matter here, so payments start
captured and can be refunded and flagged; `RefundPayment` is the effect that
`BookingPayments!RefundPayment` has on the two statuses.

`HandlePayoutCompleted` has the two commits of the payout webhook. What they depend on,
the dual write, its copy and the parity check, is in `Treasury`; here it is the choice
`agrees`. If the settlement agrees, the UPDATE to completed follows, and
`CompletionRaises`, the dispute trigger and the completed index of SQL `010`, may undo the
whole transaction, release included. If it disagrees, the release is committed with a
report of it (`mismatches`) and there is no UPDATE, so neither is asked: escrow
can be released while the booking is disputed, or already paid out, with the payout
left in flight. `docs/sprint-s5-treasury-dual-write.md` says in §4 that a mismatch commits
the evidence (its test plan, line 96, says rollback), so `ReleasesAreGuarded` says what does hold: over a
dispute or a completed payout only a reported mismatch releases, and it completes nothing.
A repeated delivery that disagrees again changes nothing more; one that agrees, of
another build, completes the payout.

`retryFailedPayout` is no action. `FailedIsHeld` says why: its SELECT asks for a
failed payout that is not under review, and there never is one. `requestPayout` of
the vendor finance service is no action either: it needs a positive balance of
`vendor_payable` lines, which no capture posts (`FinanceReports`, run `EarningsReported`).

### TicketCommerce

A unit is one reserved ticket of an order line, a ticket (a row of
`ticket_entitlements`) is a unit issued by the capture of a payment. `tiers`,
`paused`, `capacity` and `remaining` are the rows of `event_ticket_tiers`; `order`
and `payment` the statuses of the order and of its payments, of which it may have
many. `CreateOrder` is one action because it locks every tier before it reads it,
`ApplyCapture` because it locks its payment and order. Removing a tier is two steps,
`ReadUnsold` and `RemoveTier`, because the numbers are read in one statement and the
row is deleted by another; an edited number that is not sent stays what it is then
(`COALESCE`), so a patch is one step. `CreatePaymentRolledBack` is a router that
answered with an error, or a commit that failed, after the intent was accepted: the
row is gone, its captures find nothing. `edited` and `admitted` are evidence for
properties and are read by no action.

`CheckIn` takes two choices. `checkIn` sends BEGIN, its statements and COMMIT or
ROLLBACK through the pool, and each may run on another connection, so whether the
UPDATE is kept (`kept`) does not depend on whether the caller is told so (`ok`).

Abstractions: items of one tier in a request are added up, as the code does by
updating row by row; the freeze, a closed event, the router's verification and a
client's idempotency key only refuse or repeat a request, which is a step that is
not taken; the stub router's automatic capture is a capture like any other; the
order status `confirmed` is overwritten with `fulfilled` in the same transaction. No
code sets a ticket payment to failed or puts it under review unless it is captured
without a posting, which `FulfilledIsPaid` excludes, so neither is modelled. The
rows of `event_check_ins` and the event feed are output.

### TicketRefunds and OrganizerPayouts

`adminAction` reads a case, decides (`NextStatus`), writes its decision with an UPDATE
that looks at no status, and posts the refund in a transaction of its own: `Decide`,
`WriteDecision` and `PostRefundLedger`, between which other staff act (`staff` is where
each request is). The posting is where the request ends. The statement after it sets
`updated_at` of `ticket_entitlements`, a column no migration adds, so it fails every
time: the case is completed and posted, the caller is told 500, and the tickets stay as
they are. `refunded` is the set of postings `ticket_refund:<id>`.

`requestPayout` reads the balance in three queries (`RequestPayout`,
`ReadPendingPayout`, `ReadHeld`), lists the orders (`FindEligibleOrders`), then takes
them one by one: `SkipOrder`, or `InsertPayout`, the router's answer, and
`MarkProcessing` or `MarkFailed`. `request` says where a request stands, what is left to
allocate (`want`) and which orders it still has (`queue`); `balance` what it has added
up so far. Nothing is locked and nothing is read again. `payoutOf` is the order
of a row; `released` the postings `organizer_payout_release:<id>`.

`TicketCommerce` and this module meet in the order: `ApplyCapture` is the effect of
`TicketCommerce!ApplyCapture` on what is read here. Every capture of another payment of
the order credits the organizer again and puts the release date ahead again
(`cooling` is `escrow_release_not_before` in the future). An order that is fulfilled
stays so: no action of `TicketCommerce` takes it out again.

Abstractions: `LIMIT` and `ORDER BY` leave any non-empty part of the eligible orders; the
freeze, a missing webhook address and an amount that cannot be composed of orders
end a request, which `PayoutRequestDies` may do at any step; the fee leg of a
capture is left out of the balance, which is kept in units of subtotals; the stub
router completes a transfer as a webhook would.

### Ledger, Treasury, EscrowBooks

`ledger` maps an idempotency key to the lines of its transaction; `{}` is one that was
never posted, so `Post` is `ON CONFLICT DO NOTHING`. The other modules keep a posting
as one amount; here every leg is a line with its account, direction, amount and memo
(`CaptureLines`, `RefundLines`, …), and `Net` and `Balance` are the sums of the SELECTs.

`PostSettlementJournal` is `coordinateTreasurySettlement`: the settlement row, the
journal, and with `QFE_DUAL_WRITE_TREASURY` on the copy and the parity check. A mismatch
is committed with its report while the payout stays in flight. `deploy` is the running
build: the flag off, on, or on with a writer that copies wrongly (`Copies`, external: the
repository's own description of a bad deploy); `Redeploy` changes it at any time.

`EscrowBooks` has one action per SQL transaction of both rails. What leads up to one of
them is in the other modules; of what a request read before, an action here keeps only
what nothing takes back, so it allows every order they allow. `MarkProcessing`,
`MarkFailed` and the webhook still race (`asking`). `RunConsistencyCheck` takes the rows
of its period one at a time, because no row changes what another is flagged for.

`Journal` looks at `ledger` only. `PostTransaction` writes one transaction that was not
there before, whose lines balance and take from `Payers` and give to `Payees` of the row
its key names: a capture, refund or payout of one row cannot reach the account of another
row's vendor or organizer. To it a repeated webhook, a key used again, a mirrored
settlement and whatever posts nothing are stuttering. Which rows may be
posted, and when, is what `EscrowBooks` adds.

Abstractions: one currency and one tenant; a booking is its payment;
the release of an organizer's payout is the whole subtotal of its order.

### FinanceReports

Each operator is a SELECT, or the figures a service makes of one: balances, dashboard
totals, alerts, lists, timelines, exports, drill-downs and the health of the platform.
They are composed with nothing but the state of `EscrowBooks`, so an invariant over them
says what a reader sees at any moment. Rows and clocks that are not there are parameters
(a dispute's claim, what is still held for an event, an organizer's pending payouts).
`RequestPayoutAnswer` is `requestPayout` up to its enqueue.

### Principals and VendorOnboarding

A `request` is one call of `loadPrincipal` and what comes after it in the same HTTP
request: it reads version and status, looks into the `cache` of its instance, reads the
roles, and writes the cache under the version it read first, each a step. Any row of
`user_roles` that is inserted or deleted raises `version` (the trigger); so does a
status change. `seen` is evidence for `LoadedRolesWereHeld` and is read by no action.

`acting` is a request that the ownership check has let through, `editing` the
applications that a profile update has found editable, `rejecting` those that a
rejection has found open: all three are looks without a lock, and what they found may be
acted on at any later time. `Approve`, `Submit` and `CreateApplication` are one action
each because they are one transaction on a row they update under a guard or insert under
a unique index. `TriggerLetsReject` is what the transition trigger of SQL `004` leaves of
the late rejection.

Abstractions: banned and deleted act as suspended; staff are admitted by roles that
nothing here changes; the members of a vendor (`vendor_users`), whom the ownership check
also admits, are left out, because no code writes that table; documents, notes and audit rows are not kept; an entry that is too
old is one that is not there (`Forget`). The version is bounded by `MaxVersion` for the
status changes of operators only; role changes are few by themselves.

## Runs

| Run | Instance | Shows |
|---|---|---|
| `BookingPayments` | 1 booking, 2 payments, total 2, 1 refund key, 1 chargeback; fair; 514,504 states | types, ledger = status, nothing confirmed without a full capture report, refunds backed, statuses only advance, under review only chargebacks reach the ledger, implements `Custody`, open payments close |
| `VendorPayouts` | 1 booking, 1 payment, 2 payout rows, 1 dispute, 2 callers; settlements that agree or not; fair; 542,704 states | one handler per row, at most one payout in flight and one completed per booking, completed is released, failed is held, what is released over a dispute or a second time is a reported mismatch, disputes hold payouts, processing settles |
| `TicketCommerce` | 1 tier, capacity 2, orders of up to 2, 2 orders, 2 payments of the first, 1 scanner | types and CHECKs, the inventory adds up, fulfilled is paid and posted, one ticket per unit, admitted is paid |
| `OrganizerPayouts` | 2 orders of 2 and 1, 1 refund case, 2 staff, 2 payout rows, 1 payout request of up to 3; symmetric | one request per row, releases backed by transfer and capture, failed stays failed, refunds approved and completed in turn, a settled case stays settled |
| `ConfirmedIsFunded` | 1 payment | **violated**: a late capture of a failed payment confirms an unpaid booking |
| `InconsistencyRecorded` | 1 payment | **violated**: the record of an inconsistent capture is refused by a CHECK and rolls the capture back |
| `RefundsReversed` | 1 payment, 2 keys | **violated**: a reused refund key raises the row's total without a posting |
| `ReleasedOnce` | 1 booking, 2 payout rows, 1 caller | **violated**: a completed payout is overwritten to failed and its booking released again |
| `OrderPaidOutOnce` | 1 order, 2 payout requests | **violated**: two requests that overlap pay one order out twice |
| `EscrowBooks` | 1 booking payment of 2, 2 payout rows, 1 refund key, 1 chargeback, 1 ticket payment of 4, 1 case of 1, 1 organizer payout; three builds; symmetric; 178,206 states | types, reconciled is mirrored, completed is settled, only refunded payments are flagged, the escrow covers what nobody was paid or refunded, a mismatch is shown, reports agree, implements `Journal` |
| `VendorOnboarding` | 1 user, 1 instance, 2 requests, 1 vendor, 2 applications, 2 status changes; 1,168,203 states | types, caches agree, loaded roles were held, only approved vendors act, who is pending can be reviewed, by a profile that is there |
| `EarningsReported` | as `EscrowBooks` | **violated**: a vendor whose booking was captured is shown no earnings |

The six violations are disagreements between the code and its own documentation
or comments; `findings` quotes both.

Bounds. Two payments of one booking are what two payments can share: the booking
row, the review of its siblings and a refund key. Payments of different bookings
share only the freeze and the refund keys, and the theorems cover any number of
both. A total of 2 is the least at which a refund can be partial and a second one
can complete or exceed it. Two callers and two payout rows give every pair of
handlers on a booking a row each and a retry after a failure; the third row a
booking could get meets the same rows in the same states. One tier with two orders is what
can oversell, two payments of one order what can issue its tickets twice; capacities
and quantities of 2 leave a part of a tier or exhaust it, in one order or in two. No
property relates two gates, so one is enough. Orders of 2 and of 1 make a request that
fits both, one, or none of them, so the loop skips, stops and runs out; two staff are
two decisions on one case that overtake each other, and a third would stand where one of
them stands. `OrganizerPayouts` has one payout request: what two do to the
same order is the violation run's, and that rows of different requests stay apart is proved
for any number. `EscrowBooks` needs the second payout row for a retry after a mismatch;
rows of one payment share nothing with rows of another but the accounts, which only add
up. Its amounts are the least at which fee, subtotal and part of a subtotal differ in
effect, and the case refunds half its order and so half its fee. Two requests of one
user are a reader of the cache and whoever changes the roles under it; a second instance
shares nothing with the first but the version, which `Forget` stands for (an empty cache
that fills from the same rows), and `CachesAgree` is proved for any number. Two
applications are one that was decided and the next. Symmetry is used in
`OrganizerPayouts` over staff, rows and requests, and in `EscrowBooks` over the two payout
rows of one payment, which no definition tells apart, and over no liveness property. `MaxVersion` bounds the status
changes of operators in `VendorOnboarding`. Nothing else is bounded:
all counters are bounded by the totals, and no state constraint is used.
`CHECK_DEADLOCK FALSE` because all rails really stop: all rows used and settled.

Fairness. Only `BookingPayments` and `VendorPayouts` state any, for one thing, the
sweep: `setInterval` runs it for the life of the process, and a row only gets older, so a
row that stays sweepable is swept. Request handlers that have started, clients, staff, the
router and webhooks are never assumed to do anything.

Every passing property has a mutant in `PROJECT.json`: a definition nothing uses,
placed before the one it is a faulty variant of, with which TLC must find the
property violated.

## Proofs

`BookingPaymentsProofs` proves, for every set of bookings, payments and keys and
every total and fee, from the assumptions in `BookingPayments` only
(`BookingOf`, `Total` and `Fee` have their types):

* `TypeCorrect`: `TypeOK`, which contains `payments_refund_lte_capture`.
* `CaptureLedgerCorrect`: `CaptureLedgerExact`. Inductive together with `TypeOK`:
  the only step to a captured status posts the capture, under a key nobody else
  uses, and no step leaves the captured statuses.
* `ConfirmedIsCollectedCorrect`: needs the strengthening `CollectedInv`, that a
  captured payment has a full capture report: a booking becomes refunded through
  the payment, not through the report.
* `NoStatusRevivalCorrect`, `ReviewHoldsMoneyCorrect`: action properties of a step
  from a typed state.
* `RefundsBackedCorrect`: `RefundsBacked`, with `BackedInv`, that the ledger is finite. A
  refund adds to the row what it adds to the ledger, or more, when its key was used.
* `CustodyRefinement`: captures map to `Take`, refunds to `GiveBack`, everything else
  to stuttering.

`VendorPayoutsProofs` proves, for every set of bookings, payments, payouts, disputes
and handlers, from the typing of `BookingOf` and `Disputed` and three null values:

* `TypeCorrect` and `RowsAreOwnedCorrect`, inductive together: `TypeOK` alone is not
  (a handler could write the status of a row that does not exist), `RowsAreOwned`
  says which row a handler holds.
* `FailedIsHeldCorrect` needs `RowsAreOwned`: `MarkProcessing` looks at no status, so
  without it a failed row could become processing and stay under review.
* `CompletedIsReleasedCorrect`; `OnePayoutPerBookingCorrect`, which splits into the two
  unique indexes (`Exclusive`).
* `ReleasesAreGuardedCorrect` and `DisputesHoldPayoutsCorrect`: action properties. The
  first holds of every step by itself: the only step that releases has asked for the transfer
  and the payment, and either passes the trigger and the index or reports a mismatch and
  leaves the payout. The second needs the types.

`RowSteps` lists the five kinds of step that write a payout row, `CallerSteps` what a step
can do to a handler; the other lemmas only treat those.

`TicketCommerceProofs` proves all five invariants of its run, for every set of tiers,
orders, payments and gates, from the typing of `OrderOf` and of the two bounds and
one null value:

* `TypeCorrect`: `TypeOK`, inductive by itself.
* `InventoryExactCorrect`: needs `UnitsAreOrdered`. An order adds to what is sold of a
  tier a set of `quantity[t]` units; that the set is disjoint from the others follows
  because their orders exist and the new one does not yet, that the cardinalities add
  up because what is sold is finite. The orders need not be finitely many.
* `FulfilledIsPaidCorrect`, `OneTicketPerUnitCorrect`, `AdmittedIsPaidCorrect`: one induction
  (`Paid`, with `Asked`: a payment that has a row was asked for, so no row is started
  twice). They hold each other up: a repeated capture looks at its payment and
  must find the order fulfilled, a captured payment makes the tickets of its order
  paid (`TicketsArePaid`), and no order gets new units once it exists.

`OrganizerPayoutsProofs` proves all properties of its run, for every set of orders,
cases, staff, rows and requests, and any amounts:

* `TypeCorrect` and `RowsAreOwnedCorrect`, inductive together. What a request has left is
  a natural number only because the order in hand fits it, and it fits because the row's
  order never changes.
* `ReleasesAreBackedCorrect` needs that the orders a request has listed, and those rows are
  for, are fulfilled (`ListedIsFulfilled`), and the ownership of rows: a webhook
  may complete a row whose request has not yet written processing.
* `RefundsApprovedTwiceCorrect` needs `CompletionsAreApproved`: a request that is about to
  write or to post a completion has read a case that was approved before.
* `FailedIsFinalCorrect` and `SettledIsFinalCorrect`: action properties. The first needs that
  a row in hand is not failed.

A request reads its balance in three steps between which the rows change, so it is the
balance of no moment, and no theorem says what it is.

`SumTheorems` is what the proofs about money rest on. The sums of the SELECTs are folds in
an order that CHOOSE picks; the lemmas say that the total of a finite set is that of the
set without any one element, plus that element, and from it that totals add, split, are
counted under other names, are grouped, and are the same by rows and by columns. The
library's induction theorems take an operator and cannot be instantiated here, so the
induction over sets (`SubsetInduction`, `OneMoreInduction`) is that among the sets a claim
fails for there is a least one: the strict subset order of a finite set is well founded.

`EscrowBooksProofs` proves, for all rows, owners, keys and amounts, from the typing of the
constants and from `TablesAssumption`, that the tables are finite:

* `TypeCorrect`: every line is one of `Lines`; the fee reversal is a natural number, which
  needs its division not to be by zero.
* `ReconciledIsMirrored` and `CompletedPayoutsAreReleased`, inductive together with
  `CapturesArePosted` and `SettlementsArePosted`: a posted settlement has its release in the
  ledger, and a release is never posted twice, so what a later build compares with is what
  the earlier one wrote.
* `ComparisonFindsRefunds` follows from the same invariant.
* `LedgerIsExact`: what the ledger holds under every key, from the rows (`Postings`), and that
  it refunds no more than the rows say (`RefundsCovered`). Inductive, as `Book`, with the
  invariant above and with `SettlementsReported`, that what is settled is a payout there is
  and no mismatch goes without its report.
* `PostingsBalanceCorrect`: follows from `Postings`. The lines of a transaction are a set, and
  the code leaves lines of 0 out; that two lines never become one and that a missing
  one has no effect are the lemmas that end in `Effects` and `Moves`.
* `JournalRefinement`: that every step posts at most one transaction is `StepIsOneTransaction`;
  what it is follows from `Book` after the step, so no handler's lines are looked at twice.

`UnwatchedPosting` says once what a posting of any other kind leaves alone; `KeysDiffer`
is why. `PostingsKept` is its counterpart for `Book`.

`FinanceReportsProofs` proves the invariants over the reports from `Inv` and `Book`, without
another induction over steps:

* `EscrowCoveredCorrect`, `TrialBalance`: the keys of the ledger fall into seven families
  (`FamilyTotals`), so a balance is a sum over rows of each kind. All accounts together are 0
  because a table of accounts and transactions has the same total both ways.
* `ReportsAgreeCorrect`: from the three theorems on what organizers, vendors and staff are
  shown. One report groups by owner, another by row, a third by key; the chargebacks of a
  payment are found under as many keys as there were notices.
* `MismatchIsShownCorrect`: the open settlement is itself in what is counted.

`VendorOnboardingProofs` proves all five invariants of its run, for any number of users,
instances, requests, vendors and applications:

* `CachesAgree` needs `Labels`: whatever carries a label, in a cache or in a request that has
  fetched roles, has a version no later than the user's, and the current roles if it is the
  current one. A request reads the version first, so roles that change after make its label
  old, and `BumpRises` shows that a change always does.
* `RolesWereHeld` needs `Sightings`: what is cached under the version a request has read was
  held when it read it.
* `OnlyApprovedVendorsAct` needs `Earned`: whoever holds the role of a vendor, or held it while a
  request was reading, has an approved application; that stays so because approved is final in the trigger.
* `PendingCanBeReviewed`: inductive with the types and with `ReviewsSeeABusiness`, that no
  application is submitted or approved without a profile, which it strengthens.

So every invariant, action property and refinement that a passing run checks is a theorem.
Only model-checked are the liveness properties `OpenPaymentsClose` and `ProcessingSettles`
(fairness and ENABLED are beyond the prover) and the six violations.

## Not modelled

* Vendor participation in events: one row per vendor and event, written by single
  statements and read by nothing else. Its transition rule is under `hazards`.
* Roles, guards and ownership checks of the money rails: refusals. Those models let every
  request through, so every property holds without them; how the principal itself is
  loaded is in `Principals`.
* Of the reports: paging, labels, dates, the CSV, the views of one row, tenant drill-downs,
  counts of users and events.
* Events, incidents, feeds, tenant settings, feature flags, compliance, security events:
  rows written by single statements that nothing modelled reads.
* Webhook signatures, alerts, audit rows, notifications, storage, metadata columns: output.
* The mobile app is a client; the models take any request at any time. Scripts, examples
  and the OpenAPI files are not part of the running system.

## Plan

1. Done: `BookingPayments` with `Custody` and its proofs, `VendorPayouts` with `Disputes`.
2. Done: `TicketCommerce`; `TicketRefunds` and `OrganizerPayouts`, composed on the order they
   compete for; their proofs.
3. Done: `Ledger`, `Treasury` and `EscrowBooks`, which compose both rails on their books, with
   their proofs; `Journal`, the abstract ledger; `FinanceReports` over them, with its proofs.
4. Done: `Principals` and `VendorOnboarding`, with their proofs.
5. Open: that the books `BookingPayments` and `TicketCommerce` keep of one row are those
   `EscrowBooks` keeps of it; several tenants and currencies; participation, should anything
   come to depend on it.
