--------------------------- MODULE OrganizerPayouts ---------------------------
(***************************************************************************)
(* The ticket rail after the capture: an organizer asks for an amount, the *)
(* request reads the balance in three queries, lists the orders that can   *)
(* be paid out and makes one row of organizer_payouts and one router call  *)
(* for each that fits; webhooks complete the rows.  Refund cases of the    *)
(* same orders go on meanwhile.  One organizer; the sweep does not look at *)
(* these rows, and no index keeps two of an order apart.                   *)
(*                                                                         *)
(* The freeze, a missing webhook address and an amount that cannot be      *)
(* composed end a request: PayoutRequestDies.                              *)
(*                                                                         *)
(* A definition that is used nowhere is a faulty variant of the one that   *)
(* follows it: the slip that a property has to notice.                     *)
(***************************************************************************)
EXTENDS TicketRefunds, Integers, FiniteSetsExt

CONSTANTS Payouts, Requests, MaxRequest, NoOrder, NoPayout

ASSUME MaxRequestAssumption == MaxRequest \in Nat
ASSUME NullAssumption == NoOrder \notin Orders /\ NoPayout \notin Payouts

VARIABLES cooling,       \* orders whose escrow_release_not_before is ahead
          payout,        \* organizer_payouts.status, "none" without a row
          payoutOf,      \* organizer_payouts.ticket_order_id
          payoutReview,  \* rows with under_review = TRUE
          released,      \* rows with a ledger transaction organizer_payout_release:<id>
          transfers,     \* rows the router accepted a transfer for
          request,       \* where each payout request is
          balance        \* what each request has added up of the balance

orders == <<captures, cooling>>
rows == <<payout, payoutOf, payoutReview, released>>
vars == <<orders, refundVars, rows, transfers, request, balance>>

PayoutStates == {"none", "pending", "processing", "completed", "failed"}
InFlight == {"pending", "processing"}
Stages == {"idle", "pending", "held", "list", "rows", "asking", "accepted", "refused"}
Holding == {"asking", "accepted", "refused"}    \* stages with a row in hand
RequestStates == [at : Stages, want : Nat, queue : SUBSET Orders, payout : Payouts \cup {NoPayout}]

Idle == [at |-> "idle", want |-> 0, queue |-> {}, payout |-> NoPayout]
At(r, stage) == request' = [request EXCEPT ![r].at = stage]

-----------------------------------------------------------------------------
(* getOrganizerBalance *)

SubtotalsOf(S) == MapThenSumSet(LAMBDA o : Subtotal[o], S)

NetOrganizerPayable ==
    MapThenSumSet(LAMBDA o : captures[o] * Subtotal[o], Orders)
    - MapThenSumSet(LAMBDA k : Amount[k], refunded)
    - MapThenSumSet(LAMBDA po : Subtotal[payoutOf[po]], released)

PendingPayout ==
    MapThenSumSet(LAMBDA po : Subtotal[payoutOf[po]], {po \in Payouts : payout[po] \in InFlight})

Held == SubtotalsOf({o \in cooling : Fulfilled(o)})

RequestPayout(r, amount) ==
    /\ request[r] = Idle
    /\ balance' = [balance EXCEPT ![r] = NetOrganizerPayable]
    /\ request' = [request EXCEPT ![r].at = "pending", ![r].want = amount]
    /\ UNCHANGED <<orders, refundVars, rows, transfers>>

ReadPendingPayout(r) ==
    /\ request[r].at = "pending"
    /\ balance' = [balance EXCEPT ![r] = @ - PendingPayout]
    /\ At(r, "held")
    /\ UNCHANGED <<orders, refundVars, rows, transfers>>

ReadHeld(r) ==
    /\ request[r].at = "held"
    /\ balance' = [balance EXCEPT ![r] = 0]
    /\ IF request[r].want <= balance[r] - Held
       THEN At(r, "list")
       ELSE request' = [request EXCEPT ![r] = Idle]
    /\ UNCHANGED <<orders, refundVars, rows, transfers>>

-----------------------------------------------------------------------------
(* findEligibleOrders and the loop over what it returns *)

PaidOut(o) ==
    \E po \in Payouts : payoutOf[po] = o /\ payout[po] \in InFlight \cup {"completed"}

Eligible(o) == Fulfilled(o) /\ ~HasOpenCase(o) /\ ~PaidOut(o) /\ o \notin cooling

\* The limit leaves any part of the eligible orders.
FindEligibleOrders(r, queue) ==
    /\ request[r].at = "list"
    /\ queue # {} /\ \A o \in queue : Eligible(o)
    /\ request' = [request EXCEPT ![r].at = "rows", ![r].queue = queue]
    /\ UNCHANGED <<orders, refundVars, rows, transfers, balance>>

Continue(r, want) ==
    request' = [request EXCEPT ![r] =
        IF want = 0 \/ @.queue = {} THEN Idle
        ELSE [@ EXCEPT !.at = "rows", !.want = want, !.payout = NoPayout]]

SkipOrder(r, o) ==
    /\ request[r].at = "rows" /\ o \in request[r].queue
    /\ Subtotal[o] > request[r].want
    /\ request' = [request EXCEPT ![r].queue = @ \ {o}]
    /\ UNCHANGED <<orders, refundVars, rows, transfers, balance>>

InsertPayoutUnfitting(r, o, po) ==
    /\ request[r].at = "rows" /\ o \in request[r].queue
    /\ payout[po] = "none"
    /\ payout' = [payout EXCEPT ![po] = "pending"]
    /\ payoutOf' = [payoutOf EXCEPT ![po] = o]
    /\ request' = [request EXCEPT ![r].at = "asking", ![r].payout = po, ![r].queue = @ \ {o}]
    /\ UNCHANGED <<orders, refundVars, payoutReview, released, transfers, balance>>

\* enqueuePayout, every await a step.  Nothing is read again, and the key of the
\* row is random.
InsertPayout(r, o, po) ==
    /\ request[r].at = "rows" /\ o \in request[r].queue
    /\ Subtotal[o] <= request[r].want
    /\ payout[po] = "none"
    /\ payout' = [payout EXCEPT ![po] = "pending"]
    /\ payoutOf' = [payoutOf EXCEPT ![po] = o]
    /\ request' = [request EXCEPT ![r].at = "asking", ![r].payout = po, ![r].queue = @ \ {o}]
    /\ UNCHANGED <<orders, refundVars, payoutReview, released, transfers, balance>>

\* The router is external.  An error may hide a transfer that was accepted.
RouterAccepts(r) ==
    /\ request[r].at = "asking"
    /\ transfers' = transfers \cup {request[r].payout}
    /\ At(r, "accepted")
    /\ UNCHANGED <<orders, refundVars, rows, balance>>

RouterFails(r, accepted) ==
    /\ request[r].at = "asking"
    /\ transfers' = IF accepted THEN transfers \cup {request[r].payout} ELSE transfers
    /\ At(r, "refused")
    /\ UNCHANGED <<orders, refundVars, rows, balance>>

\* UPDATE ... WHERE id = $1, whatever the row says by now.
MarkProcessing(r) ==
    LET po == request[r].payout IN
    /\ request[r].at = "accepted"
    /\ payout' = [payout EXCEPT ![po] = "processing"]
    /\ Continue(r, request[r].want - Subtotal[payoutOf[po]])
    /\ UNCHANGED <<orders, refundVars, payoutOf, payoutReview, released, transfers, balance>>

\* The catch block without its throw.
MarkFailedGoesOn(r) ==
    LET po == request[r].payout IN
    /\ request[r].at = "refused"
    /\ payout' = [payout EXCEPT ![po] = "failed"]
    /\ payoutReview' = payoutReview \cup {po}
    /\ At(r, "accepted")
    /\ UNCHANGED <<orders, refundVars, payoutOf, released, transfers, balance>>

\* The catch block throws: the request ends, what it made before stays.
MarkFailed(r) ==
    LET po == request[r].payout IN
    /\ request[r].at = "refused"
    /\ payout' = [payout EXCEPT ![po] = "failed"]
    /\ payoutReview' = payoutReview \cup {po}
    /\ request' = [request EXCEPT ![r] = Idle]
    /\ UNCHANGED <<orders, refundVars, payoutOf, released, transfers, balance>>

\* A statement fails, the process dies, or the code gives up here.
PayoutRequestDies(r) ==
    /\ request[r] # Idle
    /\ request' = [request EXCEPT ![r] = Idle]
    /\ balance' = [balance EXCEPT ![r] = 0]
    /\ UNCHANGED <<orders, refundVars, rows, transfers>>

-----------------------------------------------------------------------------
(* completePayout, which the payout webhook calls *)

CompletableUnlessCompleted(po) == payout[po] # "completed"

Completable(po) == payout[po] \in InFlight /\ po \notin payoutReview

NoReleaseWhilePending(po) == IF payout[po] = "pending" THEN released ELSE released \cup {po}

\* The ledger transaction organizer_payout_release:<id>, once.
ReleaseLedger(po) == released \cup {po}

CompletePayout(po) ==
    /\ po \in transfers
    /\ Completable(po)
    /\ released' = ReleaseLedger(po)
    /\ payout' = [payout EXCEPT ![po] = "completed"]
    /\ UNCHANGED <<orders, refundVars, payoutOf, payoutReview, transfers, request, balance>>

-----------------------------------------------------------------------------
(* What TicketCommerce!ApplyCapture does to what is read here, and the clock *)

ApplyCapture(o) ==
    /\ captures[o] < MaxCaptures
    /\ captures' = [captures EXCEPT ![o] = @ + 1]
    /\ cooling' = cooling \cup {o}
    /\ UNCHANGED <<refundVars, rows, transfers, request, balance>>

CoolingEnds(o) ==
    /\ o \in cooling
    /\ cooling' = cooling \ {o}
    /\ UNCHANGED <<captures, refundVars, rows, transfers, request, balance>>

-----------------------------------------------------------------------------
Init ==
    /\ captures = [o \in Orders |-> 0] /\ cooling = {}
    /\ RefundInit
    /\ payout = [po \in Payouts |-> "none"]
    /\ payoutOf = [po \in Payouts |-> NoOrder]
    /\ payoutReview = {} /\ released = {} /\ transfers = {}
    /\ request = [r \in Requests |-> Idle]
    /\ balance = [r \in Requests |-> 0]

RequestStep(r) ==
    \/ \E amount \in 1..MaxRequest : RequestPayout(r, amount)
    \/ ReadPendingPayout(r) \/ ReadHeld(r)
    \/ \E queue \in SUBSET Orders : FindEligibleOrders(r, queue)
    \/ \E o \in Orders : SkipOrder(r, o)
    \/ \E o \in Orders, po \in Payouts : InsertPayout(r, o, po)
    \/ RouterAccepts(r)
    \/ \E accepted \in BOOLEAN : RouterFails(r, accepted)
    \/ MarkProcessing(r) \/ MarkFailed(r)
    \/ PayoutRequestDies(r)

Refunds == RefundNext /\ UNCHANGED <<orders, rows, transfers, request, balance>>

Next ==
    \/ \E r \in Requests : RequestStep(r)
    \/ \E po \in Payouts : CompletePayout(po)
    \/ Refunds
    \/ \E o \in Orders : ApplyCapture(o) \/ CoolingEnds(o)

Spec == Init /\ [][Next]_vars

-----------------------------------------------------------------------------
(* Properties *)

(* Every variable has its type; a row names its order from the moment it exists, *)
(* and what a request has left to allocate never goes below zero.                *)
TypeOK ==
    /\ captures \in [Orders -> 0..MaxCaptures] /\ cooling \subseteq Orders
    /\ RefundTypeOK
    /\ payout \in [Payouts -> PayoutStates]
    /\ payoutOf \in [Payouts -> Orders \cup {NoOrder}]
    /\ \A po \in Payouts : payout[po] # "none" => payoutOf[po] \in Orders
    /\ payoutReview \subseteq Payouts /\ released \subseteq Payouts
    /\ transfers \subseteq Payouts
    /\ request \in [Requests -> RequestStates]
    /\ balance = [r \in Requests |-> balance[r]]

(* Until its request has written the router's answer a row is in the hands of    *)
(* that request alone, the order it is for still fits what the request has left, *)
(* and only a webhook can move it, to completed.                                 *)
RowsAreOwned ==
    /\ \A r \in Requests : request[r].at \in Holding =>
          /\ request[r].payout \in Payouts
          /\ payout[request[r].payout] \in {"pending", "completed"}
          /\ Subtotal[payoutOf[request[r].payout]] <= request[r].want
    /\ \A r, q \in Requests :
          r # q /\ request[r].at \in Holding /\ request[q].at \in Holding
          => request[r].payout # request[q].payout

(* The ledger pays an organizer only for a transfer the router accepted and an   *)
(* order whose capture it credited; what is completed it has paid, also when the *)
(* webhook came before the request wrote processing and came again after it.     *)
ReleasesAreBacked ==
    /\ \A po \in Payouts : payout[po] = "completed" => po \in released
    /\ \A po \in released : /\ po \in transfers /\ payout[po] \notin {"none", "pending"}
                            /\ Fulfilled(payoutOf[po])

(* A failed payout is never completed by a late webhook nor taken back by the    *)
(* UPDATEs that look at no status.                                               *)
FailedStays == \A po \in Payouts : payout[po] = "failed" => payout'[po] = "failed"
FailedIsFinal == [][FailedStays]_vars

(* The same of a refund case that no request of staff is working on: it is       *)
(* neither reopened nor refunded afterwards.                                     *)
SettledIsFinal == [][SettledStays]_vars

(* docs/phase5-3-finance-consolidation.md:26-30: an order is eligible only with   *)
(* "No in-flight/completed payout for that order", so it is paid out once.        *)
OrderPaidOutOnce ==
    \A po, q \in released : payoutOf[po] = payoutOf[q] => po = q
=============================================================================
