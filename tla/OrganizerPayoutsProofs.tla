------------------------ MODULE OrganizerPayoutsProofs ------------------------
(***************************************************************************)
(* What holds of OrganizerPayouts, and of TicketRefunds within it, for     *)
(* every set of orders, cases, payout rows and requests and all amounts.   *)
(***************************************************************************)
EXTENDS OrganizerPayouts, TLAPS

USE CaseOfAssumption, AmountAssumption, MaxCapturesAssumption, MaxRequestAssumption,
    NullAssumption

-----------------------------------------------------------------------------
(* Refund cases *)

LEMMA RefundTypeInit == RefundInit => RefundTypeOK
  BY DEF RefundInit, RefundTypeOK, CaseStates

LEMMA NextStatusIsStatus ==
  ASSUME NEW current, NEW action
  PROVE  NextStatus(current, action) \in CaseStates
  BY DEF NextStatus, CaseStates, OpenCase

LEMMA RefundTypeStep ==
  ASSUME RefundTypeOK, RefundNext PROVE RefundTypeOK'
<1>1. ASSUME NEW k \in Cases, CreateCase(k) PROVE RefundTypeOK'
  BY <1>1 DEF CreateCase, RefundTypeOK, CaseStates, OpenCase
<1>2. ASSUME NEW s \in Staff, NEW k \in Cases, NEW action \in Actions, Decide(s, k, action)
      PROVE RefundTypeOK'
  <2> DEFINE d == [at |-> "decided", case |-> k, next |-> NextStatus(refund[k], action)]
  <2>1. d \in Decisions
    BY <1>2, NextStatusIsStatus DEF Decide, Decisions
  <2>2. staff' = [staff EXCEPT ![s] = d] /\ UNCHANGED <<refund, refunded, approved>>
    BY <1>2 DEF Decide
  <2> HIDE DEF d
  <2> QED
    BY <2>1, <2>2 DEF RefundTypeOK
<1>3. ASSUME NEW s \in Staff, WriteDecision(s) PROVE RefundTypeOK'
  <2>1. staff[s].case \in Cases /\ staff[s].next \in CaseStates
    BY <1>3 DEF WriteDecision, RefundTypeOK, Decisions, NoDecision
  <2>2. [at |-> "posting", case |-> staff[s].case] \in Decisions
    BY <2>1 DEF Decisions
  <2>3. staff' \in [Staff -> Decisions \cup {NoDecision}]
    BY <1>3, <2>2 DEF WriteDecision, RefundTypeOK
  <2> QED
    BY <1>3, <2>1, <2>3 DEF WriteDecision, RefundTypeOK
<1>4. ASSUME NEW s \in Staff, PostRefundLedger(s) \/ StaffRequestDies(s) PROVE RefundTypeOK'
  <2>1. PostRefundLedger(s) => staff[s].case \in Cases
    BY DEF PostRefundLedger, RefundTypeOK, Decisions, NoDecision
  <2> QED
    BY <1>4, <2>1 DEF PostRefundLedger, StaffRequestDies, RefundTypeOK
<1> QED
  BY <1>1, <1>2, <1>3, <1>4 DEF RefundNext

\* Whatever is or is about to be completed was approved before: the write of a
\* stale decision cannot change that, as approvals are never forgotten.
CompletionsAreApproved ==
    /\ \A k \in Cases : refund[k] \in {"approved", "completed"} => k \in approved
    /\ \A s \in Staff :
          \/ staff[s] = NoDecision
          \/ staff[s].at = "decided" /\ staff[s].next # "completed"
          \/ staff[s].case \in approved

LEMMA CompletesApproved ==
  ASSUME NEW current, NEW action, NextStatus(current, action) = "completed"
  PROVE  current = "approved"
  BY DEF NextStatus

Twice == RefundsApprovedTwice /\ CompletionsAreApproved

LEMMA TwiceStep ==
  ASSUME RefundTypeOK, Twice, RefundNext PROVE Twice'
<1> USE DEF Twice, RefundsApprovedTwice, CompletionsAreApproved, RefundTypeOK
<1>1. ASSUME NEW k \in Cases, CreateCase(k) PROVE Twice'
  BY <1>1 DEF CreateCase
<1>2. ASSUME NEW s \in Staff, NEW k \in Cases, NEW action \in Actions, Decide(s, k, action)
      PROVE Twice'
  <2> DEFINE next == NextStatus(refund[k], action)
  <2>1. next = "completed" => k \in approved
    BY CompletesApproved
  <2>2. /\ staff' = [staff EXCEPT ![s] = [at |-> "decided", case |-> k, next |-> next]]
        /\ UNCHANGED <<refund, refunded, approved>>
    BY <1>2 DEF Decide
  <2> HIDE DEF next
  <2>3. /\ staff'[s].at = "decided" /\ staff'[s].next = next /\ staff'[s].case = k
        /\ \A t \in Staff \ {s} : staff'[t] = staff[t]
    BY <2>2
  <2>4. \/ staff'[s].at = "decided" /\ staff'[s].next # "completed"
        \/ staff'[s].case \in approved'
    BY <2>1, <2>2, <2>3
  <2> QED
    BY <2>2, <2>3, <2>4
<1>3. ASSUME NEW s \in Staff, WriteDecision(s) PROVE Twice'
  <2> DEFINE k == staff[s].case
             next == staff[s].next
  <2>1. staff[s].at = "decided" /\ staff[s] # NoDecision /\ k \in Cases
    BY <1>3 DEF WriteDecision, NoDecision, Decisions
  <2>2. next = "completed" => k \in approved
    BY <2>1
  <2>3. /\ refund' = [refund EXCEPT ![k] = next]
        /\ approved' = IF next = "approved" THEN approved \cup {k} ELSE approved
        /\ staff' = [staff EXCEPT ![s] = IF next = "completed"
                                         THEN [at |-> "posting", case |-> k]
                                         ELSE NoDecision]
        /\ UNCHANGED refunded
    BY <1>3 DEF WriteDecision
  <2>4. staff'[s] = NoDecision \/ staff'[s].case \in approved'
    BY <2>2, <2>3
  <2>5. \A t \in Staff \ {s} : staff'[t] = staff[t]
    BY <2>3
  <2>6. \A j \in Cases : refund'[j] \in {"approved", "completed"} => j \in approved'
    BY <2>1, <2>2, <2>3
  <2>7. approved \subseteq approved'
    BY <2>3
  <2> QED
    BY <2>3, <2>4, <2>5, <2>6, <2>7
<1>4. ASSUME NEW s \in Staff, PostRefundLedger(s) PROVE Twice'
  <2>1. staff[s].case \in approved
    BY <1>4 DEF PostRefundLedger, NoDecision
  <2> QED
    BY <1>4, <2>1 DEF PostRefundLedger
<1>5. ASSUME NEW s \in Staff, StaffRequestDies(s) PROVE Twice'
  BY <1>5 DEF StaffRequestDies
<1> QED
  BY <1>1, <1>2, <1>3, <1>4, <1>5 DEF RefundNext

\* The only way to a new status or posting is a request that had decided, and
\* nobody decides anything on a settled case.
LEMMA SettledStep ==
  ASSUME RefundTypeOK, RefundNext PROVE SettledStays
<1> SUFFICES ASSUME NEW k \in Cases, Settled(k)
             PROVE  Settled(k)' /\ refund'[k] = refund[k] /\ (k \in refunded' <=> k \in refunded)
  BY DEF SettledStays
<1> USE DEF Settled, RefundTypeOK
<1>1. ASSUME NEW j \in Cases, CreateCase(j)
      PROVE Settled(k)' /\ refund'[k] = refund[k] /\ (k \in refunded' <=> k \in refunded)
  BY <1>1 DEF CreateCase
<1>2. ASSUME NEW s \in Staff, NEW j \in Cases, NEW action \in Actions, Decide(s, j, action)
      PROVE Settled(k)' /\ refund'[k] = refund[k] /\ (k \in refunded' <=> k \in refunded)
  <2>1. \A a : NextStatus("completed", a) = "none" /\ NextStatus("rejected", a) = "none"
    BY DEF NextStatus, OpenCase
  <2>2. j # k
    BY <1>2, <2>1 DEF Decide
  <2>3. /\ staff'[s].case = j /\ \A t \in Staff \ {s} : staff'[t] = staff[t]
        /\ UNCHANGED <<refund, refunded>>
    BY <1>2 DEF Decide
  <2> QED
    BY <2>2, <2>3
<1>3. ASSUME NEW s \in Staff, WriteDecision(s)
      PROVE Settled(k)' /\ refund'[k] = refund[k] /\ (k \in refunded' <=> k \in refunded)
  <2>1. staff[s].case # k /\ staff[s].case \in Cases
    BY <1>3 DEF WriteDecision, NoDecision, Decisions
  <2>2. /\ staff'[s] = NoDecision \/ staff'[s].case = staff[s].case
        /\ \A t \in Staff \ {s} : staff'[t] = staff[t]
    BY <1>3 DEF WriteDecision
  <2>3. refund'[k] = refund[k] /\ refunded' = refunded
    BY <1>3, <2>1 DEF WriteDecision
  <2> QED
    BY <2>1, <2>2, <2>3
<1>4. ASSUME NEW s \in Staff, PostRefundLedger(s) \/ StaffRequestDies(s)
      PROVE Settled(k)' /\ refund'[k] = refund[k] /\ (k \in refunded' <=> k \in refunded)
  <2>1. PostRefundLedger(s) => staff[s].case # k
    BY DEF PostRefundLedger, NoDecision
  <2> QED
    BY <1>4, <2>1 DEF PostRefundLedger, StaffRequestDies
<1> QED
  BY <1>1, <1>2, <1>3, <1>4 DEF RefundNext

-----------------------------------------------------------------------------
(* Payout rows *)

LEMMA IdleIsTyped == Idle \in RequestStates /\ Idle.at = "idle"
  BY DEF Idle, RequestStates, Stages

\* What a step can do to the requests: leave them, end one, or move one to a
\* stage where it holds the row it held before, a new one, or none.
LEMMA ContinueEffect ==
  ASSUME request \in [Requests -> RequestStates],
         NEW r \in Requests, NEW want \in Nat, Continue(r, want)
  PROVE  /\ request' \in [Requests -> RequestStates]
         /\ request'[r].at \notin Holding
         /\ request'[r].queue \subseteq request[r].queue
         /\ \A q \in Requests \ {r} : request'[q] = request[q]
<1>1. \/ request'[r] = Idle
      \/ request'[r] = [request[r] EXCEPT !.at = "rows", !.want = want, !.payout = NoPayout]
  BY DEF Continue
<1>2. request[r] \in RequestStates
  OBVIOUS
<1>3. /\ request'[r] \in RequestStates /\ request'[r].at \notin Holding
      /\ request'[r].queue \subseteq request[r].queue
  <2>1. CASE request'[r] = Idle
    BY <2>1, IdleIsTyped DEF Holding, Idle
  <2>2. CASE request'[r] = [request[r] EXCEPT !.at = "rows", !.want = want, !.payout = NoPayout]
    <3>1. /\ request'[r].at = "rows" /\ request'[r].queue = request[r].queue
      BY <1>2, <2>2 DEF RequestStates
    <3>2. request'[r] \in RequestStates
      BY <1>2, <2>2 DEF RequestStates, Stages
    <3> QED
      BY <3>1, <3>2 DEF Holding
  <2> QED
    BY <1>1, <2>1, <2>2
<1> QED
  BY <1>3 DEF Continue

LEMMA AtEffect ==
  ASSUME request \in [Requests -> RequestStates],
         NEW r \in Requests, NEW stage \in Stages, At(r, stage)
  PROVE  /\ request' \in [Requests -> RequestStates]
         /\ request'[r].at = stage /\ request'[r].payout = request[r].payout
         /\ request'[r].want = request[r].want /\ request'[r].queue = request[r].queue
         /\ \A q \in Requests \ {r} : request'[q] = request[q]
  BY DEF At, RequestStates

\* The row in the hands of a request is a payout of an order that fits.
LEMMA HeldRow ==
  ASSUME TypeOK, RowsAreOwned, NEW r \in Requests, request[r].at \in Holding
  PROVE  /\ request[r].payout \in Payouts
         /\ payout[request[r].payout] \in {"pending", "completed"}
         /\ payoutOf[request[r].payout] \in Orders
         /\ request[r].want - Subtotal[payoutOf[request[r].payout]] \in Nat
<1>1. /\ request[r].payout \in Payouts
      /\ payout[request[r].payout] \in {"pending", "completed"}
      /\ Subtotal[payoutOf[request[r].payout]] <= request[r].want
  BY DEF RowsAreOwned
<1>2. payoutOf[request[r].payout] \in Orders /\ request[r].want \in Nat
  BY <1>1 DEF TypeOK, RequestStates
<1>3. Subtotal[payoutOf[request[r].payout]] \in Nat
  BY <1>2
<1> QED
  BY <1>1, <1>2, <1>3

\* A step of a request, case by case: the requests it leaves alone, and the row
\* that it has in hand afterwards.
RequestTyped(r) ==
    /\ request' \in [Requests -> RequestStates]
    /\ \A q \in Requests \ {r} : request'[q] = request[q]

Keeps(r) ==
    request'[r].at \in Holding =>
       /\ request[r].at \in Holding
       /\ request'[r].payout = request[r].payout /\ request'[r].want = request[r].want

LEMMA RequestEffect ==
  ASSUME TypeOK, RowsAreOwned, NEW r \in Requests, RequestStep(r)
  PROVE  /\ RequestTyped(r)
         /\ Keeps(r) \/ \E o \in Orders, po \in Payouts : InsertPayout(r, o, po)
<1> USE DEF RequestTyped, Keeps
<1>1. request \in [Requests -> RequestStates]
  BY DEF TypeOK
<1>2. CASE \E amount \in 1..MaxRequest : RequestPayout(r, amount)
  <2>1. PICK amount \in 1..MaxRequest : RequestPayout(r, amount)
    BY <1>2
  <2>2. [[request EXCEPT ![r].at = "pending"] EXCEPT ![r].want = amount][r]
        = [at |-> "pending", want |-> amount, queue |-> request[r].queue,
           payout |-> request[r].payout]
    BY <1>1 DEF RequestStates
  <2> QED
    BY <1>1, <2>1, <2>2 DEF RequestPayout, RequestStates, Stages, Holding
<1>3. CASE ReadPendingPayout(r)
  BY <1>1, <1>3, AtEffect DEF ReadPendingPayout, Stages, Holding
<1>4. CASE ReadHeld(r)
  <2>1. CASE At(r, "list")
    BY <1>1, <2>1, AtEffect DEF Stages, Holding
  <2>2. CASE request' = [request EXCEPT ![r] = Idle]
    BY <1>1, <2>2, IdleIsTyped DEF Holding
  <2> QED
    BY <1>4, <2>1, <2>2 DEF ReadHeld
<1>5. CASE \E queue \in SUBSET Orders : FindEligibleOrders(r, queue)
  <2>1. PICK queue \in SUBSET Orders : FindEligibleOrders(r, queue)
    BY <1>5
  <2>2. request'[r] = [request[r] EXCEPT !.at = "rows", !.queue = queue]
    BY <1>1, <2>1 DEF FindEligibleOrders
  <2>3. request'[r] \in RequestStates /\ request'[r].at = "rows"
    BY <1>1, <2>2 DEF RequestStates, Stages
  <2> QED
    BY <1>1, <2>1, <2>3 DEF FindEligibleOrders, Holding
<1>6. CASE \E o \in Orders : SkipOrder(r, o)
  BY <1>1, <1>6 DEF SkipOrder, RequestStates, Holding
<1>7. CASE \E o \in Orders, po \in Payouts : InsertPayout(r, o, po)
  <2>1. PICK o \in Orders, po \in Payouts : InsertPayout(r, o, po)
    BY <1>7
  <2>2. request'[r] = [request[r] EXCEPT !.at = "asking", !.payout = po, !.queue = @ \ {o}]
    BY <1>1, <2>1 DEF InsertPayout
  <2>3. request'[r] \in RequestStates
    BY <1>1, <2>2 DEF RequestStates, Stages
  <2> QED
    BY <1>1, <1>7, <2>1, <2>3 DEF InsertPayout
<1>8. CASE RouterAccepts(r) \/ \E accepted \in BOOLEAN : RouterFails(r, accepted)
  <2>1. request[r].at \in Holding
    BY <1>8 DEF RouterAccepts, RouterFails, Holding
  <2>2. At(r, "accepted") \/ At(r, "refused")
    BY <1>8 DEF RouterAccepts, RouterFails
  <2> QED
    BY <1>1, <2>1, <2>2, AtEffect DEF Stages
<1>9. CASE MarkProcessing(r)
  <2>1. request[r].want - Subtotal[payoutOf[request[r].payout]] \in Nat
    BY <1>9, HeldRow DEF MarkProcessing, Holding
  <2> QED
    BY <1>1, <1>9, <2>1, ContinueEffect DEF MarkProcessing
<1>10. CASE MarkFailed(r) \/ PayoutRequestDies(r)
  BY <1>1, <1>10, IdleIsTyped DEF MarkFailed, PayoutRequestDies, Holding
<1> QED
  BY <1>2, <1>3, <1>4, <1>5, <1>6, <1>7, <1>8, <1>9, <1>10 DEF RequestStep

\* Only four kinds of step write a payout row.
RowStep ==
    \/ \E r \in Requests, o \in Orders, po \in Payouts : InsertPayout(r, o, po)
    \/ \E r \in Requests : MarkProcessing(r) \/ MarkFailed(r)
    \/ \E po \in Payouts : CompletePayout(po)

LEMMA RowSteps == [Next]_vars => UNCHANGED rows \/ RowStep
<1> SUFFICES ASSUME [Next]_vars PROVE UNCHANGED rows \/ RowStep
  OBVIOUS
<1>1. CASE UNCHANGED vars
  BY <1>1 DEF vars
<1>2. ASSUME NEW r \in Requests, RequestStep(r) PROVE UNCHANGED rows \/ RowStep
  <2>1. CASE \/ \E o \in Orders, po \in Payouts : InsertPayout(r, o, po)
             \/ MarkProcessing(r) \/ MarkFailed(r)
    BY <2>1 DEF RowStep
  <2>2. CASE \/ \E amount \in 1..MaxRequest : RequestPayout(r, amount)
             \/ ReadPendingPayout(r) \/ ReadHeld(r)
             \/ \E queue \in SUBSET Orders : FindEligibleOrders(r, queue)
             \/ \E o \in Orders : SkipOrder(r, o)
    BY <2>2 DEF RequestPayout, ReadPendingPayout, ReadHeld, FindEligibleOrders, SkipOrder
  <2>3. CASE \/ RouterAccepts(r) \/ PayoutRequestDies(r)
             \/ \E accepted \in BOOLEAN : RouterFails(r, accepted)
    BY <2>3 DEF RouterAccepts, RouterFails, PayoutRequestDies
  <2> QED
    BY <1>2, <2>1, <2>2, <2>3 DEF RequestStep
<1>3. CASE \E po \in Payouts : CompletePayout(po)
  BY <1>3 DEF RowStep
<1>4. CASE Refunds \/ \E o \in Orders : ApplyCapture(o) \/ CoolingEnds(o)
  BY <1>4 DEF Refunds, ApplyCapture, CoolingEnds
<1> QED
  BY <1>1, <1>2, <1>3, <1>4 DEF Next

LEMMA RequestSteps ==
  [Next]_vars => UNCHANGED request \/ \E r \in Requests : RequestStep(r)
<1> SUFFICES ASSUME [Next]_vars
             PROVE  UNCHANGED request \/ \E r \in Requests : RequestStep(r)
  OBVIOUS
<1> QED
  BY DEF Next, vars, CompletePayout, Refunds, ApplyCapture, CoolingEnds

LEMMA RefundSteps ==
  [Next]_vars => UNCHANGED refundVars \/ RefundNext
<1> SUFFICES ASSUME [Next]_vars PROVE UNCHANGED refundVars \/ RefundNext
  OBVIOUS
<1>1. ASSUME NEW r \in Requests, RequestStep(r) PROVE UNCHANGED refundVars
  BY <1>1 DEF RequestStep, RequestPayout, ReadPendingPayout, ReadHeld, FindEligibleOrders,
              SkipOrder, InsertPayout, RouterAccepts, RouterFails, MarkProcessing, MarkFailed,
              PayoutRequestDies
<1> QED
  BY <1>1 DEF Next, vars, CompletePayout, Refunds, ApplyCapture, CoolingEnds

-----------------------------------------------------------------------------
(* Types and ownership *)

RowsTyped ==
    /\ payout \in [Payouts -> PayoutStates]
    /\ payoutOf \in [Payouts -> Orders \cup {NoOrder}]
    /\ \A po \in Payouts : payout[po] # "none" => payoutOf[po] \in Orders
    /\ payoutReview \subseteq Payouts /\ released \subseteq Payouts

OthersTyped ==
    /\ captures \in [Orders -> 0..MaxCaptures] /\ cooling \subseteq Orders
    /\ transfers \subseteq Payouts
    /\ balance = [r \in Requests |-> balance[r]]

LEMMA RowTypes ==
  ASSUME TypeOK, RowsAreOwned, RowStep PROVE RowsTyped'
<1>1. ASSUME NEW r \in Requests, NEW o \in Orders, NEW po \in Payouts, InsertPayout(r, o, po)
      PROVE RowsTyped'
  BY <1>1 DEF InsertPayout, TypeOK, RowsTyped, PayoutStates
<1>2. ASSUME NEW r \in Requests, MarkProcessing(r) PROVE RowsTyped'
  <2>1. request[r].payout \in Payouts /\ payoutOf[request[r].payout] \in Orders
    BY <1>2, HeldRow DEF MarkProcessing, Holding
  <2> QED
    BY <1>2, <2>1 DEF MarkProcessing, TypeOK, RowsTyped, PayoutStates
<1>3. ASSUME NEW r \in Requests, MarkFailed(r) PROVE RowsTyped'
  <2>1. request[r].payout \in Payouts /\ payoutOf[request[r].payout] \in Orders
    BY <1>3, HeldRow DEF MarkFailed, Holding
  <2> QED
    BY <1>3, <2>1 DEF MarkFailed, TypeOK, RowsTyped, PayoutStates
<1>4. ASSUME NEW po \in Payouts, CompletePayout(po) PROVE RowsTyped'
  BY <1>4 DEF CompletePayout, Completable, InFlight, ReleaseLedger, TypeOK, RowsTyped,
              PayoutStates
<1> QED
  BY <1>1, <1>2, <1>3, <1>4 DEF RowStep

LEMMA OtherTypes ==
  ASSUME TypeOK, RowsAreOwned, [Next]_vars PROVE OthersTyped'
<1> USE DEF TypeOK, OthersTyped
<1>1. ASSUME NEW r \in Requests, RequestStep(r) PROVE OthersTyped'
  <2>1. CASE RouterAccepts(r) \/ \E accepted \in BOOLEAN : RouterFails(r, accepted)
    <3>1. request[r].payout \in Payouts
      BY <2>1, HeldRow DEF RouterAccepts, RouterFails, Holding
    <3> QED
      BY <2>1, <3>1 DEF RouterAccepts, RouterFails, orders
  <2>2. CASE \/ \E amount \in 1..MaxRequest : RequestPayout(r, amount)
             \/ ReadPendingPayout(r) \/ ReadHeld(r) \/ PayoutRequestDies(r)
    <3>1. \A x : [balance EXCEPT ![r] = x]
                 = [q \in Requests |-> [balance EXCEPT ![r] = x][q]]
      OBVIOUS
    <3>2. UNCHANGED <<captures, cooling, transfers>>
      BY <2>2 DEF RequestPayout, ReadPendingPayout, ReadHeld, PayoutRequestDies, orders
    <3>3. \/ balance' = [balance EXCEPT ![r] = NetOrganizerPayable]
          \/ balance' = [balance EXCEPT ![r] = balance[r] - PendingPayout]
          \/ balance' = [balance EXCEPT ![r] = 0]
      BY <2>2 DEF RequestPayout, ReadPendingPayout, ReadHeld, PayoutRequestDies
    <3> QED
      BY <3>1, <3>2, <3>3
  <2>3. CASE \/ \E queue \in SUBSET Orders : FindEligibleOrders(r, queue)
             \/ \E o \in Orders : SkipOrder(r, o)
             \/ \E o \in Orders, po \in Payouts : InsertPayout(r, o, po)
             \/ MarkProcessing(r) \/ MarkFailed(r)
    BY <2>3 DEF FindEligibleOrders, SkipOrder, InsertPayout, MarkProcessing, MarkFailed, orders
  <2> QED
    BY <1>1, <2>1, <2>2, <2>3 DEF RequestStep
<1>2. CASE \/ UNCHANGED vars \/ Refunds \/ \E po \in Payouts : CompletePayout(po)
           \/ \E o \in Orders : CoolingEnds(o)
  BY <1>2 DEF vars, Refunds, CompletePayout, CoolingEnds, orders
<1>3. ASSUME NEW o \in Orders, ApplyCapture(o) PROVE OthersTyped'
  BY <1>3 DEF ApplyCapture
<1> QED
  BY <1>1, <1>2, <1>3 DEF Next

LEMMA TypeStep ==
  ASSUME TypeOK, RowsAreOwned, [Next]_vars PROVE TypeOK'
<1>1. RowsTyped'
  BY RowSteps, RowTypes DEF RowsTyped, TypeOK, rows
<1>2. OthersTyped'
  BY OtherTypes
<1>3. RefundTypeOK'
  BY RefundSteps, RefundTypeStep DEF TypeOK, RefundTypeOK, refundVars
<1>4. request' \in [Requests -> RequestStates]
  BY RequestSteps, RequestEffect DEF TypeOK, RequestTyped
<1> QED
  BY <1>1, <1>2, <1>3, <1>4 DEF TypeOK, RowsTyped, OthersTyped

LEMMA OwnedStep ==
  ASSUME TypeOK, RowsAreOwned, [Next]_vars PROVE RowsAreOwned'
<1>0. payout \in [Payouts -> PayoutStates] /\ request \in [Requests -> RequestStates]
  BY DEF TypeOK
<1>1. ASSUME NEW r \in Requests, NEW o \in Orders, NEW po \in Payouts, InsertPayout(r, o, po)
      PROVE RowsAreOwned'
  <2>1. /\ payout[po] = "none" /\ payout' = [payout EXCEPT ![po] = "pending"]
        /\ payoutOf' = [payoutOf EXCEPT ![po] = o]
        /\ request'[r].payout = po /\ Subtotal[o] <= request'[r].want
        /\ \A q \in Requests \ {r} : request'[q] = request[q]
    BY <1>0, <1>1 DEF InsertPayout, RequestStates
  <2>2. \A q \in Requests \ {r} : request[q].at \in Holding => request[q].payout # po
    BY <2>1 DEF RowsAreOwned
  <2>3. payoutOf \in [Payouts -> Orders \cup {NoOrder}]
    BY DEF TypeOK
  <2> QED
    BY <1>0, <2>1, <2>2, <2>3 DEF RowsAreOwned
<1>2. ASSUME NEW r \in Requests, RequestTyped(r), Keeps(r), UNCHANGED payoutOf,
             \A q \in Requests : request'[q].at \in Holding =>
                payout'[request[q].payout] \in {"pending", "completed"}
      PROVE RowsAreOwned'
  BY <1>2 DEF RowsAreOwned, RequestTyped, Keeps
<1>3. ASSUME NEW r \in Requests, RequestStep(r), ~RowStep PROVE RowsAreOwned'
  <2>1. UNCHANGED rows /\ RequestTyped(r) /\ Keeps(r)
    BY <1>3, RowSteps, RequestEffect DEF RowStep, Next
  <2> QED
    BY <1>2, <2>1 DEF rows, RowsAreOwned, RequestTyped, Keeps
<1>4. ASSUME NEW r \in Requests, MarkProcessing(r) \/ MarkFailed(r) PROVE RowsAreOwned'
  <2>1. request[r].at \in Holding /\ request[r].payout \in Payouts
    BY <1>4, HeldRow DEF MarkProcessing, MarkFailed, Holding
  <2>2. request'[r].at \notin Holding /\ RequestTyped(r) /\ UNCHANGED payoutOf
    <3>1. CASE MarkProcessing(r)
      <4>1. request[r].want - Subtotal[payoutOf[request[r].payout]] \in Nat
        BY <2>1, HeldRow
      <4> QED
        BY <1>0, <3>1, <4>1, ContinueEffect DEF MarkProcessing, RequestTyped
    <3>2. CASE MarkFailed(r)
      BY <1>0, <3>2, IdleIsTyped DEF MarkFailed, RequestTyped, Holding
    <3> QED
      BY <1>4, <3>1, <3>2
  <2>3. \A q \in Requests \ {r} :
           request'[q].at \in Holding => /\ request[q].payout # request[r].payout
                                         /\ request[q].payout \in Payouts
                                         /\ payout[request[q].payout] \in {"pending", "completed"}
    BY <2>1, <2>2 DEF RowsAreOwned, RequestTyped
  <2>4. \A x \in Payouts : x # request[r].payout => payout'[x] = payout[x]
    BY <1>0, <1>4 DEF MarkProcessing, MarkFailed
  <2> QED
    BY <1>2, <2>2, <2>3, <2>4 DEF Keeps
<1>5. ASSUME UNCHANGED <<request, payoutOf>>,
             UNCHANGED payout \/ \E po \in Payouts : CompletePayout(po)
      PROVE RowsAreOwned'
  <2>1. \A x \in Payouts : payout'[x] \in {payout[x], "completed"}
    BY <1>0, <1>5 DEF CompletePayout
  <2> QED
    BY <1>5, <2>1 DEF RowsAreOwned
<1>6. CASE UNCHANGED request
  <2>1. ASSUME NEW r \in Requests, RequestStep(r) PROVE RowsAreOwned'
    BY <1>1, <1>3, <1>4, <1>5, <2>1 DEF RowStep, CompletePayout
  <2>2. CASE UNCHANGED vars \/ \E po \in Payouts : CompletePayout(po)
    BY <1>5, <2>2 DEF vars, rows, CompletePayout
  <2>3. CASE Refunds \/ \E o \in Orders : ApplyCapture(o) \/ CoolingEnds(o)
    BY <1>5, <2>3 DEF Refunds, ApplyCapture, CoolingEnds, rows
  <2> QED
    BY <2>1, <2>2, <2>3 DEF Next
<1>7. ASSUME NEW r \in Requests, RequestStep(r) PROVE RowsAreOwned'
  BY <1>1, <1>3, <1>4, <1>5, <1>6, <1>7 DEF RowStep, CompletePayout
<1> QED
  BY <1>6, <1>7, RequestSteps

LEMMA InitTyped == Init => TypeOK /\ RowsAreOwned /\ Twice
<1> SUFFICES ASSUME Init PROVE TypeOK /\ RowsAreOwned /\ Twice
  OBVIOUS
<1>1. RowsAreOwned
  BY IdleIsTyped DEF Init, RowsAreOwned, Holding
<1>2. Twice
  BY DEF Init, RefundInit, Twice, RefundsApprovedTwice, CompletionsAreApproved
<1>3. TypeOK
  BY IdleIsTyped, RefundTypeInit DEF Init, TypeOK, PayoutStates
<1> QED
  BY <1>1, <1>2, <1>3

LEMMA TypeAndOwned == Spec => [](TypeOK /\ RowsAreOwned)
<1>1. TypeOK /\ RowsAreOwned /\ [Next]_vars => TypeOK' /\ RowsAreOwned'
  BY TypeStep, OwnedStep
<1> QED
  BY <1>1, InitTyped, PTL DEF Spec

\* Every variable has its type, the CHECKs on organizer_payouts included, and no
\* request allocates more than it asked for.
THEOREM TypeCorrect == Spec => []TypeOK
  BY TypeAndOwned, PTL

\* A row belongs to one request until that has written the router's answer.
THEOREM RowsAreOwnedCorrect == Spec => []RowsAreOwned
  BY TypeAndOwned, PTL

-----------------------------------------------------------------------------
(* What the ledger pays *)

\* Requests list fulfilled orders only, so rows are of fulfilled orders only.
ListedIsFulfilled ==
    /\ \A r \in Requests : \A o \in request[r].queue : Fulfilled(o)
    /\ \A po \in Payouts : payout[po] # "none" => Fulfilled(payoutOf[po])

Backed == ReleasesAreBacked /\ ListedIsFulfilled

LEMMA CapturesGrow ==
  ASSUME TypeOK, [Next]_vars, NEW o \in Orders, Fulfilled(o) PROVE Fulfilled(o)'
<1>1. ASSUME NEW p \in Orders, ApplyCapture(p) PROVE Fulfilled(o)'
  <2>1. captures[o] \in Nat /\ captures[p] \in Nat
    BY DEF TypeOK
  <2>2. captures' = [captures EXCEPT ![p] = captures[p] + 1]
    BY <1>1 DEF ApplyCapture
  <2>3. captures'[o] \in {captures[o], captures[o] + 1}
    BY <2>2 DEF TypeOK
  <2> QED
    BY <2>1, <2>3 DEF Fulfilled
<1>2. ASSUME UNCHANGED captures PROVE Fulfilled(o)'
  BY <1>2 DEF Fulfilled
<1>3. ASSUME NEW r \in Requests, RequestStep(r) PROVE UNCHANGED captures
  BY <1>3 DEF RequestStep, RequestPayout, ReadPendingPayout, ReadHeld, FindEligibleOrders,
              SkipOrder, InsertPayout, RouterAccepts, RouterFails, MarkProcessing, MarkFailed,
              PayoutRequestDies, orders
<1>4. CASE \/ UNCHANGED vars \/ Refunds \/ \E po \in Payouts : CompletePayout(po)
           \/ \E p \in Orders : CoolingEnds(p)
  BY <1>2, <1>4 DEF vars, Refunds, CompletePayout, CoolingEnds, orders
<1> QED
  BY <1>1, <1>2, <1>3, <1>4 DEF Next

LEMMA ListedStep ==
  ASSUME TypeOK, RowsAreOwned, ListedIsFulfilled, [Next]_vars PROVE ListedIsFulfilled'
<1>0. payout \in [Payouts -> PayoutStates] /\ request \in [Requests -> RequestStates]
  BY DEF TypeOK
<1>1. ASSUME NEW r \in Requests, RequestStep(r), NEW o \in request'[r].queue
      PROVE o \in Orders /\ Fulfilled(o)
  <2>1. CASE o \in request[r].queue
    BY <1>0, <2>1 DEF ListedIsFulfilled, RequestStates
  <2>2. CASE \E queue \in SUBSET Orders : FindEligibleOrders(r, queue)
    BY <1>0, <1>1, <2>2 DEF FindEligibleOrders, RequestStates, Eligible
  <2>3. CASE MarkProcessing(r)
    <3>1. request[r].want - Subtotal[payoutOf[request[r].payout]] \in Nat
      BY <2>3, HeldRow DEF MarkProcessing, Holding
    <3>2. request'[r].queue \subseteq request[r].queue
      BY <1>0, <2>3, <3>1, ContinueEffect DEF MarkProcessing
    <3> QED
      BY <1>1, <2>1, <3>2
  <2>4. ASSUME request' = [request EXCEPT ![r] = Idle] PROVE FALSE
    BY <1>0, <1>1, <2>4 DEF Idle
  <2>5. ASSUME NEW stage \in Stages, At(r, stage) PROVE o \in request[r].queue
    BY <1>0, <1>1, <2>5, AtEffect
  <2>6. CASE \/ \E amount \in 1..MaxRequest : RequestPayout(r, amount)
             \/ \E p \in Orders : SkipOrder(r, p)
             \/ \E p \in Orders, po \in Payouts : InsertPayout(r, p, po)
    <3>0. request[r] \in RequestStates
      BY <1>0
    <3>1. request'[r].queue \subseteq request[r].queue
      <4>1. ASSUME NEW amount \in 1..MaxRequest, RequestPayout(r, amount)
            PROVE request'[r].queue = request[r].queue
        BY <1>0, <3>0, <4>1 DEF RequestPayout, RequestStates
      <4>2. ASSUME NEW p \in Orders, SkipOrder(r, p)
            PROVE request'[r].queue = request[r].queue \ {p}
        BY <1>0, <3>0, <4>2 DEF SkipOrder, RequestStates
      <4>3. ASSUME NEW p \in Orders, NEW po \in Payouts, InsertPayout(r, p, po)
            PROVE request'[r].queue = request[r].queue \ {p}
        BY <1>0, <3>0, <4>3 DEF InsertPayout, RequestStates
      <4> QED
        BY <2>6, <4>1, <4>2, <4>3
    <3> QED
      BY <1>1, <2>1, <3>1
  <2>7. CASE \/ ReadPendingPayout(r) \/ ReadHeld(r) \/ RouterAccepts(r)
             \/ \E accepted \in BOOLEAN : RouterFails(r, accepted)
    BY <2>1, <2>4, <2>5, <2>7 DEF ReadPendingPayout, ReadHeld, RouterAccepts, RouterFails, Stages
  <2>8. CASE MarkFailed(r) \/ PayoutRequestDies(r)
    BY <2>4, <2>8 DEF MarkFailed, PayoutRequestDies
  <2> QED
    BY <1>1, <2>2, <2>3, <2>6, <2>7, <2>8 DEF RequestStep
<1>2. \A r \in Requests : \A o \in request'[r].queue : o \in Orders /\ Fulfilled(o)
  <2>1. CASE UNCHANGED request
    BY <1>0, <2>1 DEF ListedIsFulfilled, RequestStates
  <2>2. ASSUME NEW r \in Requests, RequestStep(r)
        PROVE \A q \in Requests : \A o \in request'[q].queue : o \in Orders /\ Fulfilled(o)
    <3>1. \A q \in Requests \ {r} : request'[q] = request[q]
      BY <2>2, RequestEffect DEF RequestTyped
    <3> QED
      BY <1>0, <1>1, <2>2, <3>1 DEF ListedIsFulfilled, RequestStates
  <2> QED
    BY <2>1, <2>2, RequestSteps
<1>3. \A po \in Payouts : payout'[po] # "none" => payoutOf'[po] \in Orders /\ Fulfilled(payoutOf'[po])
  <2>0. \A po \in Payouts : payout[po] # "none" => payoutOf[po] \in Orders /\ Fulfilled(payoutOf[po])
    BY DEF TypeOK, ListedIsFulfilled
  <2>1. CASE UNCHANGED rows
    BY <2>0, <2>1 DEF rows
  <2>2. ASSUME NEW r \in Requests, NEW o \in Orders, NEW p \in Payouts, InsertPayout(r, o, p)
        PROVE \A po \in Payouts :
                 payout'[po] # "none" => payoutOf'[po] \in Orders /\ Fulfilled(payoutOf'[po])
    <3>1. Fulfilled(o)
      BY <2>2 DEF InsertPayout, ListedIsFulfilled
    <3>2. payoutOf \in [Payouts -> Orders \cup {NoOrder}]
      BY DEF TypeOK
    <3> QED
      BY <1>0, <2>0, <2>2, <3>1, <3>2 DEF InsertPayout
  <2>3. ASSUME NEW r \in Requests, MarkProcessing(r) \/ MarkFailed(r)
        PROVE \A po \in Payouts :
                 payout'[po] # "none" => payoutOf'[po] \in Orders /\ Fulfilled(payoutOf'[po])
    <3>1. request[r].payout \in Payouts /\ payout[request[r].payout] # "none"
      BY <2>3, HeldRow DEF MarkProcessing, MarkFailed, Holding
    <3> QED
      BY <1>0, <2>0, <2>3, <3>1 DEF MarkProcessing, MarkFailed
  <2>4. ASSUME NEW p \in Payouts, CompletePayout(p)
        PROVE \A po \in Payouts :
                 payout'[po] # "none" => payoutOf'[po] \in Orders /\ Fulfilled(payoutOf'[po])
    BY <1>0, <2>0, <2>4 DEF CompletePayout, Completable, InFlight
  <2> QED
    BY <2>1, <2>2, <2>3, <2>4, RowSteps DEF RowStep
<1> QED
  BY <1>2, <1>3, CapturesGrow DEF ListedIsFulfilled

LEMMA BackedStep ==
  ASSUME TypeOK, RowsAreOwned, Backed, [Next]_vars PROVE ReleasesAreBacked'
<1>0. payout \in [Payouts -> PayoutStates] /\ released \subseteq Payouts
  BY DEF TypeOK
<1>1. \A po \in released : captures'[payoutOf[po]] > 0
  <2>1. \A po \in released : payoutOf[po] \in Orders /\ Fulfilled(payoutOf[po])
    BY <1>0 DEF Backed, ReleasesAreBacked, TypeOK
  <2>2. \A o \in Orders : Fulfilled(o) => captures'[o] > 0
    BY CapturesGrow DEF Fulfilled
  <2> QED
    BY <2>1, <2>2
<1>2. transfers \subseteq transfers'
  <2>1. ASSUME NEW r \in Requests, RequestStep(r) PROVE transfers \subseteq transfers'
    BY <2>1 DEF RequestStep, RequestPayout, ReadPendingPayout, ReadHeld, FindEligibleOrders,
                SkipOrder, InsertPayout, RouterAccepts, RouterFails, MarkProcessing, MarkFailed,
                PayoutRequestDies
  <2> QED
    BY <2>1 DEF Next, CompletePayout, Refunds, ApplyCapture, CoolingEnds, vars
<1>3. ASSUME UNCHANGED <<released, payoutOf>>,
             \A po \in Payouts :
                \/ payout'[po] = payout[po]
                \/ payout'[po] \in {"processing", "failed"}
                \/ po \notin released /\ payout'[po] = "pending"
      PROVE ReleasesAreBacked'
  <2>1. \A po \in Payouts : payout'[po] = "completed" => po \in released
    BY <1>3 DEF Backed, ReleasesAreBacked
  <2>2. \A po \in released : payout'[po] \notin {"none", "pending"} /\ po \in transfers'
    BY <1>0, <1>2, <1>3 DEF Backed, ReleasesAreBacked
  <2> QED
    BY <1>1, <1>3, <2>1, <2>2 DEF ReleasesAreBacked, Fulfilled
<1>4. CASE UNCHANGED rows
  BY <1>3, <1>4 DEF rows
<1>5. ASSUME NEW r \in Requests, NEW o \in Orders, NEW po \in Payouts, InsertPayout(r, o, po)
      PROVE ReleasesAreBacked'
  <2>1. po \notin released
    BY <1>5 DEF InsertPayout, Backed, ReleasesAreBacked
  <2>2. \A x \in released : payoutOf'[x] = payoutOf[x] /\ payout'[x] = payout[x]
    BY <1>0, <1>5, <2>1 DEF InsertPayout, TypeOK
  <2>3. /\ \A x \in Payouts : payout'[x] = "completed" => payout[x] = "completed"
        /\ UNCHANGED <<released, captures>>
    BY <1>0, <1>5 DEF InsertPayout, orders
  <2> QED
    BY <1>0, <1>2, <2>2, <2>3 DEF Backed, ReleasesAreBacked, Fulfilled
<1>6. ASSUME NEW r \in Requests, MarkProcessing(r) \/ MarkFailed(r) PROVE ReleasesAreBacked'
  <2>1. request[r].payout \in Payouts
    BY <1>6, HeldRow DEF MarkProcessing, MarkFailed, Holding
  <2> QED
    BY <1>0, <1>3, <1>6, <2>1 DEF MarkProcessing, MarkFailed
<1>7. ASSUME NEW po \in Payouts, CompletePayout(po) PROVE ReleasesAreBacked'
  <2>1. /\ payout[po] # "none" /\ po \in transfers
        /\ payout' = [payout EXCEPT ![po] = "completed"]
        /\ released' = released \cup {po}
        /\ UNCHANGED <<payoutOf, transfers, captures>>
    BY <1>7 DEF CompletePayout, Completable, InFlight, ReleaseLedger, orders
  <2>2. Fulfilled(payoutOf[po])
    BY <2>1 DEF Backed, ListedIsFulfilled
  <2> QED
    BY <1>0, <2>1, <2>2 DEF Backed, ReleasesAreBacked, Fulfilled
<1> QED
  BY <1>4, <1>5, <1>6, <1>7, RowSteps DEF RowStep

\* The ledger pays an organizer only for a transfer of the router and a credited
\* order, and has paid whatever is completed.
THEOREM ReleasesAreBackedCorrect == Spec => []ReleasesAreBacked
<1>1. Init => Backed
  BY IdleIsTyped DEF Init, Backed, ReleasesAreBacked, ListedIsFulfilled, Idle
<1>2. TypeOK /\ RowsAreOwned /\ Backed /\ [Next]_vars => Backed'
  BY BackedStep, ListedStep DEF Backed
<1>3. Backed => ReleasesAreBacked
  BY DEF Backed
<1> QED
  BY <1>1, <1>2, <1>3, TypeAndOwned, PTL DEF Spec

LEMMA FailedStep ==
  ASSUME TypeOK, RowsAreOwned, [Next]_vars PROVE FailedStays
<1>0. payout \in [Payouts -> PayoutStates]
  BY DEF TypeOK
<1>1. CASE UNCHANGED rows
  BY <1>1 DEF rows, FailedStays
<1>2. ASSUME NEW r \in Requests, MarkProcessing(r) \/ MarkFailed(r) PROVE FailedStays
  <2>1. payout[request[r].payout] # "failed"
    BY <1>2, HeldRow DEF MarkProcessing, MarkFailed, Holding
  <2> QED
    BY <1>0, <1>2, <2>1 DEF MarkProcessing, MarkFailed, FailedStays
<1>3. CASE \/ \E r \in Requests, o \in Orders, po \in Payouts : InsertPayout(r, o, po)
           \/ \E po \in Payouts : CompletePayout(po)
  BY <1>0, <1>3 DEF InsertPayout, CompletePayout, Completable, InFlight, FailedStays
<1> QED
  BY <1>1, <1>2, <1>3, RowSteps DEF RowStep

\* A failed payout stays failed, although the UPDATE that writes processing looks
\* at no status: only the request that owns the row writes it.
THEOREM FailedIsFinalCorrect == Spec => FailedIsFinal
<1>1. TypeOK /\ RowsAreOwned /\ [Next]_vars => FailedStays
  BY FailedStep
<1> QED
  BY <1>1, TypeAndOwned, PTL DEF Spec, FailedIsFinal

\* No refund is posted for a case that was not approved before it was completed.
THEOREM RefundsApprovedTwiceCorrect == Spec => []RefundsApprovedTwice
<1>1. TypeOK /\ Twice /\ [Next]_vars => Twice'
  <2> SUFFICES ASSUME TypeOK, Twice, [Next]_vars PROVE Twice'
    OBVIOUS
  <2>1. CASE UNCHANGED refundVars
    BY <2>1 DEF Twice, RefundsApprovedTwice, CompletionsAreApproved, refundVars
  <2>2. CASE RefundNext
    BY <2>2, TwiceStep DEF TypeOK
  <2> QED
    BY <2>1, <2>2, RefundSteps
<1>2. Twice => RefundsApprovedTwice
  BY DEF Twice
<1> QED
  BY <1>1, <1>2, InitTyped, TypeAndOwned, PTL DEF Spec

\* A settled case that nobody is working on is never reopened nor refunded.
THEOREM SettledIsFinalCorrect == Spec => SettledIsFinal
<1>1. TypeOK /\ [Next]_vars => SettledStays
  <2> SUFFICES ASSUME TypeOK, [Next]_vars PROVE SettledStays
    OBVIOUS
  <2>1. CASE UNCHANGED refundVars
    BY <2>1 DEF SettledStays, Settled, refundVars
  <2>2. CASE RefundNext
    BY <2>2, SettledStep DEF TypeOK
  <2> QED
    BY <2>1, <2>2, RefundSteps
<1> QED
  BY <1>1, TypeAndOwned, PTL DEF Spec, SettledIsFinal
=============================================================================
