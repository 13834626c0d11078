---------------------------- MODULE TicketRefunds ----------------------------
(***************************************************************************)
(* The refund cases of a ticket order: a buyer opens them, staff escalate, *)
(* approve and reject them.  A request of staff reads the status, decides, *)
(* writes its decision whatever the row says by then, and posts the refund *)
(* when that completes the case.                                           *)
(*                                                                         *)
(* A definition that is used nowhere is a faulty variant of the one that   *)
(* follows it: the slip that a property has to notice.                     *)
(***************************************************************************)
EXTENDS Naturals, FiniteSets

CONSTANTS Orders, Cases, Staff,
          CaseOf,          \* the order of a refund case
          Amount,          \* what a case asks for
          Subtotal,        \* ticket_orders.subtotal_minor
          MaxCaptures      \* payments of one order that are captured

ASSUME CaseOfAssumption == CaseOf \in [Cases -> Orders]
ASSUME AmountAssumption == Amount \in [Cases -> Nat] /\ Subtotal \in [Orders -> Nat]
ASSUME MaxCapturesAssumption == MaxCaptures \in Nat

VARIABLES captures,    \* captured payments of an order; its organizer is
                       \* credited with the subtotal for each
          refund,      \* ticket_refund_cases.status, "none" without a row
          staff,       \* where each request of staff is
          refunded,    \* cases with a ledger transaction ticket_refund:<id>
          approved     \* cases that were ever written 'approved': evidence,
                       \* read by no action

refundVars == <<refund, staff, refunded, approved>>

OpenCase == {"requested", "under_review", "approved"}
CaseStates == OpenCase \cup {"none", "completed", "rejected"}
Actions == {"escalate", "approve", "reject"}

Fulfilled(o) == captures[o] > 0
HasOpenCase(o) == \E k \in Cases : CaseOf[k] = o /\ refund[k] \in OpenCase

\* Decides again on a case that is settled.
NextStatusOfAny(current, action) ==
    CASE action = "escalate"                            -> "under_review"
      [] action = "approve" /\ current # "requested"    -> "completed"
      [] action = "approve"                             -> "approved"
      [] OTHER                                          -> "rejected"

\* "none" where the code answers INVALID_TRANSITION.
NextStatus(current, action) ==
    CASE action = "escalate" /\ current \in {"requested", "under_review"} -> "under_review"
      [] action = "approve" /\ current \in {"requested", "under_review"}  -> "approved"
      [] action = "approve" /\ current = "approved"                       -> "completed"
      [] action = "reject" /\ current \in OpenCase                        -> "rejected"
      [] OTHER                                                            -> "none"

NoDecision == [at |-> "idle"]
Decisions == [at : {"decided"}, case : Cases, next : CaseStates \ {"none"}]
             \cup [at : {"posting"}, case : Cases]

\* The status of an order never leaves fulfilled, and the amount of a case is
\* compared with the order alone, not with its other cases.
CreateCase(k) ==
    /\ refund[k] = "none"
    /\ Fulfilled(CaseOf[k])
    /\ 0 < Amount[k] /\ Amount[k] <= Subtotal[CaseOf[k]]
    /\ refund' = [refund EXCEPT ![k] = "requested"]
    /\ UNCHANGED <<staff, refunded, approved>>

\* adminAction
Decide(s, k, action) ==
    /\ staff[s] = NoDecision
    /\ NextStatus(refund[k], action) # "none"
    /\ staff' = [staff EXCEPT ![s] = [at |-> "decided", case |-> k,
                                      next |-> NextStatus(refund[k], action)]]
    /\ UNCHANGED <<refund, refunded, approved>>

WriteDecision(s) ==
    LET k == staff[s].case  next == staff[s].next IN
    /\ staff[s].at = "decided"
    /\ refund' = [refund EXCEPT ![k] = next]
    /\ approved' = IF next = "approved" THEN approved \cup {k} ELSE approved
    /\ staff' = [staff EXCEPT ![s] = IF next = "completed"
                                     THEN [at |-> "posting", case |-> k]
                                     ELSE NoDecision]
    /\ UNCHANGED refunded

\* The request ends here: the next statement, which should refund the tickets,
\* names a column that ticket_entitlements does not have.
PostRefundLedger(s) ==
    /\ staff[s].at = "posting"
    /\ refunded' = refunded \cup {staff[s].case}
    /\ staff' = [staff EXCEPT ![s] = NoDecision]
    /\ UNCHANGED <<refund, approved>>

\* A statement fails or the process dies.
StaffRequestDies(s) ==
    /\ staff[s] # NoDecision
    /\ staff' = [staff EXCEPT ![s] = NoDecision]
    /\ UNCHANGED <<refund, refunded, approved>>

RefundInit ==
    /\ refund = [k \in Cases |-> "none"]
    /\ staff = [s \in Staff |-> NoDecision]
    /\ refunded = {} /\ approved = {}

RefundNext ==
    \/ \E k \in Cases : CreateCase(k)
    \/ \E s \in Staff, k \in Cases, action \in Actions : Decide(s, k, action)
    \/ \E s \in Staff : WriteDecision(s) \/ PostRefundLedger(s) \/ StaffRequestDies(s)

RefundTypeOK ==
    /\ refund \in [Cases -> CaseStates]
    /\ staff \in [Staff -> Decisions \cup {NoDecision}]
    /\ refunded \subseteq Cases /\ approved \subseteq Cases

(* The two-step workflow of the documentation holds although nothing is locked: *)
(* money goes back only for a case that one request approved and a later one    *)
(* completed, whatever requests of staff overtake each other.                   *)
RefundsApprovedTwice == refunded \subseteq approved

Settled(k) ==
    /\ refund[k] \in {"completed", "rejected"}
    /\ \A s \in Staff : staff[s] = NoDecision \/ staff[s].case # k

(* Once a case is settled and no request from before is left, it is settled for  *)
(* ever: no staff can reopen it, and what was not refunded by then never is.     *)
SettledStays ==
    \A k \in Cases : Settled(k) => /\ Settled(k)' /\ refund'[k] = refund[k]
                                   /\ k \in refunded' <=> k \in refunded
=============================================================================
