---------------------------- MODULE TicketCommerce ----------------------------
(***************************************************************************)
(* The ticket rail: organizers edit the tiers of an event, buyers reserve  *)
(* tickets in an order, pay it (with as many payments as they start), the  *)
(* router reports captures, repeated and late, a capture fulfils the order *)
(* and issues its tickets, and staff scan them at the gate.                *)
(*                                                                         *)
(* A unit is one reserved ticket of an order line; a ticket (a row of      *)
(* ticket_entitlements) is a unit issued by the capture of a payment.      *)
(* Orders lock their tiers and captures their payment and order, so each   *)
(* is one action; remove and check-in lock nothing of what they read, so   *)
(* each is two.                                                            *)
(*                                                                         *)
(* The freeze and an event that is closed only refuse a request, which is  *)
(* a request that is not made; a client's idempotency key makes it a       *)
(* stuttering step.                                                        *)
(*                                                                         *)
(* A definition that is used nowhere is a faulty variant of the one that   *)
(* follows it: the slip that a property has to notice.                     *)
(***************************************************************************)
EXTENDS Naturals, FiniteSets

CONSTANTS Tiers, Orders, Payments, Scanners,
          OrderOf,         \* the order of a payment
          MaxCapacity,     \* capacities that organizers choose
          MaxQuantity,     \* tickets of one tier that a buyer asks for
          NoTicket

Units == [order : Orders, tier : Tiers, n : 1..MaxQuantity]
Tickets == [unit : Units, by : Payments]

ASSUME OrderOfAssumption == OrderOf \in [Payments -> Orders]
ASSUME BoundAssumption == MaxCapacity \in Nat /\ MaxQuantity \in Nat
ASSUME NullAssumption == NoTicket \notin Tickets

VARIABLES tiers,        \* rows of event_ticket_tiers
          paused,       \* tiers with sales_paused = TRUE
          capacity, remaining,
          removing,     \* tiers a remove request has read as unsold
          edited,       \* tiers whose numbers an organizer has overwritten:
                        \* evidence, read by no action
          order,        \* ticket_orders.status, "none" before the row exists
          units,        \* what the lines of the orders reserve
          payment,      \* ticket_payments.status, "none" without a row
          intents,      \* payments the router has been asked for
          events,       \* what the router reported: <<payment, amount is right>>
          posted,       \* payments with a ledger transaction ticket_capture:<id>
          tickets,      \* rows of ticket_entitlements
          scanner,      \* the ticket each check-in request has found 'issued'
          checkedIn,    \* tickets with status 'checked_in'
          admitted      \* tickets whose check-in was answered with ok

inventory == <<tiers, paused, capacity, remaining, removing, edited>>
money == <<payment, intents, events, posted>>
gate == <<scanner, checkedIn, admitted>>
vars == <<inventory, order, units, money, tickets, gate>>

Sold(t) == {u \in units : u.tier = t}

-----------------------------------------------------------------------------
(* Tiers.  Organizers send absolute numbers, which the CHECKs of the table *)
(* bound; remove looks at the numbers and deletes in a later statement.    *)

CreateTier(t, c, r, pause) ==
    /\ t \notin tiers /\ r <= c
    /\ tiers' = tiers \cup {t}
    /\ paused' = IF pause THEN paused \cup {t} ELSE paused \ {t}
    /\ capacity' = [capacity EXCEPT ![t] = c]
    /\ remaining' = [remaining EXCEPT ![t] = r]
    /\ edited' = edited \cup {t}
    /\ UNCHANGED <<removing, order, units, money, tickets, gate>>

\* A number that is not sent stays what it is by then (COALESCE).
PatchTier(t, c, r, pause) ==
    /\ t \in tiers /\ r <= c
    /\ paused' = IF pause THEN paused \cup {t} ELSE paused \ {t}
    /\ capacity' = [capacity EXCEPT ![t] = c]
    /\ remaining' = [remaining EXCEPT ![t] = r]
    /\ edited' = IF c = capacity[t] /\ r = remaining[t] THEN edited ELSE edited \cup {t}
    /\ UNCHANGED <<tiers, removing, order, units, money, tickets, gate>>

ReadUnsold(t) ==
    /\ t \in tiers /\ capacity[t] = remaining[t]
    /\ removing' = removing \cup {t}
    /\ UNCHANGED <<tiers, paused, capacity, remaining, edited, order, units, money,
                   tickets, gate>>

RemoveTier(t) ==
    /\ t \in removing
    /\ tiers' = tiers \ {t}
    /\ paused' = paused \ {t}
    /\ removing' = removing \ {t}
    /\ UNCHANGED <<capacity, remaining, edited, order, units, money, tickets, gate>>

-----------------------------------------------------------------------------
(* createOrder: one transaction that locks every tier it takes from *)

UnitsOf(o, quantity) == {u \in Units : u.order = o /\ u.n <= quantity[u.tier]}

CreateOrderUnchecked(o, quantity) ==
    /\ order[o] = "none"
    /\ \E t \in Tiers : quantity[t] > 0
    /\ \A t \in Tiers : quantity[t] > 0 => t \in tiers \ paused
    /\ order' = [order EXCEPT ![o] = "pending_payment"]
    /\ units' = units \cup UnitsOf(o, quantity)
    /\ remaining' = [t \in Tiers |-> remaining[t] - quantity[t]]
    /\ UNCHANGED <<tiers, paused, capacity, removing, edited, money, tickets, gate>>

\* Takes one from the tier for a line, whatever the quantity.
CreateOrderPerLine(o, quantity) ==
    /\ order[o] = "none"
    /\ \E t \in Tiers : quantity[t] > 0
    /\ \A t \in Tiers : quantity[t] > 0 => t \in tiers \ paused /\ quantity[t] <= remaining[t]
    /\ order' = [order EXCEPT ![o] = "pending_payment"]
    /\ units' = units \cup UnitsOf(o, quantity)
    /\ remaining' = [t \in Tiers |-> IF quantity[t] > 0 THEN remaining[t] - 1
                                                       ELSE remaining[t]]
    /\ UNCHANGED <<tiers, paused, capacity, removing, edited, money, tickets, gate>>

\* Items of one tier add up: each reads the row that the one before has updated.
CreateOrder(o, quantity) ==
    /\ order[o] = "none"
    /\ \E t \in Tiers : quantity[t] > 0
    /\ \A t \in Tiers : quantity[t] > 0 => t \in tiers \ paused /\ quantity[t] <= remaining[t]
    /\ order' = [order EXCEPT ![o] = "pending_payment"]
    /\ units' = units \cup UnitsOf(o, quantity)
    /\ remaining' = [t \in Tiers |-> remaining[t] - quantity[t]]
    /\ UNCHANGED <<tiers, paused, capacity, removing, edited, money, tickets, gate>>

-----------------------------------------------------------------------------
(* createPayment asks the router inside its transaction: when the answer is *)
(* an error, or the commit fails, the row goes and the intent stays.        *)

Payable(p) == p \notin intents /\ order[OrderOf[p]] = "pending_payment"

CreatePayment(p) ==
    /\ Payable(p)
    /\ payment' = [payment EXCEPT ![p] = "initiated"]
    /\ intents' = intents \cup {p}
    /\ UNCHANGED <<inventory, order, units, events, posted, tickets, gate>>

CreatePaymentRolledBack(p) ==
    /\ Payable(p)
    /\ intents' = intents \cup {p}
    /\ UNCHANGED <<inventory, order, units, payment, events, posted, tickets, gate>>

\* The router is external.
Report(p, exact) ==
    /\ p \in intents
    /\ events' = events \cup {<<p, exact>>}
    /\ UNCHANGED <<inventory, order, units, payment, intents, posted, tickets, gate>>

-----------------------------------------------------------------------------
(* applyCapture, with the SQL function it calls *)

IssueAgain(o, p) == tickets \cup {[unit |-> u, by |-> p] : u \in {v \in units : v.order = o}}

\* issueEntitlements: all the tickets of an order, unless it has any.
Issue(o, p) ==
    IF \E x \in tickets : x.unit.order = o
    THEN tickets
    ELSE tickets \cup {[unit |-> u, by |-> p] : u \in {v \in units : v.order = o}}

\* Posts the first capture of an order only.
RecordOncePerOrder(p) ==
    /\ posted' = IF order[OrderOf[p]] = "pending_payment" THEN posted \cup {p} ELSE posted
    /\ payment' = [payment EXCEPT ![p] = "captured"]

\* owanbe_apply_ticket_payment_capture.  No ticket payment is ever failed, voided
\* or refunded, and the order's confirmed is overwritten in the same transaction.
RecordCapture(p) ==
    /\ posted' = posted \cup {p}
    /\ payment' = [payment EXCEPT ![p] = "captured"]

ApplyAnyCapture(p, exact) ==
    /\ <<p, exact>> \in events
    /\ payment[p] = "initiated"
    /\ RecordCapture(p)
    /\ order' = [order EXCEPT ![OrderOf[p]] = "fulfilled"]
    /\ tickets' = Issue(OrderOf[p], p)
    /\ UNCHANGED <<inventory, units, intents, events, gate>>

\* Whatever the order says by then: a second payment is captured and posted too.
\* A report without a row, or with another amount, changes nothing.
ApplyCapture(p, exact) ==
    /\ <<p, exact>> \in events /\ exact
    /\ payment[p] = "initiated"
    /\ RecordCapture(p)
    /\ order' = [order EXCEPT ![OrderOf[p]] = "fulfilled"]
    /\ tickets' = Issue(OrderOf[p], p)
    /\ UNCHANGED <<inventory, units, intents, events, gate>>

EnsureEntitlements(p, exact) ==
    /\ <<p, exact>> \in events
    /\ payment[p] = "captured"
    /\ tickets' = Issue(OrderOf[p], p)
    /\ UNCHANGED <<inventory, order, units, money, gate>>

-----------------------------------------------------------------------------
(* checkIn *)

ReadTicket(s, x) ==
    /\ scanner[s] = NoTicket
    /\ x \in tickets /\ x \notin checkedIn
    /\ scanner' = [scanner EXCEPT ![s] = x]
    /\ UNCHANGED <<inventory, order, units, money, tickets, checkedIn, admitted>>

\* BEGIN, the statements and COMMIT or ROLLBACK each take any connection of the
\* pool, so the UPDATE can be kept or undone whatever the answer is.
CheckIn(s, kept, ok) ==
    /\ scanner[s] # NoTicket
    /\ scanner' = [scanner EXCEPT ![s] = NoTicket]
    /\ checkedIn' = IF kept THEN checkedIn \cup {scanner[s]} ELSE checkedIn
    /\ admitted' = IF ok THEN admitted \cup {scanner[s]} ELSE admitted
    /\ UNCHANGED <<inventory, order, units, money, tickets>>

-----------------------------------------------------------------------------
Init ==
    /\ tiers = Tiers /\ paused = {} /\ removing = {} /\ edited = {}
    /\ capacity \in [Tiers -> 0..MaxCapacity] /\ remaining = capacity
    /\ order = [o \in Orders |-> "none"] /\ units = {}
    /\ payment = [p \in Payments |-> "none"]
    /\ intents = {} /\ events = {} /\ posted = {} /\ tickets = {}
    /\ scanner = [s \in Scanners |-> NoTicket] /\ checkedIn = {} /\ admitted = {}

EditTiers ==
    \/ \E t \in Tiers, c, r \in 0..MaxCapacity, pause \in BOOLEAN :
          CreateTier(t, c, r, pause) \/ PatchTier(t, c, r, pause)
    \/ \E t \in Tiers : ReadUnsold(t) \/ RemoveTier(t)

Reserve == \E o \in Orders, quantity \in [Tiers -> 0..MaxQuantity] : CreateOrder(o, quantity)

Pay ==
    \/ \E p \in Payments : CreatePayment(p) \/ CreatePaymentRolledBack(p)
    \/ \E p \in Payments, exact \in BOOLEAN :
          Report(p, exact) \/ ApplyCapture(p, exact) \/ EnsureEntitlements(p, exact)

Scan ==
    \/ \E s \in Scanners, x \in tickets : ReadTicket(s, x)
    \/ \E s \in Scanners, kept, ok \in BOOLEAN : CheckIn(s, kept, ok)

Next == EditTiers \/ Reserve \/ Pay \/ Scan
Spec == Init /\ [][Next]_vars

-----------------------------------------------------------------------------
(* Every variable has its type, which contains the CHECKs on event_ticket_tiers: *)
(* nothing is taken below zero.                                                  *)
TypeOK ==
    /\ tiers \subseteq Tiers /\ paused \subseteq tiers
    /\ removing \subseteq tiers /\ edited \subseteq Tiers
    /\ capacity \in [Tiers -> 0..MaxCapacity]
    /\ remaining \in [Tiers -> 0..MaxCapacity]
    /\ \A t \in Tiers : remaining[t] <= capacity[t]
    /\ order \in [Orders -> {"none", "pending_payment", "fulfilled"}]
    /\ units \subseteq Units
    /\ payment \in [Payments -> {"none", "initiated", "captured"}]
    /\ intents \subseteq Payments /\ posted \subseteq Payments
    /\ events \subseteq Payments \X BOOLEAN
    /\ tickets \subseteq Tickets
    /\ scanner \in [Scanners -> tickets \cup {NoTicket}]
    /\ checkedIn \subseteq tickets /\ admitted \subseteq tickets

(* Concurrent orders, of several tiers each, account for every ticket of a tier: *)
(* what is reserved and what remains is the capacity, as long as no organizer    *)
(* has overwritten the numbers.                                                  *)
InventoryExact ==
    \A t \in Tiers \ edited : Cardinality(Sold(t)) + remaining[t] = capacity[t]

(* An order is fulfilled exactly when the ledger credits its organizer with a    *)
(* payment of it; the ledger credits every captured payment, also the second of  *)
(* an order, and only a report of the order's own total captures one.            *)
FulfilledIsPaid ==
    /\ \A o \in Orders : order[o] = "fulfilled" <=> \E p \in posted : OrderOf[p] = o
    /\ \A p \in Payments : p \in posted <=> payment[p] = "captured"
    /\ \A p \in posted : <<p, TRUE>> \in events

(* A fulfilled order has one ticket for every unit it reserved and no other      *)
(* order has any, however often a capture is reported and however many payments  *)
(* of the order are captured.                                                    *)
OneTicketPerUnit ==
    /\ \A x \in tickets : x.unit \in units /\ order[x.unit.order] = "fulfilled"
    /\ \A u \in units : order[u.order] = "fulfilled" => \E x \in tickets : x.unit = u
    /\ \A x, y \in tickets : x.unit = y.unit => x = y

(* Whoever the gate lets in holds a ticket whose order was paid in full.         *)
AdmittedIsPaid ==
    \A x \in admitted : /\ OrderOf[x.by] = x.unit.order
                        /\ payment[x.by] = "captured" /\ <<x.by, TRUE>> \in events

(* The inductive invariant: a unit belongs to an order that exists, finitely many *)
(* are reserved of a tier, and a ticket is issued by a capture of its own order.  *)
UnitsAreOrdered ==
    /\ \A u \in units : order[u.order] # "none"
    /\ \A t \in Tiers : IsFiniteSet(Sold(t))

TicketsArePaid ==
    \A x \in tickets : /\ OrderOf[x.by] = x.unit.order
                       /\ payment[x.by] = "captured" /\ <<x.by, TRUE>> \in events
=============================================================================
