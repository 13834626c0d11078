------------------------ MODULE TicketCommerceProofs ------------------------
(***************************************************************************)
(* What holds of TicketCommerce for every set of tiers, orders, payments   *)
(* and gates, and every capacity and quantity.                             *)
(***************************************************************************)
EXTENDS TicketCommerce, FiniteSetTheorems, TLAPS

USE OrderOfAssumption, BoundAssumption, NullAssumption

-----------------------------------------------------------------------------
(* The operators *)

\* Issuing only adds tickets, of units of that order and by that payment.
LEMMA IssueAdds ==
  ASSUME TypeOK, NEW p \in Payments, NEW o \in Orders
  PROVE  /\ Issue(o, p) \subseteq Tickets /\ tickets \subseteq Issue(o, p)
         /\ \A x \in Issue(o, p) \ tickets :
              /\ x \in Tickets /\ x.by = p /\ x.unit.order = o /\ x.unit \in units
              /\ \A y \in tickets : y.unit.order # o
<1>1. \A u \in units : [unit |-> u, by |-> p] \in Tickets
  BY DEF TypeOK, Tickets
<1> QED
  BY <1>1 DEF Issue, TypeOK, Tickets

\* An order's line of q tickets of a tier reserves q units.
LEMMA UnitsOfCount ==
  ASSUME NEW o \in Orders, NEW quantity \in [Tiers -> 0..MaxQuantity], NEW t \in Tiers
  PROVE  LET S == {u \in UnitsOf(o, quantity) : u.tier = t} IN
         IsFiniteSet(S) /\ Cardinality(S) = quantity[t]
<1> DEFINE S == {u \in UnitsOf(o, quantity) : u.tier = t}
           q == quantity[t]
           f == [i \in 1..q |-> [order |-> o, tier |-> t, n |-> i]]
<1>1. q \in Nat /\ q <= MaxQuantity
  OBVIOUS
<1>2. \A i \in 1..q : f[i] \in S
  BY <1>1 DEF UnitsOf, Units
<1>3. \A u \in S : u.n \in 1..q /\ u = f[u.n]
  BY <1>1 DEF UnitsOf, Units
<1>4. \A i, j \in 1..q : f[i] = f[j] => i = j
  OBVIOUS
<1>5. f \in Bijection(1..q, S)
  <2>1. f \in [1..q -> S]
    BY <1>2
  <2> QED
    BY <2>1, <1>3, <1>4 DEF Bijection, Injection, Surjection, IsInjective
<1>6. IsFiniteSet(1..q) /\ Cardinality(1..q) = q
  BY <1>1, FS_Interval
<1> QED
  BY <1>5, <1>6, FS_Bijection DEF ExistsBijection

-----------------------------------------------------------------------------
(* Types *)

LEMMA TypeInit == Init => TypeOK
  BY DEF Init, TypeOK

LEMMA TypeStep == TypeOK /\ [Next]_vars => TypeOK'
<1> SUFFICES ASSUME TypeOK, [Next]_vars PROVE TypeOK'
  OBVIOUS
<1>1. CASE UNCHANGED vars
  BY <1>1 DEF TypeOK, vars, inventory, money, gate
<1>2. ASSUME NEW t \in Tiers, NEW c \in 0..MaxCapacity, NEW r \in 0..MaxCapacity,
             NEW pause \in BOOLEAN, CreateTier(t, c, r, pause) \/ PatchTier(t, c, r, pause)
      PROVE TypeOK'
  <2>1. capacity' \in [Tiers -> 0..MaxCapacity] /\ remaining' \in [Tiers -> 0..MaxCapacity]
    BY <1>2 DEF CreateTier, PatchTier, TypeOK
  <2>2. \A s \in Tiers : remaining'[s] <= capacity'[s]
    BY <1>2 DEF CreateTier, PatchTier, TypeOK
  <2> QED
    BY <1>2, <2>1, <2>2 DEF CreateTier, PatchTier, TypeOK, money, gate
<1>3. ASSUME NEW t \in Tiers, ReadUnsold(t) \/ RemoveTier(t) PROVE TypeOK'
  BY <1>3 DEF ReadUnsold, RemoveTier, TypeOK, money, gate
<1>4. ASSUME NEW o \in Orders, NEW quantity \in [Tiers -> 0..MaxQuantity],
             CreateOrder(o, quantity)
      PROVE TypeOK'
  <2>1. \A t \in Tiers : remaining'[t] \in 0..MaxCapacity /\ remaining'[t] <= capacity[t]
    BY <1>4 DEF CreateOrder, TypeOK
  <2>2. remaining' \in [Tiers -> 0..MaxCapacity]
    BY <1>4, <2>1 DEF CreateOrder
  <2>3. units' \subseteq Units
    BY <1>4 DEF CreateOrder, UnitsOf, TypeOK
  <2>4. order' \in [Orders -> {"none", "pending_payment", "fulfilled"}]
    BY <1>4 DEF CreateOrder, TypeOK
  <2> QED
    BY <1>4, <2>1, <2>2, <2>3, <2>4 DEF CreateOrder, TypeOK, money, gate
<1>5. ASSUME NEW p \in Payments, CreatePayment(p) \/ CreatePaymentRolledBack(p)
      PROVE TypeOK'
  BY <1>5 DEF CreatePayment, CreatePaymentRolledBack, TypeOK, inventory, gate
<1>6. ASSUME NEW p \in Payments, NEW exact \in BOOLEAN, Report(p, exact) PROVE TypeOK'
  BY <1>6 DEF Report, TypeOK, inventory, gate
<1>7. ASSUME NEW p \in Payments, NEW exact \in BOOLEAN,
             ApplyCapture(p, exact) \/ EnsureEntitlements(p, exact)
      PROVE TypeOK'
  <2>1. tickets' \subseteq Tickets /\ tickets \subseteq tickets'
    BY <1>7, IssueAdds DEF ApplyCapture, RecordCapture, EnsureEntitlements
  <2>2. payment' \in [Payments -> {"none", "initiated", "captured"}]
        /\ posted' \subseteq Payments
        /\ order' \in [Orders -> {"none", "pending_payment", "fulfilled"}]
    BY <1>7 DEF ApplyCapture, RecordCapture, EnsureEntitlements, TypeOK, money
  <2> QED
    BY <1>7, <2>1, <2>2 DEF ApplyCapture, RecordCapture, EnsureEntitlements, TypeOK, inventory, money, gate
<1>8. ASSUME NEW s \in Scanners, NEW x \in tickets, ReadTicket(s, x) PROVE TypeOK'
  BY <1>8 DEF ReadTicket, TypeOK, inventory, money
<1>9. ASSUME NEW s \in Scanners, NEW kept \in BOOLEAN, NEW ok \in BOOLEAN, CheckIn(s, kept, ok)
      PROVE TypeOK'
  BY <1>9 DEF CheckIn, TypeOK, inventory, money
<1> QED
  BY <1>1, <1>2, <1>3, <1>4, <1>5, <1>6, <1>7, <1>8, <1>9
  DEF Next, EditTiers, Reserve, Pay, Scan

THEOREM TypeCorrect == Spec => []TypeOK
  BY TypeInit, TypeStep, PTL DEF Spec

-----------------------------------------------------------------------------
(* Inventory *)

Inventory == UnitsAreOrdered /\ InventoryExact

LEMMA InventoryInit == Init => Inventory
<1> SUFFICES ASSUME Init PROVE Inventory
  OBVIOUS
<1>1. \A t \in Tiers : Sold(t) = {}
  BY DEF Init, Sold
<1>2. \A t \in Tiers : capacity[t] \in Nat /\ remaining[t] = capacity[t]
  BY DEF Init
<1> QED
  BY <1>1, <1>2, FS_EmptySet DEF Inventory, UnitsAreOrdered, InventoryExact, Init

\* A new order adds to each tier as many units as it takes from it.
LEMMA OrderMovesUnits ==
  ASSUME TypeOK, Inventory, NEW o \in Orders, NEW quantity \in [Tiers -> 0..MaxQuantity],
         CreateOrder(o, quantity), NEW t \in Tiers
  PROVE  /\ IsFiniteSet(Sold(t)')
         /\ Cardinality(Sold(t)') = Cardinality(Sold(t)) + quantity[t]
<1> DEFINE S == {u \in UnitsOf(o, quantity) : u.tier = t}
<1>1. IsFiniteSet(S) /\ Cardinality(S) = quantity[t]
  BY UnitsOfCount
<1>2. Sold(t)' = Sold(t) \cup S
  BY DEF CreateOrder, Sold
<1>3. Sold(t) \cap S = {}
  BY DEF CreateOrder, Sold, UnitsOf, Inventory, UnitsAreOrdered
<1>4. IsFiniteSet(Sold(t)) /\ Cardinality(Sold(t)) \in Nat
  BY FS_CardinalityType DEF Inventory, UnitsAreOrdered
<1>5. quantity[t] \in Nat
  OBVIOUS
<1>6. /\ IsFiniteSet(Sold(t) \cup S)
      /\ Cardinality(Sold(t) \cup S) =
           Cardinality(Sold(t)) + Cardinality(S) - Cardinality(Sold(t) \cap S)
  BY <1>1, <1>4, FS_Union
<1>7. Cardinality(Sold(t) \cap S) = 0
  BY <1>3, FS_EmptySet
<1> QED
  BY <1>1, <1>2, <1>4, <1>5, <1>6, <1>7

LEMMA InventoryStep == TypeOK /\ Inventory /\ [Next]_vars => Inventory'
<1> SUFFICES ASSUME TypeOK, Inventory, [Next]_vars PROVE Inventory'
  OBVIOUS
<1>0. ASSUME UNCHANGED units, \A o \in Orders : order[o] # "none" => order'[o] # "none"
      PROVE UnitsAreOrdered'
  <2>1. \A t \in Tiers : Sold(t)' = Sold(t)
    BY <1>0 DEF Sold
  <2> QED
    BY <1>0, <2>1 DEF Inventory, UnitsAreOrdered, TypeOK, Units
<1>1. ASSUME UNCHANGED <<units, capacity, remaining>>, edited \subseteq edited'
      PROVE InventoryExact'
  BY <1>1 DEF Inventory, InventoryExact, Sold
<1>2. CASE UNCHANGED vars
  BY <1>0, <1>1, <1>2 DEF Inventory, vars, inventory
<1>3. ASSUME NEW t \in Tiers, NEW c \in 0..MaxCapacity, NEW r \in 0..MaxCapacity,
             NEW pause \in BOOLEAN, CreateTier(t, c, r, pause) \/ PatchTier(t, c, r, pause)
      PROVE Inventory'
  <2>1. UNCHANGED <<units, order>>
    BY <1>3 DEF CreateTier, PatchTier
  <2>2. /\ edited \subseteq edited'
        /\ \A s \in Tiers \ edited' :
             capacity'[s] = capacity[s] /\ remaining'[s] = remaining[s]
    BY <1>3 DEF CreateTier, PatchTier, TypeOK
  <2>3. InventoryExact'
    BY <2>1, <2>2 DEF Inventory, InventoryExact, Sold
  <2> QED
    BY <1>0, <2>1, <2>3 DEF Inventory
<1>4. ASSUME NEW t \in Tiers, ReadUnsold(t) \/ RemoveTier(t) PROVE Inventory'
  BY <1>0, <1>1, <1>4 DEF ReadUnsold, RemoveTier, Inventory
<1>5. ASSUME NEW o \in Orders, NEW quantity \in [Tiers -> 0..MaxQuantity],
             CreateOrder(o, quantity)
      PROVE Inventory'
  <2>1. \A t \in Tiers : /\ IsFiniteSet(Sold(t)')
                         /\ Cardinality(Sold(t)') = Cardinality(Sold(t)) + quantity[t]
    BY <1>5, OrderMovesUnits
  <2>2. UnitsAreOrdered'
    BY <1>5, <2>1 DEF CreateOrder, UnitsOf, Units, Inventory, UnitsAreOrdered, TypeOK
  <2>3. ASSUME NEW t \in Tiers \ edited'
        PROVE Cardinality(Sold(t)') + remaining'[t] = capacity'[t]
    <3>1. remaining'[t] = remaining[t] - quantity[t] /\ capacity'[t] = capacity[t]
          /\ t \notin edited
      BY <1>5, <2>3 DEF CreateOrder
    <3>2. Cardinality(Sold(t)) \in Nat
      BY FS_CardinalityType DEF Inventory, UnitsAreOrdered
    <3>3. quantity[t] \in Nat /\ remaining[t] \in Nat /\ capacity[t] \in Nat
      BY DEF TypeOK
    <3>4. Cardinality(Sold(t)) + remaining[t] = capacity[t]
      BY <3>1 DEF Inventory, InventoryExact
    <3> QED
      BY <2>1, <3>1, <3>2, <3>3, <3>4
  <2> QED
    BY <2>2, <2>3 DEF Inventory, InventoryExact
<1>6. CASE Pay \/ Scan
  <2>1. UNCHANGED <<units, capacity, remaining, edited>>
    BY <1>6 DEF Pay, Scan, CreatePayment, CreatePaymentRolledBack, Report, ApplyCapture, RecordCapture,
                EnsureEntitlements, ReadTicket, CheckIn, inventory
  <2>2. \A o \in Orders : order[o] # "none" => order'[o] # "none"
    BY <1>6 DEF Pay, Scan, CreatePayment, CreatePaymentRolledBack, Report, ApplyCapture, RecordCapture,
                EnsureEntitlements, ReadTicket, CheckIn, TypeOK
  <2> QED
    BY <1>0, <1>1, <2>1, <2>2 DEF Inventory
<1> QED
  BY <1>2, <1>3, <1>4, <1>5, <1>6 DEF Next, EditTiers, Reserve

LEMMA InventoryCorrect == Spec => []Inventory
<1>1. Init => TypeOK /\ Inventory
  BY TypeInit, InventoryInit
<1>2. TypeOK /\ Inventory /\ [Next]_vars => TypeOK' /\ Inventory'
  BY TypeStep, InventoryStep
<1> QED
  BY <1>1, <1>2, PTL DEF Spec

\* Orders of any number of buyers and tiers account for every ticket of a tier
\* whose numbers no organizer has overwritten: such a tier is never oversold.
THEOREM InventoryExactCorrect == Spec => []InventoryExact
<1>1. Inventory => InventoryExact
  BY DEF Inventory
<1> QED
  BY <1>1, InventoryCorrect, PTL

-----------------------------------------------------------------------------
(* Payments and tickets *)

Paid == UnitsAreOrdered /\ FulfilledIsPaid /\ OneTicketPerUnit /\ TicketsArePaid

LEMMA PaidInit == Init => FulfilledIsPaid /\ OneTicketPerUnit /\ TicketsArePaid
  BY DEF Init, FulfilledIsPaid, OneTicketPerUnit, TicketsArePaid

\* A step that captures nothing leaves these three facts alone when it fulfils
\* no order, keeps the reports and adds units to new orders only.
LEMMA PaidUntouched ==
  ASSUME TypeOK, Paid, UNCHANGED <<posted, tickets>>, events \subseteq events',
         \A p \in Payments : payment'[p] = "captured" <=> payment[p] = "captured",
         units \subseteq units', \A u \in units' \ units : order'[u.order] # "fulfilled",
         \A o \in Orders : order'[o] = "fulfilled" <=> order[o] = "fulfilled"
  PROVE  FulfilledIsPaid' /\ OneTicketPerUnit' /\ TicketsArePaid'
<1>1. FulfilledIsPaid'
  BY DEF Paid, FulfilledIsPaid, TypeOK
<1>2. \A x \in tickets : x \in Tickets /\ x.unit \in Units /\ x.unit.order \in Orders
                        /\ x.by \in Payments
  BY DEF TypeOK, Tickets, Units
<1>3. \A u \in units : u.order \in Orders
  BY DEF TypeOK, Units
<1>4. OneTicketPerUnit'
  BY <1>2, <1>3 DEF Paid, OneTicketPerUnit
<1>5. TicketsArePaid'
  BY <1>2 DEF Paid, TicketsArePaid
<1> QED
  BY <1>1, <1>4, <1>5

LEMMA CapturePays ==
  ASSUME TypeOK, Paid, NEW p \in Payments, ApplyCapture(p, TRUE)
  PROVE  FulfilledIsPaid' /\ OneTicketPerUnit' /\ TicketsArePaid'
<1> DEFINE o == OrderOf[p]
<1>1. /\ o \in Orders /\ UNCHANGED <<units, events>>
      /\ posted' = posted \cup {p} /\ tickets' = Issue(o, p)
      /\ order' = [order EXCEPT ![o] = "fulfilled"]
      /\ payment' = [payment EXCEPT ![p] = "captured"] /\ <<p, TRUE>> \in events
  BY DEF ApplyCapture, RecordCapture
<1>2. /\ order \in [Orders -> {"none", "pending_payment", "fulfilled"}]
      /\ payment \in [Payments -> {"none", "initiated", "captured"}]
      /\ posted \subseteq Payments /\ units \subseteq Units /\ tickets \subseteq Tickets
  BY DEF TypeOK
<1>3. /\ Issue(o, p) \subseteq Tickets /\ tickets \subseteq Issue(o, p)
      /\ \A x \in Issue(o, p) \ tickets :
           /\ x.by = p /\ x.unit.order = o /\ x.unit \in units
           /\ \A y \in tickets : y.unit.order # o
  BY <1>1, IssueAdds
<1>4. FulfilledIsPaid'
  BY <1>1, <1>2 DEF Paid, FulfilledIsPaid
<1>5. TicketsArePaid'
  <2> SUFFICES ASSUME NEW x \in Issue(o, p)
               PROVE OrderOf[x.by] = x.unit.order /\ payment'[x.by] = "captured"
                     /\ <<x.by, TRUE>> \in events
    BY <1>1 DEF TicketsArePaid
  <2>1. x.by \in Payments
    BY <1>3 DEF Tickets
  <2> QED
    BY <1>1, <1>2, <1>3, <2>1 DEF Paid, TicketsArePaid
<1>6. OneTicketPerUnit'
  <2>1. \A x \in Issue(o, p) : x.unit \in units /\ order'[x.unit.order] = "fulfilled"
    BY <1>1, <1>2, <1>3 DEF Paid, OneTicketPerUnit, Tickets, Units
  <2>2. ASSUME NEW u \in units, order'[u.order] = "fulfilled"
        PROVE \E x \in Issue(o, p) : x.unit = u
    <3>1. CASE u.order # o
      BY <1>1, <1>2, <1>3, <2>2, <3>1 DEF Paid, OneTicketPerUnit, Units
    <3>2. CASE u.order = o /\ \E y \in tickets : y.unit.order = o
      BY <1>3, <3>2 DEF Paid, OneTicketPerUnit
    <3>3. CASE u.order = o /\ ~\E y \in tickets : y.unit.order = o
      <4>1. [unit |-> u, by |-> p] \in Issue(o, p)
        BY <3>3 DEF Issue
      <4> QED
        BY <4>1
    <3> QED
      BY <3>1, <3>2, <3>3
  <2>3. ASSUME NEW x \in Issue(o, p), NEW y \in Issue(o, p), x.unit = y.unit PROVE x = y
    <3>1. CASE x \in tickets <=> y \in tickets
      <4>1. CASE x \in tickets
        BY <2>3, <3>1, <4>1 DEF Paid, OneTicketPerUnit
      <4>2. CASE x \notin tickets
        BY <1>3, <2>3, <3>1, <4>2 DEF Tickets
      <4> QED
        BY <4>1, <4>2
    <3>2. CASE ~(x \in tickets <=> y \in tickets)
      BY <1>3, <2>3, <3>2
    <3> QED
      BY <3>1, <3>2
  <2> QED
    BY <1>1, <2>1, <2>2, <2>3 DEF OneTicketPerUnit
<1> QED
  BY <1>4, <1>5, <1>6

\* A repeated report of a captured payment finds its order's tickets issued.
LEMMA RepeatIssuesNothing ==
  ASSUME TypeOK, Paid, NEW p \in Payments, NEW exact \in BOOLEAN,
         p \in posted, EnsureEntitlements(p, exact)
  PROVE  UNCHANGED tickets
<1> DEFINE o == OrderOf[p]
<1>1. o \in Orders /\ order[o] = "fulfilled"
  BY DEF Paid, FulfilledIsPaid
<1>2. CASE \E y \in tickets : y.unit.order = o
  BY <1>2 DEF EnsureEntitlements, Issue
<1>3. CASE ~\E y \in tickets : y.unit.order = o
  <2>1. {v \in units : v.order = o} = {}
    BY <1>1, <1>3 DEF Paid, OneTicketPerUnit
  <2>2. Issue(o, p) = tickets
    BY <1>3, <2>1 DEF Issue
  <2> QED
    BY <2>2 DEF EnsureEntitlements
<1> QED
  BY <1>2, <1>3

\* A row stands for a payment the router was asked for.
Asked == \A p \in Payments : payment[p] # "none" => p \in intents

LEMMA AskedStep == TypeOK /\ Asked /\ [Next]_vars => Asked'
<1> SUFFICES ASSUME TypeOK, Asked, [Next]_vars PROVE Asked'
  OBVIOUS
<1>1. ASSUME UNCHANGED payment, intents \subseteq intents' PROVE Asked'
  BY <1>1 DEF Asked
<1>2. ASSUME NEW p \in Payments, CreatePayment(p) PROVE Asked'
  BY <1>2 DEF CreatePayment, Asked, TypeOK
<1>3. ASSUME NEW p \in Payments, NEW exact \in BOOLEAN, ApplyCapture(p, exact) PROVE Asked'
  BY <1>3 DEF ApplyCapture, RecordCapture, Asked, TypeOK
<1>4. ASSUME NEW p \in Payments, NEW exact \in BOOLEAN,
             CreatePaymentRolledBack(p) \/ Report(p, exact) \/ EnsureEntitlements(p, exact)
      PROVE Asked'
  BY <1>1, <1>4 DEF CreatePaymentRolledBack, Report, EnsureEntitlements, money
<1>5. CASE EditTiers \/ Reserve \/ Scan
  BY <1>1, <1>5 DEF EditTiers, CreateTier, PatchTier, ReadUnsold, RemoveTier, Reserve, CreateOrder,
                    Scan, ReadTicket, CheckIn, money
<1>6. CASE UNCHANGED vars
  BY <1>1, <1>6 DEF vars, money
<1> QED
  BY <1>1, <1>2, <1>3, <1>4, <1>5, <1>6 DEF Next, Pay

LEMMA PaidStep ==
  TypeOK /\ Paid /\ Asked /\ [Next]_vars => FulfilledIsPaid' /\ OneTicketPerUnit' /\ TicketsArePaid'
<1> SUFFICES ASSUME TypeOK, Paid, Asked, [Next]_vars
             PROVE FulfilledIsPaid' /\ OneTicketPerUnit' /\ TicketsArePaid'
  OBVIOUS
<1>1. CASE UNCHANGED <<order, units, money, tickets>>
  BY <1>1, PaidUntouched DEF money
<1>2. ASSUME NEW o \in Orders, NEW quantity \in [Tiers -> 0..MaxQuantity],
             CreateOrder(o, quantity)
      PROVE FulfilledIsPaid' /\ OneTicketPerUnit' /\ TicketsArePaid'
  <2>1. /\ UNCHANGED <<payment, posted, tickets, events>> /\ units \subseteq units'
        /\ \A u \in units' \ units : u.order = o
    BY <1>2 DEF CreateOrder, UnitsOf, money
  <2>2. /\ order'[o] = "pending_payment" /\ order[o] = "none"
        /\ \A b \in Orders : b # o => order'[b] = order[b]
    BY <1>2 DEF CreateOrder, TypeOK
  <2>3. \A b \in Orders : order'[b] = "fulfilled" <=> order[b] = "fulfilled"
    BY <2>2
  <2> QED
    BY <2>1, <2>2, <2>3, PaidUntouched
<1>3. ASSUME NEW p \in Payments, CreatePayment(p)
      PROVE FulfilledIsPaid' /\ OneTicketPerUnit' /\ TicketsArePaid'
  <2>1. payment[p] # "captured"
    BY <1>3 DEF CreatePayment, Payable, Asked
  <2>2. /\ UNCHANGED <<posted, tickets, events, units, order>>
        /\ \A q \in Payments : payment'[q] = "captured" <=> payment[q] = "captured"
    BY <1>3, <2>1 DEF CreatePayment, TypeOK
  <2> QED
    BY <2>2, PaidUntouched
<1>4. ASSUME NEW p \in Payments, NEW exact \in BOOLEAN,
             CreatePaymentRolledBack(p) \/ Report(p, exact)
      PROVE FulfilledIsPaid' /\ OneTicketPerUnit' /\ TicketsArePaid'
  <2>1. UNCHANGED <<payment, posted, tickets, units, order>> /\ events \subseteq events'
    BY <1>4 DEF CreatePaymentRolledBack, Report
  <2> QED
    BY <2>1, PaidUntouched
<1>5. ASSUME NEW p \in Payments, NEW exact \in BOOLEAN, ApplyCapture(p, exact)
      PROVE FulfilledIsPaid' /\ OneTicketPerUnit' /\ TicketsArePaid'
  <2>1. exact = TRUE
    BY <1>5 DEF ApplyCapture, RecordCapture
  <2> QED
    BY <1>5, <2>1, CapturePays
<1>6. ASSUME NEW p \in Payments, NEW exact \in BOOLEAN, EnsureEntitlements(p, exact)
      PROVE FulfilledIsPaid' /\ OneTicketPerUnit' /\ TicketsArePaid'
  <2>1. p \in posted
    BY <1>6 DEF EnsureEntitlements, Paid, FulfilledIsPaid
  <2> QED
    BY <1>1, <1>6, <2>1, RepeatIssuesNothing DEF EnsureEntitlements
<1>7. CASE EditTiers \/ Scan
  BY <1>1, <1>7 DEF EditTiers, CreateTier, PatchTier, ReadUnsold, RemoveTier, Scan, ReadTicket,
                    CheckIn
<1>8. CASE UNCHANGED vars
  BY <1>1, <1>8 DEF vars
<1> QED
  BY <1>2, <1>3, <1>4, <1>5, <1>6, <1>7, <1>8 DEF Next, Reserve, Pay

LEMMA PaidCorrect == Spec => [](TypeOK /\ Paid)
<1>1. Init => TypeOK /\ Inventory /\ Asked /\ Paid
  <2>1. Init => Asked
    BY DEF Init, Asked
  <2> QED
    BY <2>1, TypeInit, InventoryInit, PaidInit DEF Inventory, Paid
<1>2. TypeOK /\ Inventory /\ Asked /\ Paid /\ [Next]_vars
      => TypeOK' /\ Inventory' /\ Asked' /\ Paid'
  BY TypeStep, InventoryStep, AskedStep, PaidStep DEF Inventory, Paid
<1> QED
  BY <1>1, <1>2, PTL DEF Spec

\* An order is fulfilled exactly when a payment of it was captured for a report
\* of its own total, and posted.
THEOREM FulfilledIsPaidCorrect == Spec => []FulfilledIsPaid
<1>1. Paid => FulfilledIsPaid
  BY DEF Paid
<1> QED
  BY <1>1, PaidCorrect, PTL

\* Neither repeated reports nor several captured payments of an order issue a
\* unit twice, and a fulfilled order misses none.
THEOREM OneTicketPerUnitCorrect == Spec => []OneTicketPerUnit
<1>1. Paid => OneTicketPerUnit
  BY DEF Paid
<1> QED
  BY <1>1, PaidCorrect, PTL

\* The gate lets in tickets of paid orders only.
THEOREM AdmittedIsPaidCorrect == Spec => []AdmittedIsPaid
<1>1. TypeOK /\ Paid => AdmittedIsPaid
  BY DEF TypeOK, Paid, TicketsArePaid, AdmittedIsPaid
<1> QED
  BY <1>1, PaidCorrect, PTL
=============================================================================
