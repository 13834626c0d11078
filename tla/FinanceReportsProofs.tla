------------------------- MODULE FinanceReportsProofs -------------------------
(***************************************************************************)
(* Proofs about FinanceReports, from the inductive invariant of            *)
(* EscrowBooksProofs: what the reports add up from the ledger is taken     *)
(* apart by the rows its transactions are of, and each part is what the    *)
(* reports add up from those rows.                                         *)
(***************************************************************************)
EXTENDS FinanceReports, EscrowBooksProofs

(* Sums *)

LEMMA AmountsAsSum ==
    ASSUME NEW f, NEW S PROVE SumOf(f, S) = SumFunctionOnSet([x \in S |-> f[x]], S)
  BY Zenon DEF SumOf, SumFunctionOnSet, FoldFunctionOnSet, MapThenSumSet, MapThenFoldSet

LEMMA SumOfIsSum ==
    ASSUME NEW f, NEW S, IsFiniteSet(S) PROVE SumOf(f, S) = SumFunctionOnSet(f, S)
  <1> DEFINE g == [x \in S |-> f[x]]
  <1>1. \A x \in S : g[x] = f[x]
    OBVIOUS
  <1>2. SumOf(f, S) = SumFunctionOnSet(g, S)
    BY AmountsAsSum
  <1> HIDE DEF g
  <1> QED BY <1>1, <1>2, SumSame

LEMMA RowsAsSum ==
    ASSUME NEW S PROVE SumOfRows(S) = SumFunctionOnSet([r \in S |-> r.amount], S)
  BY Zenon DEF SumOfRows, SumFunctionOnSet, FoldFunctionOnSet, MapThenSumSet, MapThenFoldSet

\* A list with one row for each of S adds up to what those amount to.
LEMMA SumOfList ==
    ASSUME NEW f, NEW h, NEW S, IsFiniteSet(S),
           \A x \in S : f[x] \in Int /\ h[x].amount = f[x],
           \A x, y \in S : h[x] = h[y] => x = y
    PROVE  SumOfRows({h[x] : x \in S}) = SumFunctionOnSet(f, S)
  <1> DEFINE R == {h[x] : x \in S}
             g == [r \in R |-> r.amount]
  <1>1. \A x \in S : f[x] \in Int /\ g[h[x]] = f[x]
    OBVIOUS
  <1>2. SumOfRows(R) = SumFunctionOnSet(g, R)
    BY RowsAsSum
  <1> HIDE DEF g
  <1>3. SumFunctionOnSet(g, R) = SumFunctionOnSet(f, S)
    BY <1>1, SumRenamed
  <1> QED BY <1>2, <1>3

-----------------------------------------------------------------------------
(* Mismatches                                                              *)

LEMMA ReportsFinite ==
    ASSUME TypeOK PROVE IsFiniteSet(reports) /\ IsFiniteSet(ReconciliationList)
  <1> DEFINE rows == Payments \cup TicketPayments
  <1>1. IsFiniteSet(Payouts) /\ IsFiniteSet(rows)
    <2>1. IsFiniteSet(Payouts) /\ IsFiniteSet(Payments) /\ IsFiniteSet(TicketPayments)
      BY TablesAssumption
    <2> QED BY <2>1, FS_Union
  <1> DEFINE amount == [po \in Payouts |-> Issue("amount_mismatch", po)]
             status == [po \in Payouts |-> Issue("status_mismatch", po)]
             ledgerOnly == [p \in rows |-> Issue("ledger_only_transaction", p)]
             pspOnly == [p \in rows |-> Issue("psp_only_transaction", p)]
             listed == [issue \in reports |-> Timeline(issue.kind, issue.of, 0)]
  <1>2. Issues \subseteq {amount[po] : po \in Payouts} \cup {status[po] : po \in Payouts}
                         \cup {ledgerOnly[p] : p \in rows} \cup {pspOnly[p] : p \in rows}
    <2> SUFFICES ASSUME NEW i \in Issues
                 PROVE  \/ \E po \in Payouts : i = amount[po] \/ i = status[po]
                        \/ \E p \in rows : i = ledgerOnly[p] \/ i = pspOnly[p]
      OBVIOUS
    <2> QED BY DEF Issues
  <1>3. ReconciliationList = {listed[issue] : issue \in reports}
    BY DEF ReconciliationList
  <1> HIDE DEF amount, status, rows, ledgerOnly, pspOnly, listed
  <1>4. /\ IsFiniteSet({amount[po] : po \in Payouts}) /\ IsFiniteSet({status[po] : po \in Payouts})
        /\ IsFiniteSet({ledgerOnly[p] : p \in rows}) /\ IsFiniteSet({pspOnly[p] : p \in rows})
    BY <1>1, NamesFinite
  <1>5. IsFiniteSet(Issues)
    BY <1>2, <1>4, FS_Union, FS_Subset
  <1>6. IsFiniteSet(reports)
    BY <1>5, FS_Subset DEF TypeOK
  <1> QED BY <1>3, <1>6, NamesFinite

\* A finite set with a member counts at least 1.
LEMMA CountOfSome ==
    ASSUME NEW S, IsFiniteSet(S) PROVE Cardinality(S) \in Nat /\ (Cardinality(S) = 0 <=> S = {})
  BY FS_CardinalityType, FS_EmptySet

LEMMA MismatchShown ==
    ASSUME Inv, SettlementsReported PROVE MismatchIsShown
  <1> SUFFICES ASSUME NEW po \in Payouts, settlement[po] = "mismatch"
               PROVE  /\ Timeline("amount_mismatch", po, 0) \in ReconciliationList
                      /\ PlatformHealth(0, 0) # "healthy"
                      /\ Attention.reconciliation = "warning"
                      /\ [type |-> "reconciliation_issue", severity |-> "CRITICAL"] \in Alerts
    BY DEF MismatchIsShown
  <1> DEFINE issue == Issue("amount_mismatch", po)
  <1>1. issue \in reports
    BY DEF SettlementsReported
  <1>2. issue.kind = "amount_mismatch" /\ issue.of = po
    BY DEF Issue
  <1>3. Timeline("amount_mismatch", po, 0) \in ReconciliationList
    BY <1>1, <1>2 DEF ReconciliationList
  <1>4. PlatformHealth(0, 0) # "healthy"
    BY <1>3 DEF PlatformHealth
  <1>5. Attention.reconciliation = "warning"
    <2>1. Cardinality(reports) \in Nat /\ Cardinality(reports) # 0
      BY <1>1, ReportsFinite, CountOfSome DEF Inv
    <2> QED BY <2>1 DEF Attention, KpiAttention
  <1>6. [type |-> "reconciliation_issue", severity |-> "CRITICAL"] \in Alerts
    <2>1. AlertSeverity(issue) = "CRITICAL"
      BY <1>2 DEF AlertSeverity, Severity
    <2>2. "CRITICAL" \in {AlertSeverity(i) : i \in reports}
      BY <1>1, <2>1
    <2> QED BY <2>2 DEF Alerts, Alert
  <1> QED BY <1>3, <1>4, <1>5, <1>6

\* Whatever happened to the payout since, a settlement the mirror disagrees with
\* is shown in every place where staff would look for it.
THEOREM MismatchIsShownCorrect == Spec => []MismatchIsShown
  <1>1. Inv /\ Book => MismatchIsShown
    BY MismatchShown DEF Book
  <1> QED BY BookInductive, <1>1, PTL
-----------------------------------------------------------------------------
(* The keys of the ledger, by what their transactions are of               *)

CaptureKeys == {CaptureKey(p) : p \in Payments}
RefundedKeys == {RefundKey(k) : k \in RefundKeys}
Notices == Payments \X ChargebackEvents
ChargebackKeys == {ChargebackKey(x[1], x[2]) : x \in Notices}
ReleaseKeys == {ReleaseKey(po) : po \in Payouts}
TicketKeys == {TicketCaptureKey(t) : t \in TicketPayments}
CaseKeys == {TicketRefundKey(k) : k \in Cases}
OrganizerReleaseKeys == {OrganizerReleaseKey(q) : q \in OrganizerPayouts}

LEMMA KeyFamilies ==
    /\ Keys = CaptureKeys \cup RefundedKeys \cup ChargebackKeys \cup ReleaseKeys
              \cup TicketKeys \cup CaseKeys \cup OrganizerReleaseKeys
    /\ CaptureKeys = {k \in Keys : k.reason = "payment_capture_quaser"}
    /\ RefundedKeys = {k \in Keys : k.reason = "payment_refund"}
    /\ ChargebackKeys = {k \in Keys : k.reason = "payment_chargeback"}
    /\ ReleaseKeys = {k \in Keys : k.reason = "payout_escrow_release"}
    /\ TicketKeys = {k \in Keys : k.reason = "payment_capture_ticket"}
    /\ CaseKeys = {k \in Keys : k.reason = "payment_refund_ticket"}
    /\ OrganizerReleaseKeys = {k \in Keys : k.reason = "payout_organizer_release"}
  <1>1. ChargebackKeys = {ChargebackKey(p, ev) : p \in Payments, ev \in ChargebackEvents}
    <2>1. ASSUME NEW p \in Payments, NEW ev \in ChargebackEvents PROVE ChargebackKey(p, ev) \in ChargebackKeys
      <3>1. <<p, ev>> \in Notices /\ <<p, ev>>[1] = p /\ <<p, ev>>[2] = ev
        BY DEF Notices
      <3> QED BY <3>1 DEF ChargebackKeys
    <2>2. ASSUME NEW k \in ChargebackKeys PROVE \E p \in Payments, ev \in ChargebackEvents : k = ChargebackKey(p, ev)
      BY DEF ChargebackKeys, Notices
    <2> QED BY <2>1, <2>2
  <1>2. Keys = CaptureKeys \cup RefundedKeys \cup ChargebackKeys \cup ReleaseKeys
               \cup TicketKeys \cup CaseKeys \cup OrganizerReleaseKeys
    BY <1>1 DEF Keys, CaptureKeys, RefundedKeys, ReleaseKeys, TicketKeys, CaseKeys, OrganizerReleaseKeys
  <1>3. /\ \A k \in CaptureKeys : k.reason = "payment_capture_quaser"
        /\ \A k \in RefundedKeys : k.reason = "payment_refund"
        /\ \A k \in ChargebackKeys : k.reason = "payment_chargeback"
        /\ \A k \in ReleaseKeys : k.reason = "payout_escrow_release"
        /\ \A k \in TicketKeys : k.reason = "payment_capture_ticket"
        /\ \A k \in CaseKeys : k.reason = "payment_refund_ticket"
        /\ \A k \in OrganizerReleaseKeys : k.reason = "payout_organizer_release"
    BY KeyReasons DEF CaptureKeys, RefundedKeys, ChargebackKeys, ReleaseKeys, TicketKeys, CaseKeys,
                      OrganizerReleaseKeys
  <1> QED BY <1>2, <1>3

\* Within its family a key tells its row.
LEMMA KeysNameRows ==
    /\ \A x, y : /\ CaptureKey(x) = CaptureKey(y) => x = y
                 /\ RefundKey(x) = RefundKey(y) => x = y
                 /\ ReleaseKey(x) = ReleaseKey(y) => x = y
                 /\ TicketCaptureKey(x) = TicketCaptureKey(y) => x = y
                 /\ TicketRefundKey(x) = TicketRefundKey(y) => x = y
                 /\ OrganizerReleaseKey(x) = OrganizerReleaseKey(y) => x = y
    /\ \A x, y \in Notices : ChargebackKey(x[1], x[2]) = ChargebackKey(y[1], y[2]) => x = y
  <1>1. \A x, y \in Notices : ChargebackKey(x[1], x[2]) = ChargebackKey(y[1], y[2]) => x = y
    BY DEF Key, ChargebackKey, Notices
  <1> QED BY <1>1 DEF Key, CaptureKey, TicketCaptureKey, ReleaseKey, RefundKey, TicketRefundKey,
                      OrganizerReleaseKey

LEMMA NoticesFinite == IsFiniteSet(Notices)
  BY TablesAssumption, FS_Product DEF Notices

\* What the transactions of one family add up to is what their rows do.
LEMMA FamilyTotals ==
    ASSUME NEW f, \A k \in Keys : f[k] \in Int
    PROVE  /\ SumFunctionOnSet(f, CaptureKeys) =
                SumFunctionOnSet([p \in Payments |-> f[CaptureKey(p)]], Payments)
           /\ SumFunctionOnSet(f, RefundedKeys) =
                SumFunctionOnSet([k \in RefundKeys |-> f[RefundKey(k)]], RefundKeys)
           /\ SumFunctionOnSet(f, ChargebackKeys) =
                SumFunctionOnSet([x \in Notices |-> f[ChargebackKey(x[1], x[2])]], Notices)
           /\ SumFunctionOnSet(f, ReleaseKeys) =
                SumFunctionOnSet([po \in Payouts |-> f[ReleaseKey(po)]], Payouts)
           /\ SumFunctionOnSet(f, TicketKeys) =
                SumFunctionOnSet([t \in TicketPayments |-> f[TicketCaptureKey(t)]], TicketPayments)
           /\ SumFunctionOnSet(f, CaseKeys) =
                SumFunctionOnSet([k \in Cases |-> f[TicketRefundKey(k)]], Cases)
           /\ SumFunctionOnSet(f, OrganizerReleaseKeys) =
                SumFunctionOnSet([q \in OrganizerPayouts |-> f[OrganizerReleaseKey(q)]], OrganizerPayouts)
  <1>1. ASSUME NEW S, IsFiniteSet(S), NEW h, NEW g,
               \A x \in S : h[x] \in Keys /\ g[x] = f[h[x]],
               \A x, y \in S : h[x] = h[y] => x = y
        PROVE  SumFunctionOnSet(f, {h[x] : x \in S}) = SumFunctionOnSet(g, S)
    <2>1. \A x \in S : g[x] \in Int /\ f[h[x]] = g[x]
      BY <1>1
    <2> QED BY <1>1, <2>1, SumRenamed
  <1>2. SumFunctionOnSet(f, CaptureKeys) = SumFunctionOnSet([p \in Payments |-> f[CaptureKey(p)]], Payments)
    <2> DEFINE h == [p \in Payments |-> CaptureKey(p)]
               g == [p \in Payments |-> f[CaptureKey(p)]]
    <2>1. CaptureKeys = {h[x] : x \in Payments}
      BY DEF CaptureKeys
    <2>2. /\ \A x \in Payments : h[x] \in Keys /\ g[x] = f[h[x]]
          /\ \A x, y \in Payments : h[x] = h[y] => x = y
      BY KeysExist, KeysNameRows
    <2> HIDE DEF h, g
    <2> QED BY <1>1, <2>1, <2>2, TablesAssumption DEF g
  <1>3. SumFunctionOnSet(f, RefundedKeys) =
          SumFunctionOnSet([k \in RefundKeys |-> f[RefundKey(k)]], RefundKeys)
    <2> DEFINE h == [k \in RefundKeys |-> RefundKey(k)]
               g == [k \in RefundKeys |-> f[RefundKey(k)]]
    <2>1. RefundedKeys = {h[x] : x \in RefundKeys}
      BY DEF RefundedKeys
    <2>2. /\ \A x \in RefundKeys : h[x] \in Keys /\ g[x] = f[h[x]]
          /\ \A x, y \in RefundKeys : h[x] = h[y] => x = y
      BY KeysExist, KeysNameRows
    <2> HIDE DEF h, g
    <2> QED BY <1>1, <2>1, <2>2, TablesAssumption DEF g
  <1>4. SumFunctionOnSet(f, ChargebackKeys) =
          SumFunctionOnSet([x \in Notices |-> f[ChargebackKey(x[1], x[2])]], Notices)
    <2> DEFINE h == [x \in Notices |-> ChargebackKey(x[1], x[2])]
               g == [x \in Notices |-> f[ChargebackKey(x[1], x[2])]]
    <2>1. ChargebackKeys = {h[x] : x \in Notices}
      BY DEF ChargebackKeys
    <2>2. /\ \A x \in Notices : h[x] \in Keys /\ g[x] = f[h[x]]
          /\ \A x, y \in Notices : h[x] = h[y] => x = y
      BY KeysExist, KeysNameRows, KeyFamilies DEF Notices
    <2> HIDE DEF h, g
    <2> QED BY <1>1, <2>1, <2>2, NoticesFinite DEF g
  <1>5. SumFunctionOnSet(f, ReleaseKeys) =
          SumFunctionOnSet([po \in Payouts |-> f[ReleaseKey(po)]], Payouts)
    <2> DEFINE h == [po \in Payouts |-> ReleaseKey(po)]
               g == [po \in Payouts |-> f[ReleaseKey(po)]]
    <2>1. ReleaseKeys = {h[x] : x \in Payouts}
      BY DEF ReleaseKeys
    <2>2. /\ \A x \in Payouts : h[x] \in Keys /\ g[x] = f[h[x]]
          /\ \A x, y \in Payouts : h[x] = h[y] => x = y
      BY KeysExist, KeysNameRows
    <2> HIDE DEF h, g
    <2> QED BY <1>1, <2>1, <2>2, TablesAssumption DEF g
  <1>6. SumFunctionOnSet(f, TicketKeys) =
          SumFunctionOnSet([t \in TicketPayments |-> f[TicketCaptureKey(t)]], TicketPayments)
    <2> DEFINE h == [t \in TicketPayments |-> TicketCaptureKey(t)]
               g == [t \in TicketPayments |-> f[TicketCaptureKey(t)]]
    <2>1. TicketKeys = {h[x] : x \in TicketPayments}
      BY DEF TicketKeys
    <2>2. /\ \A x \in TicketPayments : h[x] \in Keys /\ g[x] = f[h[x]]
          /\ \A x, y \in TicketPayments : h[x] = h[y] => x = y
      BY KeysExist, KeysNameRows
    <2> HIDE DEF h, g
    <2> QED BY <1>1, <2>1, <2>2, TablesAssumption DEF g
  <1>7. SumFunctionOnSet(f, CaseKeys) =
          SumFunctionOnSet([k \in Cases |-> f[TicketRefundKey(k)]], Cases)
    <2> DEFINE h == [k \in Cases |-> TicketRefundKey(k)]
               g == [k \in Cases |-> f[TicketRefundKey(k)]]
    <2>1. CaseKeys = {h[x] : x \in Cases}
      BY DEF CaseKeys
    <2>2. /\ \A x \in Cases : h[x] \in Keys /\ g[x] = f[h[x]]
          /\ \A x, y \in Cases : h[x] = h[y] => x = y
      BY KeysExist, KeysNameRows
    <2> HIDE DEF h, g
    <2> QED BY <1>1, <2>1, <2>2, TablesAssumption DEF g
  <1>8. SumFunctionOnSet(f, OrganizerReleaseKeys) =
          SumFunctionOnSet([q \in OrganizerPayouts |-> f[OrganizerReleaseKey(q)]], OrganizerPayouts)
    <2> DEFINE h == [q \in OrganizerPayouts |-> OrganizerReleaseKey(q)]
               g == [q \in OrganizerPayouts |-> f[OrganizerReleaseKey(q)]]
    <2>1. OrganizerReleaseKeys = {h[x] : x \in OrganizerPayouts}
      BY DEF OrganizerReleaseKeys
    <2>2. /\ \A x \in OrganizerPayouts : h[x] \in Keys /\ g[x] = f[h[x]]
          /\ \A x, y \in OrganizerPayouts : h[x] = h[y] => x = y
      BY KeysExist, KeysNameRows
    <2> HIDE DEF h, g
    <2> QED BY <1>1, <2>1, <2>2, TablesAssumption DEF g
  <1> QED BY <1>2, <1>3, <1>4, <1>5, <1>6, <1>7, <1>8

LEMMA FamiliesFinite ==
    /\ IsFiniteSet(CaptureKeys) /\ IsFiniteSet(RefundedKeys) /\ IsFiniteSet(ChargebackKeys)
    /\ IsFiniteSet(ReleaseKeys) /\ IsFiniteSet(TicketKeys) /\ IsFiniteSet(CaseKeys)
    /\ IsFiniteSet(OrganizerReleaseKeys)
  <1> DEFINE capture == [p \in Payments |-> CaptureKey(p)]
             refund == [k \in RefundKeys |-> RefundKey(k)]
             chargeback == [x \in Notices |-> ChargebackKey(x[1], x[2])]
             release == [po \in Payouts |-> ReleaseKey(po)]
             ticket == [t \in TicketPayments |-> TicketCaptureKey(t)]
             case == [k \in Cases |-> TicketRefundKey(k)]
             paid == [q \in OrganizerPayouts |-> OrganizerReleaseKey(q)]
  <1>1. /\ CaptureKeys = {capture[x] : x \in Payments} /\ RefundedKeys = {refund[x] : x \in RefundKeys}
        /\ ChargebackKeys = {chargeback[x] : x \in Notices} /\ ReleaseKeys = {release[x] : x \in Payouts}
        /\ TicketKeys = {ticket[x] : x \in TicketPayments} /\ CaseKeys = {case[x] : x \in Cases}
        /\ OrganizerReleaseKeys = {paid[x] : x \in OrganizerPayouts}
    BY DEF CaptureKeys, RefundedKeys, ChargebackKeys, ReleaseKeys, TicketKeys, CaseKeys, OrganizerReleaseKeys
  <1> HIDE DEF capture, refund, chargeback, release, ticket, case, paid
  <1> QED BY <1>1, NoticesFinite, TablesAssumption, NamesFinite

LEMMA KeysFinite == IsFiniteSet(Keys)
  BY KeyFamilies, FamiliesFinite, FS_Union

\* The ledger's total is that of its families.
LEMMA KeysTotal ==
    ASSUME NEW f, \A k \in Keys : f[k] \in Int
    PROVE  SumFunctionOnSet(f, Keys) =
             SumFunctionOnSet(f, CaptureKeys) + SumFunctionOnSet(f, RefundedKeys)
             + SumFunctionOnSet(f, ChargebackKeys) + SumFunctionOnSet(f, ReleaseKeys)
             + SumFunctionOnSet(f, TicketKeys) + SumFunctionOnSet(f, CaseKeys)
             + SumFunctionOnSet(f, OrganizerReleaseKeys)
  <1> DEFINE two == CaptureKeys \cup RefundedKeys
             three == two \cup ChargebackKeys
             four == three \cup ReleaseKeys
             five == four \cup TicketKeys
             six == five \cup CaseKeys
  <1>1. ASSUME NEW S, NEW T, IsFiniteSet(S), IsFiniteSet(T), S \subseteq Keys, T \subseteq Keys, S \cap T = {}
        PROVE  /\ SumFunctionOnSet(f, S \cup T) = SumFunctionOnSet(f, S) + SumFunctionOnSet(f, T)
               /\ SumFunctionOnSet(f, S) \in Int /\ SumFunctionOnSet(f, T) \in Int
               /\ IsFiniteSet(S \cup T) /\ S \cup T \subseteq Keys
    <2>1. \A x \in S \cup T : f[x] \in Int
      BY <1>1
    <2>2. SumFunctionOnSet(f, S \cup T) = SumFunctionOnSet(f, S) + SumFunctionOnSet(f, T)
      BY <1>1, <2>1, SumUnion
    <2>3. SumFunctionOnSet(f, S) \in Int /\ SumFunctionOnSet(f, T) \in Int
      BY <1>1, <2>1, SumType
    <2> QED BY <1>1, <2>2, <2>3, FS_Union
  <1>2. /\ two \subseteq Keys /\ three \subseteq Keys /\ four \subseteq Keys /\ five \subseteq Keys
        /\ six \subseteq Keys /\ six \cup OrganizerReleaseKeys = Keys
        /\ CaptureKeys \cap RefundedKeys = {} /\ two \cap ChargebackKeys = {}
        /\ three \cap ReleaseKeys = {} /\ four \cap TicketKeys = {} /\ five \cap CaseKeys = {}
        /\ six \cap OrganizerReleaseKeys = {}
    BY KeyFamilies
  <1>3. /\ CaptureKeys \subseteq Keys /\ RefundedKeys \subseteq Keys /\ ChargebackKeys \subseteq Keys
        /\ ReleaseKeys \subseteq Keys /\ TicketKeys \subseteq Keys /\ CaseKeys \subseteq Keys
        /\ OrganizerReleaseKeys \subseteq Keys
    BY KeyFamilies
  <1>4. /\ IsFiniteSet(two) /\ SumFunctionOnSet(f, CaptureKeys) \in Int /\ SumFunctionOnSet(f, RefundedKeys) \in Int
        /\ SumFunctionOnSet(f, two) = SumFunctionOnSet(f, CaptureKeys) + SumFunctionOnSet(f, RefundedKeys)
    BY <1>1, <1>2, <1>3, FamiliesFinite
  <1> HIDE DEF two
  <1>5. /\ IsFiniteSet(three) /\ SumFunctionOnSet(f, ChargebackKeys) \in Int
        /\ SumFunctionOnSet(f, three) = SumFunctionOnSet(f, two) + SumFunctionOnSet(f, ChargebackKeys)
    BY <1>1, <1>2, <1>3, <1>4, FamiliesFinite
  <1> HIDE DEF three
  <1>6. /\ IsFiniteSet(four) /\ SumFunctionOnSet(f, ReleaseKeys) \in Int
        /\ SumFunctionOnSet(f, four) = SumFunctionOnSet(f, three) + SumFunctionOnSet(f, ReleaseKeys)
    BY <1>1, <1>2, <1>3, <1>5, FamiliesFinite
  <1> HIDE DEF four
  <1>7. /\ IsFiniteSet(five) /\ SumFunctionOnSet(f, TicketKeys) \in Int
        /\ SumFunctionOnSet(f, five) = SumFunctionOnSet(f, four) + SumFunctionOnSet(f, TicketKeys)
    BY <1>1, <1>2, <1>3, <1>6, FamiliesFinite
  <1> HIDE DEF five
  <1>8. /\ IsFiniteSet(six) /\ SumFunctionOnSet(f, CaseKeys) \in Int
        /\ SumFunctionOnSet(f, six) = SumFunctionOnSet(f, five) + SumFunctionOnSet(f, CaseKeys)
    BY <1>1, <1>2, <1>3, <1>7, FamiliesFinite
  <1> HIDE DEF six
  <1>9. /\ SumFunctionOnSet(f, OrganizerReleaseKeys) \in Int
        /\ SumFunctionOnSet(f, Keys) = SumFunctionOnSet(f, six) + SumFunctionOnSet(f, OrganizerReleaseKeys)
    BY <1>1, <1>2, <1>3, <1>8, FamiliesFinite
  <1> QED BY <1>4, <1>5, <1>6, <1>7, <1>8, <1>9
-----------------------------------------------------------------------------
(* Balances                                                                *)

\* What each transaction does to one account.
Moves(account) == [k \in Keys |-> NetEffect(ledger[k], {account})]

LEMMA MovesType ==
    ASSUME Postings, NEW account
    PROVE  \A k \in Keys : Moves(account)[k] \in Int /\ Moves(account)[k] = Net(LinesOf(ledger[k], account))
  BY KeysHaveLines, NetEffectType, NetOfAccount DEF Moves

LEMMA NetForAsSum ==
    ASSUME NEW account, NEW reasons
    PROVE  NetFor(account, reasons) =
             SumFunctionOnSet([k \in {k \in Keys : k.reason \in reasons} |-> Net(LinesOf(ledger[k], account))],
                              {k \in Keys : k.reason \in reasons})
  BY Zenon DEF NetFor, SumFunctionOnSet, FoldFunctionOnSet, MapThenSumSet, MapThenFoldSet

LEMMA NetForIsSum ==
    ASSUME Postings, NEW account, NEW reasons
    PROVE  NetFor(account, reasons) = SumFunctionOnSet(Moves(account), {k \in Keys : k.reason \in reasons})
  <1> DEFINE S == {k \in Keys : k.reason \in reasons}
             f == [k \in S |-> Net(LinesOf(ledger[k], account))]
  <1>1. NetFor(account, reasons) = SumFunctionOnSet(f, S)
    BY NetForAsSum
  <1>2. IsFiniteSet(S) /\ \A k \in S : f[k] = Moves(account)[k]
    BY KeysFinite, FS_Subset, MovesType
  <1> HIDE DEF f, S
  <1>3. SumFunctionOnSet(f, S) = SumFunctionOnSet(Moves(account), S)
    BY <1>2, SumSame
  <1> QED BY <1>1, <1>3 DEF S

LEMMA BalanceIsSum ==
    ASSUME Postings, NEW account
    PROVE  Balance(account) = SumFunctionOnSet(Moves(account), Keys)
  <1>1. {k \in Keys : k.reason \in Reasons} = Keys
    BY DEF Reasons
  <1> QED BY <1>1, NetForIsSum DEF Balance

\* What the transactions of each row do to an account.
CaptureMove(a, p) ==
    IF payment[p] = "initiated" THEN 0
    ELSE (In({a}, Escrow, Gross(p)) - In({a}, Psp, Gross(p)))
         + (In({a}, PlatformFees, Fee[p]) - In({a}, Escrow, Fee[p]))
RefundMove(a, k) == In({a}, Psp, Returned[k]) - In({a}, Escrow, Returned[k])
Noticed(x) == ChargedBackBy(ChargebackKey(x[1], x[2]))
ChargebackMove(a, x) == In({a}, Psp, Noticed(x)) - In({a}, VendorPayable(VendorOf[x[1]]), Noticed(x))
ReleaseMove(a, po) ==
    IF settlement[po] = "none" THEN 0
    ELSE In({a}, VendorPayable(VendorOf[PaymentOf[po]]), Subtotal[PaymentOf[po]])
         - In({a}, Escrow, Subtotal[PaymentOf[po]])
TicketMove(a, t) ==
    IF ticketPayment[t] = "initiated" THEN 0
    ELSE (In({a}, Escrow, Gross(t)) - In({a}, Psp, Gross(t)))
         + (In({a}, PlatformFees, Fee[t]) - In({a}, Escrow, Fee[t]))
         + (In({a}, OrganizerPayable(OrganizerOf[t]), Subtotal[t]) - In({a}, Escrow, Subtotal[t]))
CaseMove(a, k) ==
    IF ~Posted(TicketRefundKey(k)) THEN 0
    ELSE In({a}, Psp, CaseRefund[k] + FeeReversal(k))
         - In({a}, OrganizerPayable(OrganizerOf[CaseOf[k]]), CaseRefund[k])
         - In({a}, PlatformFees, FeeReversal(k))
OrganizerReleaseMove(a, q) ==
    IF ~Posted(OrganizerReleaseKey(q)) THEN 0
    ELSE In({a}, PayoutClearing, Subtotal[TicketOf[q]])
         - In({a}, OrganizerPayable(OrganizerOf[TicketOf[q]]), Subtotal[TicketOf[q]])

LEMMA AccountMoves ==
    ASSUME Postings, NEW a
    PROVE  /\ \A p \in Payments : Moves(a)[CaptureKey(p)] = CaptureMove(a, p)
           /\ \A k \in RefundKeys : Moves(a)[RefundKey(k)] = RefundMove(a, k)
           /\ \A x \in Notices : Moves(a)[ChargebackKey(x[1], x[2])] = ChargebackMove(a, x)
           /\ \A po \in Payouts : Moves(a)[ReleaseKey(po)] = ReleaseMove(a, po)
           /\ \A t \in TicketPayments : Moves(a)[TicketCaptureKey(t)] = TicketMove(a, t)
           /\ \A k \in Cases : Moves(a)[TicketRefundKey(k)] = CaseMove(a, k)
           /\ \A q \in OrganizerPayouts : Moves(a)[OrganizerReleaseKey(q)] = OrganizerReleaseMove(a, q)
  <1>1. \A k \in Keys : Moves(a)[k] = NetEffect(ledger[k], {a})
    BY DEF Moves
  <1>2. ASSUME NEW p \in Payments PROVE Moves(a)[CaptureKey(p)] = CaptureMove(a, p)
    BY <1>1, CaptureMoves, KeysExist DEF CaptureMove
  <1>3. ASSUME NEW k \in RefundKeys PROVE Moves(a)[RefundKey(k)] = RefundMove(a, k)
    BY <1>1, RefundMoves, KeysExist DEF RefundMove
  <1>4. ASSUME NEW x \in Notices PROVE Moves(a)[ChargebackKey(x[1], x[2])] = ChargebackMove(a, x)
    <2>1. x[1] \in Payments /\ x[2] \in ChargebackEvents
      BY DEF Notices
    <2> QED BY <1>1, <2>1, ChargebackMoves, KeysExist DEF ChargebackMove, Noticed
  <1>5. ASSUME NEW po \in Payouts PROVE Moves(a)[ReleaseKey(po)] = ReleaseMove(a, po)
    BY <1>1, ReleaseMoves, KeysExist DEF ReleaseMove
  <1>6. ASSUME NEW t \in TicketPayments PROVE Moves(a)[TicketCaptureKey(t)] = TicketMove(a, t)
    BY <1>1, TicketCaptureMoves, KeysExist DEF TicketMove
  <1>7. ASSUME NEW k \in Cases PROVE Moves(a)[TicketRefundKey(k)] = CaseMove(a, k)
    BY <1>1, CaseMoves, KeysExist DEF CaseMove
  <1>8. ASSUME NEW q \in OrganizerPayouts PROVE Moves(a)[OrganizerReleaseKey(q)] = OrganizerReleaseMove(a, q)
    BY <1>1, OrganizerReleaseMoves, KeysExist DEF OrganizerReleaseMove
  <1> QED BY <1>2, <1>3, <1>4, <1>5, <1>6, <1>7, <1>8

LEMMA RowAmounts ==
    /\ \A p \in Payments : Subtotal[p] \in Nat /\ Fee[p] \in Nat /\ Gross(p) = Subtotal[p] + Fee[p]
    /\ \A t \in TicketPayments : Subtotal[t] \in Nat /\ Fee[t] \in Nat /\ Gross(t) = Subtotal[t] + Fee[t]
    /\ \A po \in Payouts : Subtotal[PaymentOf[po]] \in Nat
    /\ \A q \in OrganizerPayouts : Subtotal[TicketOf[q]] \in Nat
    /\ \A k \in Cases : CaseRefund[k] \in Nat /\ FeeReversal(k) \in Nat
  BY Amounts, FeeReversalType DEF Gross

LEMMA NoticeType == ASSUME Postings PROVE \A x \in Notices : Noticed(x) \in Nat
  BY ChargebackMoves DEF Notices, Noticed

\* The escrow pool: a booking leaves its subtotal there until it is given back or
\* released; what passes for tickets and chargebacks leaves nothing.
LEMMA EscrowMoves ==
    ASSUME Postings
    PROVE  /\ \A p \in Payments : CaptureMove(Escrow, p) = IF payment[p] = "initiated" THEN 0 ELSE Subtotal[p]
           /\ \A k \in RefundKeys : RefundMove(Escrow, k) = 0 - Returned[k]
           /\ \A x \in Notices : ChargebackMove(Escrow, x) = 0
           /\ \A po \in Payouts :
                ReleaseMove(Escrow, po) = IF settlement[po] = "none" THEN 0 ELSE 0 - Subtotal[PaymentOf[po]]
           /\ \A t \in TicketPayments : TicketMove(Escrow, t) = 0
           /\ \A k \in Cases : CaseMove(Escrow, k) = 0
           /\ \A q \in OrganizerPayouts : OrganizerReleaseMove(Escrow, q) = 0
  <1>0. \A n : /\ In({Escrow}, Escrow, n) = n /\ In({Escrow}, Psp, n) = 0
               /\ In({Escrow}, PlatformFees, n) = 0 /\ In({Escrow}, PayoutClearing, n) = 0
               /\ \A v : In({Escrow}, VendorPayable(v), n) = 0
               /\ \A o : In({Escrow}, OrganizerPayable(o), n) = 0
    BY AccountsDiffer DEF In
  <1>1. ASSUME NEW p \in Payments
        PROVE  CaptureMove(Escrow, p) = IF payment[p] = "initiated" THEN 0 ELSE Subtotal[p]
    <2>1. Subtotal[p] \in Nat /\ Fee[p] \in Nat /\ Gross(p) = Subtotal[p] + Fee[p]
      BY RowAmounts
    <2>2. CaptureMove(Escrow, p) = IF payment[p] = "initiated" THEN 0 ELSE (Gross(p) - 0) + (0 - Fee[p])
      BY <1>0 DEF CaptureMove
    <2> QED BY <2>1, <2>2
  <1>2. /\ \A k \in RefundKeys : RefundMove(Escrow, k) = 0 - Returned[k]
        /\ \A x \in Notices : ChargebackMove(Escrow, x) = 0
    BY <1>0 DEF RefundMove, ChargebackMove
  <1>3. \A po \in Payouts :
          ReleaseMove(Escrow, po) = IF settlement[po] = "none" THEN 0 ELSE 0 - Subtotal[PaymentOf[po]]
    BY <1>0 DEF ReleaseMove
  <1>4. ASSUME NEW t \in TicketPayments PROVE TicketMove(Escrow, t) = 0
    <2>1. Subtotal[t] \in Nat /\ Fee[t] \in Nat /\ Gross(t) = Subtotal[t] + Fee[t]
      BY RowAmounts
    <2>2. TicketMove(Escrow, t) =
            IF ticketPayment[t] = "initiated" THEN 0 ELSE (Gross(t) - 0) + (0 - Fee[t]) + (0 - Subtotal[t])
      BY <1>0 DEF TicketMove
    <2> QED BY <2>1, <2>2
  <1>5. /\ \A k \in Cases : CaseMove(Escrow, k) = 0
        /\ \A q \in OrganizerPayouts : OrganizerReleaseMove(Escrow, q) = 0
    BY <1>0 DEF CaseMove, OrganizerReleaseMove
  <1> QED BY <1>1, <1>2, <1>3, <1>4, <1>5

\* An account's balance, row by row.
LEMMA BalanceOfRows ==
    ASSUME Postings, NEW a
    PROVE  Balance(a) =
             SumFunctionOnSet([p \in Payments |-> CaptureMove(a, p)], Payments)
             + SumFunctionOnSet([k \in RefundKeys |-> RefundMove(a, k)], RefundKeys)
             + SumFunctionOnSet([x \in Notices |-> ChargebackMove(a, x)], Notices)
             + SumFunctionOnSet([po \in Payouts |-> ReleaseMove(a, po)], Payouts)
             + SumFunctionOnSet([t \in TicketPayments |-> TicketMove(a, t)], TicketPayments)
             + SumFunctionOnSet([k \in Cases |-> CaseMove(a, k)], Cases)
             + SumFunctionOnSet([q \in OrganizerPayouts |-> OrganizerReleaseMove(a, q)], OrganizerPayouts)
  <1> DEFINE f == Moves(a)
  <1>1. \A k \in Keys : f[k] \in Int
    BY MovesType
  <1>2. Balance(a) = SumFunctionOnSet(f, Keys)
    BY BalanceIsSum
  <1>3. /\ [p \in Payments |-> f[CaptureKey(p)]] = [p \in Payments |-> CaptureMove(a, p)]
        /\ [k \in RefundKeys |-> f[RefundKey(k)]] = [k \in RefundKeys |-> RefundMove(a, k)]
        /\ [x \in Notices |-> f[ChargebackKey(x[1], x[2])]] = [x \in Notices |-> ChargebackMove(a, x)]
        /\ [po \in Payouts |-> f[ReleaseKey(po)]] = [po \in Payouts |-> ReleaseMove(a, po)]
        /\ [t \in TicketPayments |-> f[TicketCaptureKey(t)]] = [t \in TicketPayments |-> TicketMove(a, t)]
        /\ [k \in Cases |-> f[TicketRefundKey(k)]] = [k \in Cases |-> CaseMove(a, k)]
        /\ [q \in OrganizerPayouts |-> f[OrganizerReleaseKey(q)]]
             = [q \in OrganizerPayouts |-> OrganizerReleaseMove(a, q)]
    BY AccountMoves
  <1> HIDE DEF f
  <1>4. SumFunctionOnSet(f, Keys) =
             SumFunctionOnSet(f, CaptureKeys) + SumFunctionOnSet(f, RefundedKeys)
             + SumFunctionOnSet(f, ChargebackKeys) + SumFunctionOnSet(f, ReleaseKeys)
             + SumFunctionOnSet(f, TicketKeys) + SumFunctionOnSet(f, CaseKeys)
             + SumFunctionOnSet(f, OrganizerReleaseKeys)
    BY <1>1, KeysTotal
  <1>5. /\ SumFunctionOnSet(f, CaptureKeys) = SumFunctionOnSet([p \in Payments |-> CaptureMove(a, p)], Payments)
        /\ SumFunctionOnSet(f, RefundedKeys) = SumFunctionOnSet([k \in RefundKeys |-> RefundMove(a, k)], RefundKeys)
        /\ SumFunctionOnSet(f, ChargebackKeys) = SumFunctionOnSet([x \in Notices |-> ChargebackMove(a, x)], Notices)
        /\ SumFunctionOnSet(f, ReleaseKeys) = SumFunctionOnSet([po \in Payouts |-> ReleaseMove(a, po)], Payouts)
        /\ SumFunctionOnSet(f, TicketKeys)
             = SumFunctionOnSet([t \in TicketPayments |-> TicketMove(a, t)], TicketPayments)
        /\ SumFunctionOnSet(f, CaseKeys) = SumFunctionOnSet([k \in Cases |-> CaseMove(a, k)], Cases)
        /\ SumFunctionOnSet(f, OrganizerReleaseKeys)
             = SumFunctionOnSet([q \in OrganizerPayouts |-> OrganizerReleaseMove(a, q)], OrganizerPayouts)
    BY <1>1, <1>3, FamilyTotals
  <1> QED BY <1>2, <1>4, <1>5

\* What some rows put into an account, or take from it, and others do not.
LEMMA SomeMoved ==
    ASSUME NEW f, NEW g, NEW S, IsFiniteSet(S), NEW T \in SUBSET S, \A x \in S : f[x] \in Int,
           \A x \in T : g[x] = f[x], \A x \in S \ T : g[x] = 0
    PROVE  /\ SumFunctionOnSet(g, S) = SumOf(f, T)
           /\ SumOf(f, T) \in Int /\ IsFiniteSet(T) /\ SumOf(f, T) = SumFunctionOnSet(f, T)
  <1>1. IsFiniteSet(T)
    BY FS_Subset
  <1>2. SumFunctionOnSet(g, S) = SumFunctionOnSet(f, T)
    BY SumChosen
  <1>3. SumFunctionOnSet(f, T) \in Int
    BY <1>1, SumType
  <1> QED BY <1>1, <1>2, <1>3, SumOfIsSum

LEMMA SomeTaken ==
    ASSUME NEW f, NEW g, NEW S, IsFiniteSet(S), NEW T \in SUBSET S, \A x \in S : f[x] \in Int,
           \A x \in T : g[x] = 0 - f[x], \A x \in S \ T : g[x] = 0
    PROVE  /\ SumFunctionOnSet(g, S) = 0 - SumOf(f, T)
           /\ SumOf(f, T) \in Int /\ IsFiniteSet(T) /\ SumOf(f, T) = SumFunctionOnSet(f, T)
  <1> DEFINE h == [x \in S |-> 0 - f[x]]
  <1>1. IsFiniteSet(T)
    BY FS_Subset
  <1>2. /\ \A x \in S : h[x] \in Int
        /\ \A x \in T : g[x] = h[x] /\ f[x] \in Int /\ h[x] = 0 - f[x]
    OBVIOUS
  <1> HIDE DEF h
  <1>3. SumFunctionOnSet(g, S) = SumFunctionOnSet(h, T)
    BY <1>2, SumChosen
  <1>4. SumFunctionOnSet(h, T) = 0 - SumFunctionOnSet(f, T)
    BY <1>1, <1>2, SumMinus
  <1>5. SumFunctionOnSet(f, T) \in Int
    BY <1>1, <1>2, SumType
  <1> QED BY <1>1, <1>3, <1>4, <1>5, SumOfIsSum

Settled == {po \in Payouts : settlement[po] # "none"}

LEMMA EscrowBalanceIs ==
    ASSUME Inv, Postings
    PROVE  /\ EscrowBalance = SumOf(Subtotal, Captured) - SumFunctionOnSet(Returned, RefundKeys)
                              - SumOf(PayoutAmount, Settled)
           /\ SumOf(Subtotal, Captured) \in Int /\ SumFunctionOnSet(Returned, RefundKeys) \in Int
           /\ SumOf(PayoutAmount, Settled) \in Int
  <1> DEFINE capture == [p \in Payments |-> CaptureMove(Escrow, p)]
             refund == [k \in RefundKeys |-> RefundMove(Escrow, k)]
             chargeback == [x \in Notices |-> ChargebackMove(Escrow, x)]
             release == [po \in Payouts |-> ReleaseMove(Escrow, po)]
             ticket == [t \in TicketPayments |-> TicketMove(Escrow, t)]
             case == [k \in Cases |-> CaseMove(Escrow, k)]
             paid == [q \in OrganizerPayouts |-> OrganizerReleaseMove(Escrow, q)]
  <1>1. EscrowBalance =
             SumFunctionOnSet(capture, Payments) + SumFunctionOnSet(refund, RefundKeys)
             + SumFunctionOnSet(chargeback, Notices) + SumFunctionOnSet(release, Payouts)
             + SumFunctionOnSet(ticket, TicketPayments) + SumFunctionOnSet(case, Cases)
             + SumFunctionOnSet(paid, OrganizerPayouts)
    BY BalanceOfRows DEF EscrowBalance
  <1>2. /\ Captured \in SUBSET Payments
        /\ \A p \in Captured : capture[p] = Subtotal[p]
        /\ \A p \in Payments \ Captured : capture[p] = 0
        /\ \A p \in Payments : Subtotal[p] \in Int
    BY EscrowMoves, RowAmounts DEF Captured
  <1>3. /\ \A k \in RefundKeys : refund[k] = 0 - Returned[k]
        /\ \A k \in RefundKeys : Returned[k] \in Int
    BY EscrowMoves, RefundMoves
  <1>4. /\ \A x \in Notices : chargeback[x] = 0
        /\ \A t \in TicketPayments : ticket[t] = 0
        /\ \A k \in Cases : case[k] = 0
        /\ \A q \in OrganizerPayouts : paid[q] = 0
    BY EscrowMoves
  <1>5. /\ Settled \in SUBSET Payouts
        /\ \A po \in Settled : release[po] = 0 - PayoutAmount[po]
        /\ \A po \in Payouts \ Settled : release[po] = 0
        /\ \A po \in Payouts : PayoutAmount[po] \in Int
    BY EscrowMoves, RowAmounts DEF Settled, PayoutAmount
  <1> HIDE DEF capture, refund, chargeback, release, ticket, case, paid
  <1>6. /\ IsFiniteSet(Payments) /\ IsFiniteSet(RefundKeys) /\ IsFiniteSet(Notices) /\ IsFiniteSet(Payouts)
        /\ IsFiniteSet(TicketPayments) /\ IsFiniteSet(Cases) /\ IsFiniteSet(OrganizerPayouts)
    BY TablesAssumption, NoticesFinite
  <1>7. SumFunctionOnSet(capture, Payments) = SumOf(Subtotal, Captured) /\ SumOf(Subtotal, Captured) \in Int
    BY <1>2, <1>6, SomeMoved
  <1>8. SumFunctionOnSet(refund, RefundKeys) = 0 - SumFunctionOnSet(Returned, RefundKeys)
    BY <1>3, <1>6, SumMinus
  <1>9. SumFunctionOnSet(Returned, RefundKeys) \in Int
    BY <1>3, <1>6, SumType
  <1>10. /\ SumFunctionOnSet(chargeback, Notices) = 0 /\ SumFunctionOnSet(ticket, TicketPayments) = 0
         /\ SumFunctionOnSet(case, Cases) = 0 /\ SumFunctionOnSet(paid, OrganizerPayouts) = 0
    BY <1>4, <1>6, SumZero
  <1>11. SumFunctionOnSet(release, Payouts) = 0 - SumOf(PayoutAmount, Settled) /\ SumOf(PayoutAmount, Settled) \in Int
    BY <1>5, <1>6, SomeTaken
  <1> QED BY <1>1, <1>7, <1>8, <1>9, <1>10, <1>11

LEMMA EscrowIsCovered ==
    ASSUME Inv, Postings, RefundsCovered PROVE EscrowCovered
  <1>1. SumOf(refunded, Payments) = SumFunctionOnSet(refunded, Payments)
    BY TablesAssumption, SumOfIsSum
  <1>2. SumFunctionOnSet(refunded, Payments) \in Int
    <2>1. \A p \in Payments : refunded[p] \in Int
      BY DEF Inv, TypeOK
    <2> QED BY <2>1, TablesAssumption, SumType
  <1>3. Settled = {po \in Payouts : settlement[po] # "none"}
    BY DEF Settled
  <1> QED BY <1>1, <1>2, <1>3, EscrowBalanceIs DEF EscrowCovered, RefundsCovered

\* The pool never holds less than what it owes for bookings, whichever requests,
\* keys, notices, builds and tickets there were.
THEOREM EscrowCoveredCorrect == Spec => []EscrowCovered
  <1>1. Inv /\ Book => EscrowCovered
    BY EscrowIsCovered DEF Book
  <1> QED BY BookInductive, <1>1, PTL

-----------------------------------------------------------------------------
(* The platform's fees                                                     *)

LEMMA FeeMoves ==
    ASSUME Postings
    PROVE  /\ \A p \in Payments : CaptureMove(PlatformFees, p) = IF payment[p] = "initiated" THEN 0 ELSE Fee[p]
           /\ \A k \in RefundKeys : RefundMove(PlatformFees, k) = 0
           /\ \A x \in Notices : ChargebackMove(PlatformFees, x) = 0
           /\ \A po \in Payouts : ReleaseMove(PlatformFees, po) = 0
           /\ \A t \in TicketPayments :
                TicketMove(PlatformFees, t) = IF ticketPayment[t] = "initiated" THEN 0 ELSE Fee[t]
           /\ \A k \in Cases :
                CaseMove(PlatformFees, k) = IF Posted(TicketRefundKey(k)) THEN 0 - FeeReversal(k) ELSE 0
           /\ \A q \in OrganizerPayouts : OrganizerReleaseMove(PlatformFees, q) = 0
  <1> DEFINE F == {PlatformFees}
  <1>0. \A n : /\ In(F, PlatformFees, n) = n /\ In(F, Psp, n) = 0
               /\ In(F, Escrow, n) = 0 /\ In(F, PayoutClearing, n) = 0
               /\ \A v : In(F, VendorPayable(v), n) = 0
               /\ \A o : In(F, OrganizerPayable(o), n) = 0
    BY AccountsDiffer DEF In
  <1>1. ASSUME NEW p \in Payments
        PROVE  CaptureMove(PlatformFees, p) = IF payment[p] = "initiated" THEN 0 ELSE Fee[p]
    <2>1. CaptureMove(PlatformFees, p) = IF payment[p] = "initiated" THEN 0 ELSE (0 - 0) + (Fee[p] - 0)
      BY <1>0 DEF CaptureMove
    <2> QED BY <2>1, RowAmounts
  <1>2. /\ \A k \in RefundKeys : RefundMove(PlatformFees, k) = 0
        /\ \A x \in Notices : ChargebackMove(PlatformFees, x) = 0
        /\ \A po \in Payouts : ReleaseMove(PlatformFees, po) = 0
        /\ \A q \in OrganizerPayouts : OrganizerReleaseMove(PlatformFees, q) = 0
    BY <1>0 DEF RefundMove, ChargebackMove, ReleaseMove, OrganizerReleaseMove
  <1>3. ASSUME NEW t \in TicketPayments
        PROVE  TicketMove(PlatformFees, t) = IF ticketPayment[t] = "initiated" THEN 0 ELSE Fee[t]
    <2>1. TicketMove(PlatformFees, t)
            = IF ticketPayment[t] = "initiated" THEN 0 ELSE (0 - 0) + (Fee[t] - 0) + (0 - 0)
      BY <1>0 DEF TicketMove
    <2> QED BY <2>1, RowAmounts
  <1>4. ASSUME NEW k \in Cases
        PROVE  CaseMove(PlatformFees, k) = IF Posted(TicketRefundKey(k)) THEN 0 - FeeReversal(k) ELSE 0
    <2>1. CaseMove(PlatformFees, k) = IF Posted(TicketRefundKey(k)) THEN 0 - 0 - FeeReversal(k) ELSE 0
      BY <1>0 DEF CaseMove
    <2> QED BY <2>1, RowAmounts
  <1> QED BY <1>1, <1>2, <1>3, <1>4

LEMMA ReversalsAsSum ==
    ASSUME NEW S
    PROVE  MapThenSumSet(LAMBDA k : FeeReversal(k), S) = SumFunctionOnSet([k \in S |-> FeeReversal(k)], S)
  BY Zenon DEF SumFunctionOnSet, FoldFunctionOnSet, MapThenSumSet, MapThenFoldSet

\* The fees that the platform holds.
FeesBalance ==
    Balance(PlatformFees) =
        SumOf(Fee, Captured) + SumOf(Fee, CapturedTickets)
        - MapThenSumSet(LAMBDA k : FeeReversal(k), {k \in Cases : Posted(TicketRefundKey(k))})

LEMMA FeesAreRight ==
    ASSUME Inv, Postings PROVE FeesBalance
  <1> DEFINE reversed == {k \in Cases : Posted(TicketRefundKey(k))}
             reversal == [k \in Cases |-> FeeReversal(k)]
             listed == [k \in reversed |-> FeeReversal(k)]
             capture == [p \in Payments |-> CaptureMove(PlatformFees, p)]
             refund == [k \in RefundKeys |-> RefundMove(PlatformFees, k)]
             chargeback == [x \in Notices |-> ChargebackMove(PlatformFees, x)]
             release == [po \in Payouts |-> ReleaseMove(PlatformFees, po)]
             ticket == [t \in TicketPayments |-> TicketMove(PlatformFees, t)]
             case == [k \in Cases |-> CaseMove(PlatformFees, k)]
             paid == [q \in OrganizerPayouts |-> OrganizerReleaseMove(PlatformFees, q)]
  <1>1. Balance(PlatformFees) =
             SumFunctionOnSet(capture, Payments) + SumFunctionOnSet(refund, RefundKeys)
             + SumFunctionOnSet(chargeback, Notices) + SumFunctionOnSet(release, Payouts)
             + SumFunctionOnSet(ticket, TicketPayments) + SumFunctionOnSet(case, Cases)
             + SumFunctionOnSet(paid, OrganizerPayouts)
    BY BalanceOfRows
  <1>2. /\ Captured \in SUBSET Payments
        /\ \A p \in Captured : capture[p] = Fee[p]
        /\ \A p \in Payments \ Captured : capture[p] = 0
        /\ \A p \in Payments : Fee[p] \in Int
    BY FeeMoves, RowAmounts DEF Captured
  <1>3. /\ CapturedTickets \in SUBSET TicketPayments
        /\ \A t \in CapturedTickets : ticket[t] = Fee[t]
        /\ \A t \in TicketPayments \ CapturedTickets : ticket[t] = 0
        /\ \A t \in TicketPayments : Fee[t] \in Int
    BY FeeMoves, RowAmounts DEF CapturedTickets, Inv, TypeOK
  <1>4. /\ \A k \in RefundKeys : refund[k] = 0
        /\ \A x \in Notices : chargeback[x] = 0
        /\ \A po \in Payouts : release[po] = 0
        /\ \A q \in OrganizerPayouts : paid[q] = 0
    BY FeeMoves
  <1>5. /\ reversed \in SUBSET Cases
        /\ \A k \in reversed : case[k] = 0 - reversal[k]
        /\ \A k \in reversed : listed[k] = reversal[k]
        /\ \A k \in Cases \ reversed : case[k] = 0
        /\ \A k \in Cases : reversal[k] \in Int
    BY FeeMoves, RowAmounts
  <1>6. MapThenSumSet(LAMBDA k : FeeReversal(k), reversed) = SumFunctionOnSet(listed, reversed)
    BY ReversalsAsSum
  <1> HIDE DEF reversal, listed, capture, refund, chargeback, release, ticket, case, paid
  <1>7. /\ IsFiniteSet(Payments) /\ IsFiniteSet(RefundKeys) /\ IsFiniteSet(Notices) /\ IsFiniteSet(Payouts)
        /\ IsFiniteSet(TicketPayments) /\ IsFiniteSet(Cases) /\ IsFiniteSet(OrganizerPayouts)
    BY TablesAssumption, NoticesFinite
  <1>8. SumFunctionOnSet(capture, Payments) = SumOf(Fee, Captured) /\ SumOf(Fee, Captured) \in Int
    BY <1>2, <1>7, SomeMoved
  <1>9. SumFunctionOnSet(ticket, TicketPayments) = SumOf(Fee, CapturedTickets) /\ SumOf(Fee, CapturedTickets) \in Int
    BY <1>3, <1>7, SomeMoved
  <1>10. /\ SumFunctionOnSet(refund, RefundKeys) = 0 /\ SumFunctionOnSet(chargeback, Notices) = 0
         /\ SumFunctionOnSet(release, Payouts) = 0 /\ SumFunctionOnSet(paid, OrganizerPayouts) = 0
    BY <1>4, <1>7, SumZero
  <1>11. SumFunctionOnSet(case, Cases) = 0 - SumFunctionOnSet(listed, reversed)
         /\ SumFunctionOnSet(listed, reversed) \in Int
    <2> HIDE DEF reversed
    <2>1. /\ SumFunctionOnSet(case, Cases) = 0 - SumOf(reversal, reversed) /\ SumOf(reversal, reversed) \in Int
          /\ IsFiniteSet(reversed) /\ SumOf(reversal, reversed) = SumFunctionOnSet(reversal, reversed)
      BY <1>5, <1>7, SomeTaken
    <2>2. SumFunctionOnSet(listed, reversed) = SumFunctionOnSet(reversal, reversed)
      BY <1>5, <2>1, SumSame
    <2> QED BY <2>1, <2>2
  <1>12. Balance(PlatformFees) = SumOf(Fee, Captured) + SumOf(Fee, CapturedTickets)
                                 - SumFunctionOnSet(listed, reversed)
    BY <1>1, <1>8, <1>9, <1>10, <1>11
  <1> QED BY <1>6, <1>12 DEF FeesBalance

-----------------------------------------------------------------------------
(* Organizers                                                              *)

LEMMA OrganizerMoves ==
    ASSUME Postings, NEW o
    PROVE  /\ \A p \in Payments : CaptureMove(OrganizerPayable(o), p) = 0
           /\ \A k \in RefundKeys : RefundMove(OrganizerPayable(o), k) = 0
           /\ \A x \in Notices : ChargebackMove(OrganizerPayable(o), x) = 0
           /\ \A po \in Payouts : ReleaseMove(OrganizerPayable(o), po) = 0
           /\ \A t \in TicketPayments :
                TicketMove(OrganizerPayable(o), t) =
                    IF ticketPayment[t] # "initiated" /\ OrganizerOf[t] = o THEN Subtotal[t] ELSE 0
           /\ \A k \in Cases :
                CaseMove(OrganizerPayable(o), k) =
                    IF Posted(TicketRefundKey(k)) /\ OrganizerOf[CaseOf[k]] = o THEN 0 - CaseRefund[k] ELSE 0
           /\ \A q \in OrganizerPayouts :
                OrganizerReleaseMove(OrganizerPayable(o), q) =
                    IF Posted(OrganizerReleaseKey(q)) /\ OrganizerOf[TicketOf[q]] = o
                    THEN 0 - Subtotal[TicketOf[q]] ELSE 0
  <1> DEFINE own == {OrganizerPayable(o)}
  <1>0. \A n : /\ In(own, PlatformFees, n) = 0 /\ In(own, Psp, n) = 0
               /\ In(own, Escrow, n) = 0 /\ In(own, PayoutClearing, n) = 0
               /\ \A v : In(own, VendorPayable(v), n) = 0
               /\ \A w : In(own, OrganizerPayable(w), n) = IF w = o THEN n ELSE 0
    BY AccountsDiffer DEF In
  <1>1. /\ \A p \in Payments : CaptureMove(OrganizerPayable(o), p) = 0
        /\ \A k \in RefundKeys : RefundMove(OrganizerPayable(o), k) = 0
        /\ \A x \in Notices : ChargebackMove(OrganizerPayable(o), x) = 0
        /\ \A po \in Payouts : ReleaseMove(OrganizerPayable(o), po) = 0
    BY <1>0 DEF CaptureMove, RefundMove, ChargebackMove, ReleaseMove
  <1>2. ASSUME NEW t \in TicketPayments
        PROVE  TicketMove(OrganizerPayable(o), t) =
                    IF ticketPayment[t] # "initiated" /\ OrganizerOf[t] = o THEN Subtotal[t] ELSE 0
    <2>1. TicketMove(OrganizerPayable(o), t) =
            IF ticketPayment[t] = "initiated" THEN 0
            ELSE (0 - 0) + (0 - 0) + ((IF OrganizerOf[t] = o THEN Subtotal[t] ELSE 0) - 0)
      BY <1>0 DEF TicketMove
    <2> QED BY <2>1, RowAmounts
  <1>3. ASSUME NEW k \in Cases
        PROVE  CaseMove(OrganizerPayable(o), k) =
                    IF Posted(TicketRefundKey(k)) /\ OrganizerOf[CaseOf[k]] = o THEN 0 - CaseRefund[k] ELSE 0
    <2>1. CaseMove(OrganizerPayable(o), k) =
            IF ~Posted(TicketRefundKey(k)) THEN 0
            ELSE 0 - (IF OrganizerOf[CaseOf[k]] = o THEN CaseRefund[k] ELSE 0) - 0
      BY <1>0 DEF CaseMove
    <2> QED BY <2>1, RowAmounts
  <1>4. ASSUME NEW q \in OrganizerPayouts
        PROVE  OrganizerReleaseMove(OrganizerPayable(o), q) =
                    IF Posted(OrganizerReleaseKey(q)) /\ OrganizerOf[TicketOf[q]] = o
                    THEN 0 - Subtotal[TicketOf[q]] ELSE 0
    <2>1. OrganizerReleaseMove(OrganizerPayable(o), q) =
            IF ~Posted(OrganizerReleaseKey(q)) THEN 0
            ELSE 0 - (IF OrganizerOf[TicketOf[q]] = o THEN Subtotal[TicketOf[q]] ELSE 0)
      BY <1>0 DEF OrganizerReleaseMove
    <2> QED BY <2>1, RowAmounts
  <1> QED BY <1>1, <1>2, <1>3, <1>4

\* No transaction of another family touches an organizer's account, so the three
\* reasons that the summary selects are all of its balance.
LEMMA OrganizerPayableIsBalance ==
    ASSUME Postings, NEW o
    PROVE  NetOrganizerPayable(o) = Balance(OrganizerPayable(o))
  <1> DEFINE a == OrganizerPayable(o)
             reasons == {"payment_capture_ticket", "payment_refund_ticket", "payout_organizer_release"}
             S == {k \in Keys : k.reason \in reasons}
             f == Moves(a)
  <1>1. NetOrganizerPayable(o) = SumFunctionOnSet(f, S)
    BY NetForIsSum DEF NetOrganizerPayable
  <1>2. Balance(a) = SumFunctionOnSet(f, Keys)
    BY BalanceIsSum
  <1>3. \A k \in Keys : f[k] \in Int
    BY MovesType
  <1>4. ASSUME NEW k \in Keys \ S PROVE f[k] = 0
    <2>1. k \in CaptureKeys \cup RefundedKeys \cup ChargebackKeys \cup ReleaseKeys
      BY KeyFamilies
    <2>2. CASE k \in CaptureKeys
      BY <2>2, AccountMoves, OrganizerMoves DEF CaptureKeys
    <2>3. CASE k \in RefundedKeys
      BY <2>3, AccountMoves, OrganizerMoves DEF RefundedKeys
    <2>4. CASE k \in ChargebackKeys
      BY <2>4, AccountMoves, OrganizerMoves DEF ChargebackKeys
    <2>5. CASE k \in ReleaseKeys
      BY <2>5, AccountMoves, OrganizerMoves DEF ReleaseKeys
    <2> QED BY <2>1, <2>2, <2>3, <2>4, <2>5
  <1>5. S \in SUBSET Keys
    OBVIOUS
  <1> HIDE DEF f, S
  <1>6. SumFunctionOnSet(f, Keys) = SumFunctionOnSet(f, S)
    BY <1>3, <1>4, <1>5, KeysFinite, SumSubset
  <1> QED BY <1>1, <1>2, <1>6

LEMMA TicketSharesAsSum ==
    ASSUME NEW S
    PROVE  MapThenSumSet(LAMBDA q : Subtotal[TicketOf[q]], S)
             = SumFunctionOnSet([q \in S |-> Subtotal[TicketOf[q]]], S)
  BY Zenon DEF SumFunctionOnSet, FoldFunctionOnSet, MapThenSumSet, MapThenFoldSet

LEMMA OrganizerBalanceIs ==
    ASSUME Inv, Postings, NEW o
    PROVE  NetOrganizerPayable(o) =
             TicketRevenue(o) - SumOf(CaseRefund, RefundsPosted(o))
             - MapThenSumSet(LAMBDA q : Subtotal[TicketOf[q]], ReleasesPosted(o))
  <1> DEFINE a == OrganizerPayable(o)
             R == RefundsPosted(o)
             P == ReleasesPosted(o)
             T == TicketsOf(o)
             share == [q \in OrganizerPayouts |-> Subtotal[TicketOf[q]]]
             listed == [q \in P |-> Subtotal[TicketOf[q]]]
             capture == [p \in Payments |-> CaptureMove(a, p)]
             refund == [k \in RefundKeys |-> RefundMove(a, k)]
             chargeback == [x \in Notices |-> ChargebackMove(a, x)]
             release == [po \in Payouts |-> ReleaseMove(a, po)]
             ticket == [t \in TicketPayments |-> TicketMove(a, t)]
             case == [k \in Cases |-> CaseMove(a, k)]
             paid == [q \in OrganizerPayouts |-> OrganizerReleaseMove(a, q)]
  <1>1. NetOrganizerPayable(o) =
             SumFunctionOnSet(capture, Payments) + SumFunctionOnSet(refund, RefundKeys)
             + SumFunctionOnSet(chargeback, Notices) + SumFunctionOnSet(release, Payouts)
             + SumFunctionOnSet(ticket, TicketPayments) + SumFunctionOnSet(case, Cases)
             + SumFunctionOnSet(paid, OrganizerPayouts)
    BY BalanceOfRows, OrganizerPayableIsBalance
  <1>2. /\ \A p \in Payments : capture[p] = 0
        /\ \A k \in RefundKeys : refund[k] = 0
        /\ \A x \in Notices : chargeback[x] = 0
        /\ \A po \in Payouts : release[po] = 0
    BY OrganizerMoves
  <1>3. /\ T \in SUBSET TicketPayments
        /\ \A t \in T : ticket[t] = Subtotal[t]
        /\ \A t \in TicketPayments \ T : ticket[t] = 0
        /\ \A t \in TicketPayments : Subtotal[t] \in Int
    BY OrganizerMoves, RowAmounts DEF TicketsOf, CapturedTickets, Inv, TypeOK
  <1>4. /\ R \in SUBSET Cases
        /\ \A k \in R : case[k] = 0 - CaseRefund[k]
        /\ \A k \in Cases \ R : case[k] = 0
        /\ \A k \in Cases : CaseRefund[k] \in Int
    BY OrganizerMoves, RowAmounts DEF RefundsPosted
  <1>5. /\ P \in SUBSET OrganizerPayouts
        /\ \A q \in P : paid[q] = 0 - share[q]
        /\ \A q \in OrganizerPayouts \ P : paid[q] = 0
        /\ \A q \in OrganizerPayouts : share[q] \in Int
    BY OrganizerMoves, RowAmounts DEF ReleasesPosted
  <1>l. \A q \in P : listed[q] = share[q]
    BY <1>5
  <1>6. /\ MapThenSumSet(LAMBDA q : Subtotal[TicketOf[q]], P) = SumFunctionOnSet(listed, P)
        /\ TicketRevenue(o) = SumOf(Subtotal, T)
    BY TicketSharesAsSum DEF TicketRevenue
  <1> HIDE DEF R, P, T, share, listed, capture, refund, chargeback, release, ticket, case, paid
  <1>7. /\ IsFiniteSet(Payments) /\ IsFiniteSet(RefundKeys) /\ IsFiniteSet(Notices) /\ IsFiniteSet(Payouts)
        /\ IsFiniteSet(TicketPayments) /\ IsFiniteSet(Cases) /\ IsFiniteSet(OrganizerPayouts)
    BY TablesAssumption, NoticesFinite
  <1>8. /\ SumFunctionOnSet(capture, Payments) = 0 /\ SumFunctionOnSet(refund, RefundKeys) = 0
        /\ SumFunctionOnSet(chargeback, Notices) = 0 /\ SumFunctionOnSet(release, Payouts) = 0
    BY <1>2, <1>7, SumZero
  <1>9. SumFunctionOnSet(ticket, TicketPayments) = SumOf(Subtotal, T) /\ SumOf(Subtotal, T) \in Int
    BY <1>3, <1>7, SomeMoved
  <1>10. SumFunctionOnSet(case, Cases) = 0 - SumOf(CaseRefund, R) /\ SumOf(CaseRefund, R) \in Int
    BY <1>4, <1>7, SomeTaken
  <1>11. /\ SumFunctionOnSet(paid, OrganizerPayouts) = 0 - SumOf(share, P) /\ SumOf(share, P) \in Int
         /\ IsFiniteSet(P) /\ SumOf(share, P) = SumFunctionOnSet(share, P)
    <2>1. IsFiniteSet(OrganizerPayouts)
      BY <1>7
    <2> QED BY <1>5, <2>1, SomeTaken
  <1>12. SumFunctionOnSet(listed, P) = SumFunctionOnSet(share, P)
    BY <1>l, <1>11, SumSame
  <1>13. NetOrganizerPayable(o) = TicketRevenue(o) - SumOf(CaseRefund, R)
                                  - MapThenSumSet(LAMBDA q : Subtotal[TicketOf[q]], P)
    BY <1>1, <1>6, <1>8, <1>9, <1>10, <1>11, <1>12
  <1> QED BY <1>13 DEF R, P

\* The rows of the timeline are those of the organizer's captured tickets.
LEMMA TicketRows ==
    ASSUME Inv, Postings, NEW o
    PROVE  /\ {s \in TicketPayments : OrganizerOf[s] = o /\ Posted(TicketCaptureKey(s))} = TicketsOf(o)
           /\ IsFiniteSet(TicketsOf(o)) /\ TicketsOf(o) \in SUBSET TicketPayments
           /\ \A t \in TicketsOf(o) :
                /\ Net(LinesOf(ledger[TicketCaptureKey(t)], OrganizerPayable(o))) = Subtotal[t]
                /\ Net(LinesOf(ledger[TicketCaptureKey(t)], PlatformFees)) = Fee[t]
                /\ Subtotal[t] \in Int /\ Fee[t] \in Int
  <1>1. {s \in TicketPayments : OrganizerOf[s] = o /\ Posted(TicketCaptureKey(s))} = TicketsOf(o)
    BY DEF TicketsOf, CapturedTickets, Inv, TypeOK, CapturesArePosted
  <1>2. TicketsOf(o) \in SUBSET TicketPayments
    BY DEF TicketsOf, CapturedTickets
  <1>3. IsFiniteSet(TicketsOf(o))
    BY <1>2, TablesAssumption, FS_Subset
  <1>4. ASSUME NEW t \in TicketsOf(o)
        PROVE  /\ Net(LinesOf(ledger[TicketCaptureKey(t)], OrganizerPayable(o))) = Subtotal[t]
               /\ Net(LinesOf(ledger[TicketCaptureKey(t)], PlatformFees)) = Fee[t]
               /\ Subtotal[t] \in Int /\ Fee[t] \in Int
    <2>1. t \in TicketPayments /\ OrganizerOf[t] = o /\ ticketPayment[t] # "initiated"
      BY DEF TicketsOf, CapturedTickets
    <2>2. /\ Net(LinesOf(ledger[TicketCaptureKey(t)], OrganizerPayable(o))) = TicketMove(OrganizerPayable(o), t)
          /\ Net(LinesOf(ledger[TicketCaptureKey(t)], PlatformFees)) = TicketMove(PlatformFees, t)
      BY <2>1, KeysExist, MovesType, AccountMoves
    <2>3. TicketMove(OrganizerPayable(o), t) = Subtotal[t] /\ TicketMove(PlatformFees, t) = Fee[t]
      BY <2>1, OrganizerMoves, FeeMoves
    <2> QED BY <2>1, <2>2, <2>3, RowAmounts
  <1> QED BY <1>1, <1>2, <1>3, <1>4

LEMMA SalesAgree ==
    ASSUME Inv, Postings, NEW o PROVE SumOfRows(CaptureRows(o)) = TicketRevenue(o)
  <1> DEFINE S == TicketsOf(o)
             h == [t \in S |-> Timeline("ticket_sale", TicketCaptureKey(t),
                                        Net(LinesOf(ledger[TicketCaptureKey(t)], OrganizerPayable(o))))]
  <1>1. CaptureRows(o) = {h[t] : t \in S}
    BY TicketRows DEF CaptureRows
  <1>2. /\ \A t \in S : Subtotal[t] \in Int /\ h[t].amount = Subtotal[t]
        /\ \A t, u \in S : h[t] = h[u] => t = u
    BY TicketRows, KeysNameRows DEF Timeline
  <1>3. IsFiniteSet(S) /\ TicketRevenue(o) = SumOf(Subtotal, S)
    BY TicketRows DEF TicketRevenue
  <1> HIDE DEF S, h
  <1>4. SumOfRows({h[t] : t \in S}) = SumFunctionOnSet(Subtotal, S)
    BY <1>2, <1>3, SumOfList
  <1> QED BY <1>1, <1>3, <1>4, SumOfIsSum

LEMMA SoldFeesAgree ==
    ASSUME Inv, Postings, NEW o PROVE SumOfRows(FeeRows(o)) = 0 - PlatformFee(o)
  <1> DEFINE S == TicketsOf(o)
             h == [t \in S |-> Timeline("platform_fee", TicketCaptureKey(t),
                                        0 - Net(LinesOf(ledger[TicketCaptureKey(t)], PlatformFees)))]
             minus == [t \in S |-> 0 - Fee[t]]
  <1>1. FeeRows(o) = {h[t] : t \in S}
    BY TicketRows DEF FeeRows
  <1>2. /\ \A t \in S : Fee[t] \in Int /\ minus[t] = 0 - Fee[t]
        /\ \A t \in S : minus[t] \in Int /\ h[t].amount = minus[t]
        /\ \A t, u \in S : h[t] = h[u] => t = u
    BY TicketRows, KeysNameRows DEF Timeline
  <1>3. IsFiniteSet(S) /\ PlatformFee(o) = SumOf(Fee, S)
    BY TicketRows DEF PlatformFee
  <1> HIDE DEF S, h, minus
  <1>4. SumOfRows({h[t] : t \in S}) = SumFunctionOnSet(minus, S)
    BY <1>2, <1>3, SumOfList
  <1>5. SumFunctionOnSet(minus, S) = 0 - SumFunctionOnSet(Fee, S)
    BY <1>2, <1>3, SumMinus
  <1> QED BY <1>1, <1>3, <1>4, <1>5, SumOfIsSum

LEMMA OrganizersAgree ==
    ASSUME Inv, Postings PROVE OrganizerReportsAgree
  <1> SUFFICES ASSUME NEW o \in Organizers
               PROVE  /\ SumOfRows(CaptureRows(o)) = TicketRevenue(o)
                      /\ SumOfRows(FeeRows(o)) = 0 - PlatformFee(o)
                      /\ AvailableForPayout(o, 0, 0) =
                            AtLeastZero(TicketRevenue(o) - SumOf(CaseRefund, RefundsPosted(o))
                                        - MapThenSumSet(LAMBDA q : Subtotal[TicketOf[q]], ReleasesPosted(o)))
    BY Zenon DEF OrganizerReportsAgree
  <1>1. NetOrganizerPayable(o) - 0 - 0 = NetOrganizerPayable(o)
    <2>1. SumFunctionOnSet(Moves(OrganizerPayable(o)), Keys) \in Int
      BY MovesType, KeysFinite, SumType
    <2> QED BY <2>1, OrganizerPayableIsBalance, BalanceIsSum
  <1>2. AvailableForPayout(o, 0, 0) = AtLeastZero(NetOrganizerPayable(o))
    BY <1>1 DEF AvailableForPayout
  <1> QED BY <1>2, SalesAgree, SoldFeesAgree, OrganizerBalanceIs

\* Sales, fees and what an organizer may be paid are the same by row and by posting.
THEOREM OrganizerReportsCorrect == Spec => []OrganizerReportsAgree
  <1>1. Inv /\ Book => OrganizerReportsAgree
    BY OrganizersAgree DEF Book
  <1> QED BY BookInductive, <1>1, PTL

-----------------------------------------------------------------------------
(* Vendors                                                                 *)

VendorOfPayout(po) == VendorOf[PaymentOf[po]]

LEMMA VendorMoves ==
    ASSUME Postings, NEW v
    PROVE  /\ \A p \in Payments : CaptureMove(VendorPayable(v), p) = 0
           /\ \A k \in RefundKeys : RefundMove(VendorPayable(v), k) = 0
           /\ \A x \in Notices :
                ChargebackMove(VendorPayable(v), x) = IF VendorOf[x[1]] = v THEN 0 - Noticed(x) ELSE 0
           /\ \A po \in Payouts :
                ReleaseMove(VendorPayable(v), po) =
                    IF settlement[po] # "none" /\ VendorOfPayout(po) = v THEN Subtotal[PaymentOf[po]] ELSE 0
  <1> DEFINE own == {VendorPayable(v)}
  <1>0. \A n : /\ In(own, PlatformFees, n) = 0 /\ In(own, Psp, n) = 0
               /\ In(own, Escrow, n) = 0 /\ In(own, PayoutClearing, n) = 0
               /\ \A w : In(own, VendorPayable(w), n) = IF w = v THEN n ELSE 0
    BY AccountsDiffer DEF In
  <1>1. /\ \A p \in Payments : CaptureMove(VendorPayable(v), p) = 0
        /\ \A k \in RefundKeys : RefundMove(VendorPayable(v), k) = 0
    BY <1>0 DEF CaptureMove, RefundMove
  <1>2. ASSUME NEW x \in Notices
        PROVE  ChargebackMove(VendorPayable(v), x) = IF VendorOf[x[1]] = v THEN 0 - Noticed(x) ELSE 0
    BY <1>0 DEF ChargebackMove
  <1>3. ASSUME NEW po \in Payouts
        PROVE  ReleaseMove(VendorPayable(v), po) =
                  IF settlement[po] # "none" /\ VendorOfPayout(po) = v THEN Subtotal[PaymentOf[po]] ELSE 0
    <2>1. ReleaseMove(VendorPayable(v), po) =
            IF settlement[po] = "none" THEN 0
            ELSE (IF VendorOfPayout(po) = v THEN Subtotal[PaymentOf[po]] ELSE 0) - 0
      BY <1>0 DEF ReleaseMove, VendorOfPayout
    <2> QED BY <2>1, RowAmounts
  <1> QED BY <1>1, <1>2, <1>3

\* Which transactions have a line on a vendor's account.
LEMMA VendorLines ==
    ASSUME Postings, NEW v
    PROVE  /\ \A p \in Payments : LinesOf(ledger[CaptureKey(p)], VendorPayable(v)) = {}
           /\ \A k \in RefundKeys : LinesOf(ledger[RefundKey(k)], VendorPayable(v)) = {}
           /\ \A x \in Notices :
                LinesOf(ledger[ChargebackKey(x[1], x[2])], VendorPayable(v)) # {}
                    <=> Posted(ChargebackKey(x[1], x[2])) /\ VendorOf[x[1]] = v
           /\ \A po \in Payouts :
                LinesOf(ledger[ReleaseKey(po)], VendorPayable(v)) # {}
                    <=> settlement[po] # "none" /\ VendorOfPayout(po) = v
  <1> DEFINE a == VendorPayable(v)
  <1>0. /\ a # Psp /\ a # Escrow /\ a # PlatformFees /\ \A w : VendorPayable(w) = a => w = v
    BY AccountsDiffer
  <1> HIDE DEF a
  <1>1. ASSUME NEW p \in Payments PROVE LinesOf(ledger[CaptureKey(p)], a) = {}
    <2>1. \A l \in CaptureLines(Gross(p), Fee[p]) : l.account # a
      BY <1>0 DEF CaptureLines, Positive, Debit, Credit, Line
    <2> QED BY <2>1 DEF Postings, CapturesExact, LinesOf
  <1>2. ASSUME NEW k \in RefundKeys PROVE LinesOf(ledger[RefundKey(k)], a) = {}
    <2>1. \A n \in Nat : \A l \in RefundLines(n) : l.account # a
      BY <1>0 DEF RefundLines, Debit, Credit, Line
    <2> QED BY <2>1 DEF Postings, RefundsExact, LinesOf
  <1>3. ASSUME NEW x \in Notices
        PROVE  LinesOf(ledger[ChargebackKey(x[1], x[2])], a) # {}
                  <=> Posted(ChargebackKey(x[1], x[2])) /\ VendorOf[x[1]] = v
    <2> DEFINE key == ChargebackKey(x[1], x[2])
               w == VendorOf[x[1]]
    <2>1. Posted(key) => ledger[key] = ChargebackLines(w, Noticed(x))
      BY ChargebackMoves DEF Notices, Noticed
    <2>2. /\ \A l \in ChargebackLines(w, Noticed(x)) : l.account = Psp \/ l.account = VendorPayable(w)
          /\ \E l \in ChargebackLines(w, Noticed(x)) : l.account = VendorPayable(w)
      BY DEF ChargebackLines, Debit, Credit, Line
    <2> HIDE DEF key, w
    <2>3. LinesOf(ledger[key], a) # {} <=> Posted(key) /\ w = v
      BY <1>0, <2>1, <2>2 DEF LinesOf, Posted, a
    <2> QED BY <2>3 DEF key, w
  <1>4. ASSUME NEW po \in Payouts
        PROVE  LinesOf(ledger[ReleaseKey(po)], a) # {} <=> settlement[po] # "none" /\ VendorOfPayout(po) = v
    <2> DEFINE w == VendorOfPayout(po)
               lines == PayoutReleaseLines(w, Subtotal[PaymentOf[po]])
    <2>1. ledger[ReleaseKey(po)] = IF settlement[po] = "none" THEN {} ELSE lines
      BY DEF Postings, ReleasesExact, VendorOfPayout
    <2>2. /\ \A l \in lines : l.account = Escrow \/ l.account = VendorPayable(w)
          /\ \E l \in lines : l.account = VendorPayable(w)
      BY DEF PayoutReleaseLines, Debit, Credit, Line
    <2> HIDE DEF w, lines
    <2>3. LinesOf(ledger[ReleaseKey(po)], a) # {} <=> settlement[po] # "none" /\ w = v
      BY <1>0, <2>1, <2>2 DEF LinesOf, a
    <2> QED BY <2>3 DEF w
  <1> QED BY <1>1, <1>2, <1>3, <1>4 DEF a

\* A vendor's timeline has the releases that its settlements made.
LEMMA EarningsAgree ==
    ASSUME Inv, Postings, SettlementsReported, NEW v
    PROVE  SumOfRows({r \in VendorTimeline(v) : r.type = "earning"}) =
              SumOf(PayoutAmount, {po \in VendorPayouts(v) : settlement[po] # "none"})
  <1> DEFINE S == {po \in VendorPayouts(v) : settlement[po] # "none"}
             a == VendorPayable(v)
             h == [po \in S |-> Timeline("earning", ReleaseKey(po), Net(LinesOf(ledger[ReleaseKey(po)], a)))]
             R == {r \in VendorTimeline(v) : r.type = "earning"}
  <1>1. S = {po \in Payouts : settlement[po] # "none" /\ VendorOfPayout(po) = v}
    BY DEF SettlementsReported, VendorPayouts, VendorOfPayout
  <1>2. /\ S \in SUBSET Payouts
        /\ \A po \in S : PayoutAmount[po] \in Int /\ h[po].amount = PayoutAmount[po]
        /\ \A po, other \in S : h[po] = h[other] => po = other
    <2>1. S \in SUBSET Payouts
      BY <1>1
    <2>2. ASSUME NEW po \in S PROVE PayoutAmount[po] \in Int /\ h[po].amount = PayoutAmount[po]
      <3>1. Net(LinesOf(ledger[ReleaseKey(po)], a)) = ReleaseMove(a, po)
        BY <2>1, KeysExist, MovesType, AccountMoves
      <3>2. ReleaseMove(a, po) = PayoutAmount[po]
        BY <1>1, VendorMoves DEF PayoutAmount
      <3>3. PayoutAmount[po] \in Int
        BY <2>1, RowAmounts DEF PayoutAmount
      <3> QED BY <3>1, <3>2, <3>3 DEF Timeline
    <2>3. \A po, other \in S : h[po] = h[other] => po = other
      BY KeysNameRows DEF Timeline
    <2> QED BY <2>1, <2>2, <2>3
  <1>3. R = {h[po] : po \in S}
    <2>1. ASSUME NEW po \in S PROVE h[po] \in R
      <3> DEFINE k == ReleaseKey(po)
      <3>1. k \in Keys /\ k.reason = "payout_escrow_release" /\ LinesOf(ledger[k], a) # {}
        BY <1>1, <1>2, KeysExist, KeyReasons, VendorLines
      <3>2. Posted(k)
        BY <3>1 DEF Posted, LinesOf
      <3>3. h[po] = Timeline("earning", k, Net(LinesOf(ledger[k], a))) /\ h[po].type = "earning"
        BY DEF Timeline
      <3> HIDE DEF k, h
      <3>4. h[po] \in VendorTimeline(v)
        BY <3>1, <3>2, <3>3 DEF VendorTimeline, PostedFor
      <3> QED BY <3>3, <3>4
    <2>2. ASSUME NEW r \in R PROVE \E po \in S : r = h[po]
      <3>1. PICK k \in Keys :
              /\ k.reason \in {"payment_capture_quaser", "payout_escrow_release",
                               "payment_refund", "payment_chargeback"}
              /\ LinesOf(ledger[k], a) # {}
              /\ r = Timeline(IF k.reason \in {"payment_chargeback", "payment_refund"}
                              THEN Adjustment(k.reason) ELSE "earning", k, Net(LinesOf(ledger[k], a)))
        BY DEF VendorTimeline, PostedFor
      <3>2. k.reason \in {"payment_capture_quaser", "payout_escrow_release"}
            /\ r = Timeline("earning", k, Net(LinesOf(ledger[k], a)))
        BY <3>1 DEF Timeline, Adjustment
      <3>3. k \in CaptureKeys \cup ReleaseKeys
        BY <3>2, KeyFamilies
      <3>4. k \notin CaptureKeys
        BY <3>1, VendorLines DEF CaptureKeys
      <3>5. PICK po \in Payouts : k = ReleaseKey(po)
        BY <3>3, <3>4 DEF ReleaseKeys
      <3>6. po \in S
        BY <1>1, <3>1, <3>5, VendorLines
      <3> QED BY <3>2, <3>5, <3>6
    <2> QED BY <2>1, <2>2
  <1>4. IsFiniteSet(S)
    BY <1>2, TablesAssumption, FS_Subset
  <1> HIDE DEF S, h, R
  <1>5. SumOfRows({h[po] : po \in S}) = SumFunctionOnSet(PayoutAmount, S)
    BY <1>2, <1>4, SumOfList
  <1>6. SumOfRows(R) = SumOf(PayoutAmount, S)
    BY <1>3, <1>4, <1>5, SumOfIsSum
  <1> QED BY <1>6 DEF S, R

\* Together the vendors see the chargebacks that staff see.
LEMMA ChargebackKeysAgree ==
    ASSUME Inv, Postings
    PROVE  UNION {Keyed("chargeback", VendorTimeline(v)) : v \in Vendors} = Keyed("chargeback", Transactions)
  <1> DEFINE C == {k \in Keys : k.reason = "payment_chargeback" /\ Posted(k)}
  <1>1. Keyed("chargeback", Transactions) = C
    <2>1. ASSUME NEW k \in C PROVE k \in Keyed("chargeback", Transactions)
      <3> DEFINE row == Timeline(Adjustment(k.reason), k, Abs(Net(ledger[k])))
      <3>1. row \in Transactions
        BY DEF Transactions, PostedFor
      <3>2. row.type = "chargeback" /\ row.key = k
        BY DEF Timeline, Adjustment
      <3> HIDE DEF row
      <3> QED BY <3>1, <3>2 DEF Keyed
    <2>2. ASSUME NEW k \in Keyed("chargeback", Transactions) PROVE k \in C
      <3>1. PICK r \in Transactions : r.type = "chargeback" /\ r.key = k
        BY DEF Keyed
      <3>2. \E j \in PostedFor({"payment_refund", "payment_chargeback"}) :
              r = Timeline(Adjustment(j.reason), j, Abs(Net(ledger[j])))
        BY <3>1 DEF Transactions, Timeline
      <3> QED BY <3>1, <3>2 DEF PostedFor, Timeline, Adjustment
    <2> QED BY <2>1, <2>2
  <1>2. ASSUME NEW v \in Vendors, NEW k \in Keyed("chargeback", VendorTimeline(v)) PROVE k \in C
    <2>1. PICK r \in VendorTimeline(v) : r.type = "chargeback" /\ r.key = k
      BY DEF Keyed
    <2>2. PICK j \in Keys :
            /\ Posted(j)
            /\ j.reason \in {"payment_capture_quaser", "payout_escrow_release",
                             "payment_refund", "payment_chargeback"}
            /\ r = Timeline(IF j.reason \in {"payment_chargeback", "payment_refund"}
                            THEN Adjustment(j.reason) ELSE "earning",
                            j, Net(LinesOf(ledger[j], VendorPayable(v))))
      BY DEF VendorTimeline, PostedFor
    <2> QED BY <2>1, <2>2 DEF Timeline, Adjustment
  <1>3. ASSUME NEW k \in C PROVE \E v \in Vendors : k \in Keyed("chargeback", VendorTimeline(v))
    <2>1. PICK x \in Notices : k = ChargebackKey(x[1], x[2])
      BY KeyFamilies DEF ChargebackKeys
    <2> DEFINE v == VendorOf[x[1]]
               row == Timeline(Adjustment(k.reason), k, Net(LinesOf(ledger[k], VendorPayable(v))))
    <2>2. v \in Vendors
      BY OwnersAssumption DEF Notices
    <2>3. LinesOf(ledger[k], VendorPayable(v)) # {}
      BY <2>1, VendorLines
    <2>4. row \in VendorTimeline(v)
      BY <2>3 DEF VendorTimeline, PostedFor
    <2>5. row.type = "chargeback" /\ row.key = k
      BY DEF Timeline, Adjustment
    <2> HIDE DEF row, v
    <2>6. k \in Keyed("chargeback", VendorTimeline(v))
      BY <2>4, <2>5 DEF Keyed
    <2> QED BY <2>2, <2>6
  <1> HIDE DEF C
  <1>4. UNION {Keyed("chargeback", VendorTimeline(v)) : v \in Vendors} = C
    BY <1>2, <1>3
  <1> QED BY <1>1, <1>4

\* What was charged back from a vendor is all that the summary nets its earnings to.
NoticesOf(v) == {x \in Notices : VendorOf[x[1]] = v}
NoticeAmounts == [x \in Notices |-> Noticed(x)]

LEMMA NetEarningsAre ==
    ASSUME Postings, NEW v
    PROVE  /\ NetEarnings(v) = 0 - SumFunctionOnSet(NoticeAmounts, NoticesOf(v))
           /\ NetEarnings(v) \in Int
           /\ ~HasBalance(v) => NetEarnings(v) = 0
  <1> DEFINE a == VendorPayable(v)
             f == Moves(a)
             capture == [p \in Payments |-> f[CaptureKey(p)]]
             refund == [k \in RefundKeys |-> f[RefundKey(k)]]
             chargeback == [x \in Notices |-> f[ChargebackKey(x[1], x[2])]]
  <1>1. \A k \in Keys : f[k] \in Int
    BY MovesType
  <1>2. /\ {k \in Keys : k.reason \in {"payment_capture_quaser"}} = CaptureKeys
        /\ {k \in Keys : k.reason \in {"payment_refund"}} = RefundedKeys
        /\ {k \in Keys : k.reason \in {"payment_chargeback"}} = ChargebackKeys
    BY KeyFamilies
  <1>3. /\ NetFor(a, {"payment_capture_quaser"}) = SumFunctionOnSet(f, CaptureKeys)
        /\ NetFor(a, {"payment_refund"}) = SumFunctionOnSet(f, RefundedKeys)
        /\ NetFor(a, {"payment_chargeback"}) = SumFunctionOnSet(f, ChargebackKeys)
    <2> HIDE DEF a
    <2> QED BY <1>2, NetForIsSum
  <1>4. /\ \A p \in Payments : capture[p] = 0
        /\ \A k \in RefundKeys : refund[k] = 0
        /\ NoticesOf(v) \in SUBSET Notices
        /\ \A x \in NoticesOf(v) : chargeback[x] = 0 - NoticeAmounts[x]
        /\ \A x \in Notices \ NoticesOf(v) : chargeback[x] = 0
        /\ \A x \in Notices : NoticeAmounts[x] \in Int
    BY AccountMoves, VendorMoves, NoticeType DEF NoticesOf, NoticeAmounts
  <1>5. /\ SumFunctionOnSet(f, CaptureKeys) = SumFunctionOnSet(capture, Payments)
        /\ SumFunctionOnSet(f, RefundedKeys) = SumFunctionOnSet(refund, RefundKeys)
        /\ SumFunctionOnSet(f, ChargebackKeys) = SumFunctionOnSet(chargeback, Notices)
    <2> HIDE DEF f
    <2> QED BY <1>1, FamilyTotals
  <1> HIDE DEF f, capture, refund, chargeback
  <1>6. SumFunctionOnSet(capture, Payments) = 0 /\ SumFunctionOnSet(refund, RefundKeys) = 0
    BY <1>4, TablesAssumption, SumZero
  <1>7. /\ SumFunctionOnSet(chargeback, Notices) = 0 - SumFunctionOnSet(NoticeAmounts, NoticesOf(v))
        /\ SumFunctionOnSet(NoticeAmounts, NoticesOf(v)) \in Int
    <2>1. /\ SumFunctionOnSet(chargeback, Notices) = 0 - SumOf(NoticeAmounts, NoticesOf(v))
          /\ SumOf(NoticeAmounts, NoticesOf(v)) \in Int
          /\ SumOf(NoticeAmounts, NoticesOf(v)) = SumFunctionOnSet(NoticeAmounts, NoticesOf(v))
      BY <1>4, NoticesFinite, SomeTaken
    <2> QED BY <2>1
  <1>8. Earnings(v) = 0 /\ Refunds(v) = 0
        /\ Chargebacks(v) = 0 - (0 - SumFunctionOnSet(NoticeAmounts, NoticesOf(v)))
    BY <1>3, <1>5, <1>6, <1>7 DEF Earnings, Refunds, Chargebacks
  <1>9. NetEarnings(v) = 0 - SumFunctionOnSet(NoticeAmounts, NoticesOf(v)) /\ NetEarnings(v) \in Int
    BY <1>7, <1>8 DEF NetEarnings
  <1>10. ASSUME ~HasBalance(v) PROVE NetEarnings(v) = 0
    <2>1. ASSUME NEW x \in NoticesOf(v) PROVE NoticeAmounts[x] = 0
      <3> DEFINE key == ChargebackKey(x[1], x[2])
      <3>1. key \in Keys /\ key.reason = "payment_chargeback" /\ x \in Notices
        BY KeyFamilies DEF ChargebackKeys, NoticesOf
      <3>2. Posted(key) => LinesOf(ledger[key], a) # {}
        BY <3>1, VendorLines DEF NoticesOf
      <3>3. ~Posted(key)
        <4> HIDE DEF key
        <4> QED BY <1>10, <3>1, <3>2 DEF HasBalance, PostedFor
      <3>4. Noticed(x) = 0
        BY <3>3, NothingDebited DEF Posted, Noticed, ChargedBackBy
      <3> QED BY <3>1, <3>4 DEF NoticeAmounts
    <2>2. IsFiniteSet(NoticesOf(v))
      BY <1>4, NoticesFinite, FS_Subset
    <2>3. SumFunctionOnSet(NoticeAmounts, NoticesOf(v)) = 0
      BY <2>1, <2>2, SumZero
    <2> QED BY <1>9, <2>3
  <1> QED BY <1>9, <1>10

LEMMA NetEarningsAsSum ==
    ASSUME NEW S
    PROVE  MapThenSumSet(NetEarnings, S) = SumFunctionOnSet([v \in S |-> NetEarnings(v)], S)
  BY Zenon DEF SumFunctionOnSet, FoldFunctionOnSet, MapThenSumSet, MapThenFoldSet

LEMMA DebitsAsSum ==
    ASSUME NEW S
    PROVE  MapThenSumSet(LAMBDA k : SumDirection(ledger[k], "debit"), S)
             = SumFunctionOnSet([k \in S |-> SumDirection(ledger[k], "debit")], S)
  BY Zenon DEF SumFunctionOnSet, FoldFunctionOnSet, MapThenSumSet, MapThenFoldSet

\* The debits of the chargebacks in the ledger are the amounts of their notices.
LEMMA ChargebackDebits ==
    ASSUME Postings
    PROVE  /\ MapThenSumSet(LAMBDA k : SumDirection(ledger[k], "debit"), PostedFor({"payment_chargeback"}))
                = SumFunctionOnSet(NoticeAmounts, Notices)
           /\ SumFunctionOnSet(NoticeAmounts, Notices) \in Int
  <1> DEFINE C == PostedFor({"payment_chargeback"})
             f == [k \in Keys |-> SumDirection(ledger[k], "debit")]
             listed == [k \in C |-> SumDirection(ledger[k], "debit")]
             named == [x \in Notices |-> f[ChargebackKey(x[1], x[2])]]
  <1>1. C = {k \in ChargebackKeys : Posted(k)}
    BY KeyFamilies DEF PostedFor
  <1>2. /\ C \in SUBSET ChargebackKeys
        /\ \A k \in Keys : f[k] \in Int
        /\ \A k \in C : listed[k] = f[k]
        /\ \A k \in ChargebackKeys \ C : f[k] = 0
        /\ \A k \in ChargebackKeys : f[k] \in Int
    <2>1. \A k \in Keys : f[k] \in Int
      BY KeysHaveLines, DirectionType
    <2>2. C \in SUBSET ChargebackKeys /\ ChargebackKeys \subseteq Keys
      BY <1>1, KeyFamilies
    <2>3. \A k \in ChargebackKeys \ C : f[k] = 0
      BY <1>1, <2>2, NothingDebited DEF Posted
    <2> QED BY <2>1, <2>2, <2>3
  <1>3. named = NoticeAmounts
    <2>1. \A x \in Notices : ChargebackKey(x[1], x[2]) \in Keys
      BY KeyFamilies DEF ChargebackKeys
    <2> QED BY <2>1 DEF NoticeAmounts, Noticed, ChargedBackBy
  <1>4. MapThenSumSet(LAMBDA k : SumDirection(ledger[k], "debit"), C) = SumFunctionOnSet(listed, C)
    BY DebitsAsSum
  <1>5. SumFunctionOnSet(f, ChargebackKeys) = SumFunctionOnSet(named, Notices)
    <2> HIDE DEF f
    <2> QED BY <1>2, FamilyTotals
  <1> HIDE DEF C, f, listed, named
  <1>6. IsFiniteSet(ChargebackKeys) /\ IsFiniteSet(C)
    BY <1>2, FamiliesFinite, FS_Subset
  <1>7. SumFunctionOnSet(f, ChargebackKeys) = SumFunctionOnSet(f, C)
    BY <1>2, <1>6, SumSubset
  <1>8. SumFunctionOnSet(listed, C) = SumFunctionOnSet(f, C)
    BY <1>2, <1>6, SumSame
  <1>9. SumFunctionOnSet(f, ChargebackKeys) \in Int
    BY <1>2, <1>6, SumType
  <1>10. MapThenSumSet(LAMBDA k : SumDirection(ledger[k], "debit"), C) = SumFunctionOnSet(NoticeAmounts, Notices)
         /\ SumFunctionOnSet(NoticeAmounts, Notices) \in Int
    BY <1>3, <1>4, <1>5, <1>7, <1>8, <1>9
  <1> QED BY <1>10 DEF C

\* The vendors' totals lack no chargeback, whoever has no row of balances.
LEMMA TotalEarningsAgree ==
    ASSUME Postings
    PROVE  VendorTotals(Vendors, 0).earnings =
              0 - MapThenSumSet(LAMBDA k : SumDirection(ledger[k], "debit"), PostedFor({"payment_chargeback"}))
  <1> DEFINE R == {v \in Vendors : HasBalance(v)}
             listed == [v \in R |-> NetEarnings(v)]
             net == [v \in Vendors |-> NetEarnings(v)]
             charged == [x \in Notices |-> 0 - NoticeAmounts[x]]
             h == [x \in Notices |-> VendorOf[x[1]]]
             group == [v \in Vendors |-> NoticesOf(v)]
  <1>1. VendorTotals(Vendors, 0).earnings = SumFunctionOnSet(listed, R)
    BY NetEarningsAsSum, Zenon DEF VendorTotals
  <1>2. /\ R \in SUBSET Vendors
        /\ \A v \in R : net[v] \in Int
        /\ \A v \in R : listed[v] = net[v]
        /\ \A v \in Vendors \ R : net[v] = 0
        /\ \A v \in Vendors : net[v] = 0 - SumFunctionOnSet(NoticeAmounts, NoticesOf(v))
    BY NetEarningsAre
  <1>3. /\ \A x \in Notices : NoticeAmounts[x] \in Int /\ charged[x] = 0 - NoticeAmounts[x]
        /\ \A x \in Notices : charged[x] \in Int /\ h[x] \in Vendors
    BY NoticeType, OwnersAssumption DEF NoticeAmounts, Notices
  <1>g. /\ \A v \in Vendors : \A x : x \in group[v] <=> x \in Notices /\ h[x] = v
        /\ \A v \in Vendors : group[v] = NoticesOf(v) /\ group[v] \in SUBSET Notices
    BY DEF NoticesOf
  <1> HIDE DEF R, listed, net, charged, h, group
  <1>4. IsFiniteSet(Vendors) /\ IsFiniteSet(R) /\ IsFiniteSet(Notices)
    BY <1>2, TablesAssumption, NoticesFinite, FS_Subset
  <1>5. SumFunctionOnSet(listed, R) = SumFunctionOnSet(net, Vendors)
    <2>1. SumFunctionOnSet(net, Vendors) = SumFunctionOnSet(net, R)
      BY <1>2, <1>4, SumSubset
    <2>2. SumFunctionOnSet(listed, R) = SumFunctionOnSet(net, R)
      BY <1>2, <1>4, SumSame
    <2> QED BY <2>1, <2>2
  <1>6. ASSUME NEW v \in Vendors PROVE net[v] = SumFunctionOnSet(charged, group[v])
    <2>1. IsFiniteSet(group[v]) /\ \A x \in group[v] : NoticeAmounts[x] \in Int /\ charged[x] = 0 - NoticeAmounts[x]
      BY <1>3, <1>4, <1>g, FS_Subset
    <2>2. SumFunctionOnSet(charged, group[v]) = 0 - SumFunctionOnSet(NoticeAmounts, group[v])
      BY <2>1, SumMinus
    <2> QED BY <1>2, <1>g, <2>2
  <1>7. SumFunctionOnSet(net, Vendors) = SumFunctionOnSet(charged, Notices)
    <2>1. \A x \in Notices : charged[x] \in Int /\ h[x] \in Vendors
      BY <1>3
    <2> QED BY <1>4, <1>6, <1>g, <2>1, SumGrouped
  <1>8. SumFunctionOnSet(charged, Notices) = 0 - SumFunctionOnSet(NoticeAmounts, Notices)
    BY <1>3, <1>4, SumMinus
  <1>9. VendorTotals(Vendors, 0).earnings = 0 - SumFunctionOnSet(NoticeAmounts, Notices)
    BY <1>1, <1>5, <1>7, <1>8
  <1> QED BY <1>9, ChargebackDebits

\* The payouts of a list.
LEMMA PayoutsListed ==
    ASSUME NEW status
    PROVE  /\ SumOfRows(PayoutsList(status)) = SumFunctionOnSet(PayoutAmount, {po \in Payouts : payout[po] = status})
           /\ SumFunctionOnSet(PayoutAmount, {po \in Payouts : payout[po] = status}) \in Int
  <1> DEFINE S == {po \in Payouts : payout[po] = status}
             h == [po \in S |-> Timeline(status, po, PayoutAmount[po])]
  <1>1. PayoutsList(status) = {h[po] : po \in S}
    BY DEF PayoutsList
  <1>2. /\ S \in SUBSET Payouts
        /\ \A po \in S : PayoutAmount[po] \in Int
        /\ \A po \in S : PayoutAmount[po] \in Int /\ h[po].amount = PayoutAmount[po]
        /\ \A po, other \in S : h[po] = h[other] => po = other
    BY RowAmounts DEF Timeline, PayoutAmount
  <1> HIDE DEF S, h
  <1>3. IsFiniteSet(S)
    BY <1>2, TablesAssumption, FS_Subset
  <1>4. SumOfRows({h[po] : po \in S}) = SumFunctionOnSet(PayoutAmount, S)
    BY <1>2, <1>3, SumOfList
  <1>5. SumFunctionOnSet(PayoutAmount, S) \in Int
    BY <1>2, <1>3, SumType
  <1> QED BY <1>1, <1>4, <1>5 DEF S

\* What vendors have of some payouts is no more than all of those are.
SharesOf(S) == [v \in Vendors |-> SumOf(PayoutAmount, {po \in S : VendorOfPayout(po) = v})]

LEMMA SharesOfPayouts ==
    ASSUME NEW S, S \subseteq Payouts, NEW R, R \subseteq Vendors
    PROVE  /\ SumFunctionOnSet(SharesOf(S), R) <= SumFunctionOnSet(PayoutAmount, S)
           /\ SumFunctionOnSet(SharesOf(S), R) \in Int /\ SumFunctionOnSet(PayoutAmount, S) \in Int
           /\ SumFunctionOnSet(SharesOf(S), Vendors) = SumFunctionOnSet(PayoutAmount, S)
  <1> DEFINE h == [po \in S |-> VendorOfPayout(po)]
             group == [v \in Vendors |-> {po \in S : VendorOfPayout(po) = v}]
             share == SharesOf(S)
             f == PayoutAmount
  <1>1. /\ \A po \in S : f[po] \in Nat
        /\ \A po \in S : f[po] \in Int /\ h[po] \in Vendors
        /\ \A v \in Vendors : group[v] \subseteq S
        /\ \A v \in Vendors : \A po : po \in group[v] <=> po \in S /\ h[po] = v
        /\ \A v \in Vendors : share[v] = SumOf(f, group[v])
    BY RowAmounts, OwnersAssumption DEF PayoutAmount, VendorOfPayout, SharesOf
  <1> HIDE DEF h, group, share, f
  <1>2. IsFiniteSet(S) /\ IsFiniteSet(Vendors) /\ IsFiniteSet(R)
    BY TablesAssumption, FS_Subset
  <1>3. ASSUME NEW v \in Vendors PROVE share[v] = SumFunctionOnSet(f, group[v]) /\ share[v] \in Nat
    <2>1. IsFiniteSet(group[v]) /\ \A po \in group[v] : f[po] \in Nat
      BY <1>1, <1>2, FS_Subset
    <2>2. SumFunctionOnSet(f, group[v]) \in Nat
      BY <2>1, SumNatural
    <2> QED BY <1>1, <2>1, <2>2, SumOfIsSum
  <1>n. \A v \in Vendors : share[v] \in Nat
    BY <1>3
  <1>4. SumFunctionOnSet(share, Vendors) = SumFunctionOnSet(f, S)
    BY <1>1, <1>2, <1>3, SumGrouped
  <1>5. SumFunctionOnSet(share, R) <= SumFunctionOnSet(share, Vendors)
    <2>1. \A v \in Vendors : share[v] \in Int
      BY <1>n
    <2>2. \A v \in Vendors \ R : share[v] >= 0
      BY <1>n
    <2> QED BY <1>2, <2>1, <2>2, SumPart
  <1>6. SumFunctionOnSet(share, R) \in Int /\ SumFunctionOnSet(f, S) \in Int
    <2>1. \A v \in R : share[v] \in Int
      BY <1>n
    <2> QED BY <1>1, <1>2, <2>1, SumType
  <1> QED BY <1>4, <1>5, <1>6 DEF share, f

LEMMA PendingAsSum ==
    ASSUME NEW S
    PROVE  /\ MapThenSumSet(PendingPayouts, S) = SumFunctionOnSet([v \in S |-> PendingPayouts(v)], S)
           /\ MapThenSumSet(LAMBDA v : SumOf(PayoutAmount, VendorPayouts(v) \cap FailedPayouts), S)
                = SumFunctionOnSet([v \in S |-> SumOf(PayoutAmount, VendorPayouts(v) \cap FailedPayouts)], S)
  BY Zenon DEF SumFunctionOnSet, FoldFunctionOnSet, MapThenSumSet, MapThenFoldSet

LEMMA InFlightListed ==
    LET pending == {po \in Payouts : payout[po] = "pending"}
        processing == {po \in Payouts : payout[po] = "processing"} IN
    /\ RowsIn(payout, Payouts) = pending \cup processing
    /\ SumFunctionOnSet(PayoutAmount, RowsIn(payout, Payouts))
          = SumOfRows(PayoutsList("pending")) + SumOfRows(PayoutsList("processing"))
    /\ SumOfRows(PayoutsList("pending")) \in Int /\ SumOfRows(PayoutsList("processing")) \in Int
  <1> DEFINE P == {po \in Payouts : payout[po] = "pending"}
             Q == {po \in Payouts : payout[po] = "processing"}
  <1>1. /\ SumOfRows(PayoutsList("pending")) = SumFunctionOnSet(PayoutAmount, P)
        /\ SumFunctionOnSet(PayoutAmount, P) \in Int
        /\ SumOfRows(PayoutsList("processing")) = SumFunctionOnSet(PayoutAmount, Q)
        /\ SumFunctionOnSet(PayoutAmount, Q) \in Int
    BY PayoutsListed
  <1>2. /\ RowsIn(payout, Payouts) = P \cup Q /\ P \cap Q = {}
        /\ P \in SUBSET Payouts /\ Q \in SUBSET Payouts
    BY DEF RowsIn, InFlight
  <1>3. \A po \in Payouts : PayoutAmount[po] \in Int
    BY RowAmounts DEF PayoutAmount
  <1> HIDE DEF P, Q
  <1>4. IsFiniteSet(P) /\ IsFiniteSet(Q) /\ \A po \in P \cup Q : PayoutAmount[po] \in Int
    BY <1>2, <1>3, TablesAssumption, FS_Subset
  <1>5. SumFunctionOnSet(PayoutAmount, P \cup Q) = SumFunctionOnSet(PayoutAmount, P) + SumFunctionOnSet(PayoutAmount, Q)
    BY <1>2, <1>4, SumUnion
  <1> QED BY <1>1, <1>2, <1>5 DEF P, Q

\* Vendors never have more in flight, or failed, than staff see.
LEMMA VendorShares ==
    LET R == {v \in Vendors : HasBalance(v)} IN
    /\ MapThenSumSet(PendingPayouts, R) <= SumFunctionOnSet(PayoutAmount, RowsIn(payout, Payouts))
    /\ MapThenSumSet(LAMBDA v : SumOf(PayoutAmount, VendorPayouts(v) \cap FailedPayouts), R)
          <= SumFunctionOnSet(PayoutAmount, FailedPayouts)
    /\ MapThenSumSet(PendingPayouts, R) \in Int
    /\ MapThenSumSet(LAMBDA v : SumOf(PayoutAmount, VendorPayouts(v) \cap FailedPayouts), R) \in Int
  <1> DEFINE R == {v \in Vendors : HasBalance(v)}
             open == RowsIn(payout, Payouts)
             pending == [v \in R |-> PendingPayouts(v)]
             failed == [v \in R |-> SumOf(PayoutAmount, VendorPayouts(v) \cap FailedPayouts)]
  <1>1. /\ MapThenSumSet(PendingPayouts, R) = SumFunctionOnSet(pending, R)
        /\ MapThenSumSet(LAMBDA v : SumOf(PayoutAmount, VendorPayouts(v) \cap FailedPayouts), R)
             = SumFunctionOnSet(failed, R)
    BY PendingAsSum
  <1>2. R \subseteq Vendors /\ open \subseteq Payouts /\ FailedPayouts \subseteq Payouts
    BY DEF RowsIn, FailedPayouts
  <1>3. ASSUME NEW v \in R PROVE pending[v] = SharesOf(open)[v] /\ failed[v] = SharesOf(FailedPayouts)[v]
    <2>1. RowsIn(payout, VendorPayouts(v)) = {po \in open : VendorOfPayout(po) = v}
      BY DEF RowsIn, VendorPayouts, VendorOfPayout, InFlight
    <2>2. VendorPayouts(v) \cap FailedPayouts = {po \in FailedPayouts : VendorOfPayout(po) = v}
      BY DEF VendorPayouts, VendorOfPayout, FailedPayouts
    <2> QED BY <1>2, <2>1, <2>2 DEF PendingPayouts, SharesOf
  <1>4. IsFiniteSet(R)
    BY <1>2, TablesAssumption, FS_Subset
  <1>5. /\ SumFunctionOnSet(SharesOf(open), R) <= SumFunctionOnSet(PayoutAmount, open)
        /\ SumFunctionOnSet(SharesOf(FailedPayouts), R) <= SumFunctionOnSet(PayoutAmount, FailedPayouts)
        /\ SumFunctionOnSet(SharesOf(open), R) \in Int
        /\ SumFunctionOnSet(SharesOf(FailedPayouts), R) \in Int
    <2> HIDE DEF R, open
    <2> QED BY <1>2, SharesOfPayouts
  <1>6. /\ SumFunctionOnSet(pending, R) = SumFunctionOnSet(SharesOf(open), R)
        /\ SumFunctionOnSet(failed, R) = SumFunctionOnSet(SharesOf(FailedPayouts), R)
    <2> HIDE DEF R, open, pending, failed
    <2> QED BY <1>3, <1>4, SumSame
  <1> HIDE DEF R, open, pending, failed
  <1>7. /\ MapThenSumSet(PendingPayouts, R) <= SumFunctionOnSet(PayoutAmount, open)
        /\ MapThenSumSet(LAMBDA v : SumOf(PayoutAmount, VendorPayouts(v) \cap FailedPayouts), R)
              <= SumFunctionOnSet(PayoutAmount, FailedPayouts)
        /\ MapThenSumSet(PendingPayouts, R) \in Int
        /\ MapThenSumSet(LAMBDA v : SumOf(PayoutAmount, VendorPayouts(v) \cap FailedPayouts), R) \in Int
    BY <1>1, <1>5, <1>6
  <1> QED BY <1>7 DEF R, open

LEMMA VendorTotalsListed ==
    VendorTotals(Vendors, 0).pending + VendorTotals(Vendors, 0).underReview
          <= SumOfRows(PayoutsList("pending")) + SumOfRows(PayoutsList("processing"))
             + SumOfRows(PayoutsList("failed"))
  <1> DEFINE R == {v \in Vendors : HasBalance(v)}
             pending == MapThenSumSet(PendingPayouts, R)
             failed == MapThenSumSet(LAMBDA v : SumOf(PayoutAmount, VendorPayouts(v) \cap FailedPayouts), R)
  <1>1. VendorTotals(Vendors, 0).pending = pending /\ VendorTotals(Vendors, 0).underReview = failed
    BY Zenon DEF VendorTotals
  <1>2. /\ pending <= SumFunctionOnSet(PayoutAmount, RowsIn(payout, Payouts))
        /\ failed <= SumFunctionOnSet(PayoutAmount, FailedPayouts)
        /\ pending \in Int /\ failed \in Int
    BY VendorShares
  <1>3. /\ SumFunctionOnSet(PayoutAmount, FailedPayouts) = SumOfRows(PayoutsList("failed"))
        /\ SumOfRows(PayoutsList("failed")) \in Int
    BY PayoutsListed DEF FailedPayouts
  <1>4. /\ SumFunctionOnSet(PayoutAmount, RowsIn(payout, Payouts))
             = SumOfRows(PayoutsList("pending")) + SumOfRows(PayoutsList("processing"))
        /\ SumOfRows(PayoutsList("pending")) \in Int /\ SumOfRows(PayoutsList("processing")) \in Int
    BY InFlightListed
  <1> HIDE DEF pending, failed
  <1> QED BY <1>1, <1>2, <1>3, <1>4

LEMMA VendorsAgree ==
    ASSUME Inv, Book PROVE VendorReportsAgree
  <1>1. \A v \in Vendors :
          SumOfRows({r \in VendorTimeline(v) : r.type = "earning"}) =
              SumOf(PayoutAmount, {po \in VendorPayouts(v) : settlement[po] # "none"})
    BY EarningsAgree DEF Book
  <1>2. UNION {Keyed("chargeback", VendorTimeline(v)) : v \in Vendors} = Keyed("chargeback", Transactions)
    BY ChargebackKeysAgree DEF Book
  <1>3. VendorTotals(Vendors, 0).earnings =
          0 - MapThenSumSet(LAMBDA k : SumDirection(ledger[k], "debit"), PostedFor({"payment_chargeback"}))
    BY TotalEarningsAgree DEF Book
  <1> QED BY <1>1, <1>2, <1>3, VendorTotalsListed, Zenon DEF VendorReportsAgree

\* Whatever vendors are shown of releases, chargebacks and payouts agrees with the
\* rows, with what staff are shown, and with the totals of all vendors.
THEOREM VendorReportsCorrect == Spec => []VendorReportsAgree
  <1>1. Inv /\ Book => VendorReportsAgree
    BY VendorsAgree
  <1> QED BY BookInductive, <1>1, PTL

-----------------------------------------------------------------------------
(* Staff                                                                   *)

\* The bookings of a report.
LEMMA RevenueIsSum ==
    ASSUME NEW S
    PROVE  /\ BookingRevenueOf(S) = SumFunctionOnSet([p \in Payments \cup TicketPayments |-> Gross(p)], S \cap Captured)
           /\ S \cap Captured \subseteq Payments /\ IsFiniteSet(S \cap Captured)
  <1> DEFINE T == S \cap Captured
             f == [p \in Payments \cup TicketPayments |-> Gross(p)]
             h == [p \in T |-> Timeline("payment", p, Gross(p))]
  <1>1. T \subseteq Payments
    BY DEF Captured
  <1>2. BookingRevenueOf(S) = SumOfRows({h[p] : p \in T})
    BY DEF BookingRevenueOf
  <1>3. /\ \A p \in T : f[p] \in Int /\ h[p].amount = f[p]
        /\ \A p, other \in T : h[p] = h[other] => p = other
    BY <1>1, Amounts DEF Timeline
  <1>4. IsFiniteSet(T)
    BY <1>1, TablesAssumption, FS_Subset
  <1> HIDE DEF T, f, h
  <1>5. SumOfRows({h[p] : p \in T}) = SumFunctionOnSet(f, T)
    BY <1>3, <1>4, SumOfList
  <1> QED BY <1>1, <1>2, <1>4, <1>5 DEF T, f

GrossOf == [p \in Payments \cup TicketPayments |-> Gross(p)]

LEMMA DrillsAsSum ==
    ASSUME NEW S
    PROVE  /\ MapThenSumSet(VendorDrill, S) = SumFunctionOnSet([v \in S |-> VendorDrill(v)], S)
           /\ MapThenSumSet(OrganizerDrill, S) = SumFunctionOnSet([o \in S |-> OrganizerDrill(o)], S)
           /\ MapThenSumSet(LAMBDA r : r.captured, S) = SumFunctionOnSet([r \in S |-> r.captured], S)
           /\ MapThenSumSet(LAMBDA r : r.refunded, S) = SumFunctionOnSet([r \in S |-> r.refunded], S)
  BY Zenon DEF SumFunctionOnSet, FoldFunctionOnSet, MapThenSumSet, MapThenFoldSet

LEMMA BookingRevenueIs ==
    /\ BookingRevenueOf(Payments) = SumFunctionOnSet(GrossOf, Captured)
    /\ IsFiniteSet(Captured) /\ Captured \subseteq Payments
    /\ \A p \in Captured : GrossOf[p] \in Int
    /\ SumFunctionOnSet(GrossOf, Captured) \in Int
  <1>1. Payments \cap Captured = Captured /\ Captured \subseteq Payments
    BY DEF Captured
  <1>2. \A p \in Captured : GrossOf[p] \in Int
    BY <1>1, Amounts DEF GrossOf
  <1>3. IsFiniteSet(Captured) /\ BookingRevenueOf(Payments) = SumFunctionOnSet(GrossOf, Captured)
    BY <1>1, RevenueIsSum DEF GrossOf
  <1>4. SumFunctionOnSet(GrossOf, Captured) \in Int
    BY <1>2, <1>3, SumType
  <1> QED BY <1>1, <1>2, <1>3, <1>4

\* The platform's bookings are those of its vendors.
LEMMA BookingsByVendor ==
    BookingRevenueOf(Payments) = MapThenSumSet(VendorDrill, Vendors)
  <1> DEFINE drill == [v \in Vendors |-> VendorDrill(v)]
             h == [p \in Captured |-> VendorOf[p]]
             group == [v \in Vendors |-> {p \in Payments : VendorOf[p] = v} \cap Captured]
  <1>1. MapThenSumSet(VendorDrill, Vendors) = SumFunctionOnSet(drill, Vendors)
    BY DrillsAsSum
  <1>2. \A p \in Captured : GrossOf[p] \in Int /\ h[p] \in Vendors
    BY BookingRevenueIs, OwnersAssumption
  <1>3. \A v \in Vendors : \A p : p \in group[v] <=> p \in Captured /\ h[p] = v
    BY BookingRevenueIs
  <1>4. \A v \in Vendors : drill[v] = SumFunctionOnSet(GrossOf, group[v])
    BY RevenueIsSum DEF VendorDrill, GrossOf
  <1>5. IsFiniteSet(Captured) /\ IsFiniteSet(Vendors)
    BY BookingRevenueIs, TablesAssumption
  <1> HIDE DEF drill, h, group
  <1>6. SumFunctionOnSet(drill, Vendors) = SumFunctionOnSet(GrossOf, Captured)
    BY <1>2, <1>3, <1>4, <1>5, SumGrouped
  <1> QED BY <1>1, <1>6, BookingRevenueIs

\* Tickets, by organizer.
LEMMA TicketsByOrganizer ==
    SumOf(Subtotal, CapturedTickets) = MapThenSumSet(OrganizerDrill, Organizers)
  <1> DEFINE drill == [o \in Organizers |-> OrganizerDrill(o)]
             h == [t \in CapturedTickets |-> OrganizerOf[t]]
             group == [o \in Organizers |-> {t \in CapturedTickets : OrganizerOf[t] = o}]
  <1>1. MapThenSumSet(OrganizerDrill, Organizers) = SumFunctionOnSet(drill, Organizers)
    BY DrillsAsSum
  <1>2. /\ CapturedTickets \subseteq TicketPayments
        /\ \A t \in CapturedTickets : Subtotal[t] \in Int /\ h[t] \in Organizers
    BY RowAmounts, OwnersAssumption DEF CapturedTickets
  <1>3. /\ \A o \in Organizers : \A t : t \in group[o] <=> t \in CapturedTickets /\ h[t] = o
        /\ \A o \in Organizers : group[o] \subseteq CapturedTickets
        /\ \A o \in Organizers : drill[o] = SumOf(Subtotal, group[o])
    BY DEF OrganizerDrill
  <1>4. IsFiniteSet(CapturedTickets) /\ IsFiniteSet(Organizers)
    BY <1>2, TablesAssumption, FS_Subset
  <1> HIDE DEF drill, h, group
  <1>5. ASSUME NEW o \in Organizers PROVE drill[o] = SumFunctionOnSet(Subtotal, group[o])
    <2>1. IsFiniteSet(group[o])
      BY <1>3, <1>4, FS_Subset
    <2> QED BY <1>3, <2>1, SumOfIsSum
  <1>6. SumFunctionOnSet(drill, Organizers) = SumFunctionOnSet(Subtotal, CapturedTickets)
    BY <1>2, <1>3, <1>4, <1>5, SumGrouped
  <1> QED BY <1>1, <1>4, <1>6, SumOfIsSum

\* The amount of each payment that was captured, 0 of the others.
CapturedAmounts == [p \in Payments |-> IF p \in Captured THEN Gross(p) ELSE 0]

LEMMA CapturedAmountsAre ==
    /\ SumFunctionOnSet(CapturedAmounts, Payments) = BookingRevenueOf(Payments)
    /\ \A p \in Payments : CapturedAmounts[p] \in Int
  <1>1. \A p \in Payments : CapturedAmounts[p] \in Int
    BY Amounts DEF CapturedAmounts
  <1>2. /\ \A p \in Captured : GrossOf[p] \in Int /\ CapturedAmounts[p] = GrossOf[p]
        /\ \A p \in Payments \ Captured : CapturedAmounts[p] = 0
        /\ Captured \in SUBSET Payments
    BY BookingRevenueIs DEF CapturedAmounts, GrossOf
  <1>3. SumFunctionOnSet(CapturedAmounts, Payments) = SumFunctionOnSet(GrossOf, Captured)
    BY <1>2, TablesAssumption, SumChosen
  <1> QED BY <1>1, <1>3, BookingRevenueIs

LEMMA PaymentsInTransactions ==
    BookingRevenueOf(Payments) = SumOfRows({r \in Transactions : r.type = "payment"})
  <1> DEFINE h == [p \in Payments |-> Timeline("payment", p, IF p \in Captured THEN Gross(p) ELSE 0)]
  <1>1. {r \in Transactions : r.type = "payment"} = {h[p] : p \in Payments}
    <2>1. ASSUME NEW r \in Transactions, r.type = "payment" PROVE \E p \in Payments : r = h[p]
      BY <2>1 DEF Transactions, Timeline, Adjustment
    <2>2. ASSUME NEW p \in Payments PROVE h[p] \in Transactions /\ h[p].type = "payment"
      <3>1. h[p].type = "payment"
        BY DEF Timeline
      <3> QED BY <3>1 DEF Transactions
    <2> QED BY <2>1, <2>2
  <1>2. /\ \A p \in Payments : CapturedAmounts[p] \in Int /\ h[p].amount = CapturedAmounts[p]
        /\ \A p, other \in Payments : h[p] = h[other] => p = other
    BY CapturedAmountsAre DEF CapturedAmounts, Timeline
  <1> HIDE DEF h
  <1>3. SumOfRows({h[p] : p \in Payments}) = SumFunctionOnSet(CapturedAmounts, Payments)
    BY <1>2, TablesAssumption, SumOfList
  <1> QED BY <1>1, <1>3, CapturedAmountsAre

LEMMA PaymentsListed ==
    ASSUME Inv
    PROVE  /\ MapThenSumSet(LAMBDA r : r.captured, PaymentsList) = BookingRevenueOf(Payments)
           /\ MapThenSumSet(LAMBDA r : r.refunded, PaymentsList) = SumFunctionOnSet(refunded, Payments)
  <1> DEFINE h == [p \in Payments |->
                    [type |-> payment[p], key |-> p, captured |-> IF p \in Captured THEN Gross(p) ELSE 0,
                     refunded |-> refunded[p], underReview |-> p \in paymentReview]]
             L == {h[p] : p \in Payments}
             captured == [r \in L |-> r.captured]
             returned == [r \in L |-> r.refunded]
  <1>1. PaymentsList = L
    BY DEF PaymentsList
  <1>2. /\ \A p \in Payments : CapturedAmounts[p] \in Int /\ captured[h[p]] = CapturedAmounts[p]
        /\ \A p, other \in Payments : h[p] = h[other] => p = other
    BY CapturedAmountsAre DEF CapturedAmounts
  <1>3. \A p \in Payments : refunded[p] \in Int /\ returned[h[p]] = refunded[p]
    BY DEF Inv, TypeOK
  <1>4. /\ MapThenSumSet(LAMBDA r : r.captured, L) = SumFunctionOnSet(captured, L)
        /\ MapThenSumSet(LAMBDA r : r.refunded, L) = SumFunctionOnSet(returned, L)
    BY DrillsAsSum
  <1> HIDE DEF h, captured, returned
  <1>5. SumFunctionOnSet(captured, {h[p] : p \in Payments}) = SumFunctionOnSet(CapturedAmounts, Payments)
    BY <1>2, TablesAssumption, SumRenamed
  <1>6. SumFunctionOnSet(returned, {h[p] : p \in Payments}) = SumFunctionOnSet(refunded, Payments)
    BY <1>2, <1>3, TablesAssumption, SumRenamed
  <1> QED BY <1>1, <1>4, <1>5, <1>6, CapturedAmountsAre

\* A total of an organizer that owns every vendor is the platform's.
LEMMA OwnerOfAll ==
    ASSUME NEW o
    PROVE  OrganizerRevenue(o, Vendors) = [ticket |-> OrganizerDrill(o), booking |-> BookingRevenueOf(Payments)]
  <1>1. {p \in Payments : VendorOf[p] \in Vendors} = Payments
    BY OwnersAssumption
  <1> QED BY <1>1, Zenon DEF OrganizerRevenue, OrganizerDrill

\* The bookings' refunds that were posted, in the transactions and in the export.
LEMMA RefundKeysAgree ==
    Keyed("refund", Transactions) = Keyed("posted", ExportedBookingRefunds)
  <1> DEFINE C == {k \in Keys : k.reason = "payment_refund" /\ Posted(k)}
  <1>1. Keyed("refund", Transactions) = C
    <2>1. ASSUME NEW k \in C PROVE k \in Keyed("refund", Transactions)
      <3> DEFINE row == Timeline(Adjustment(k.reason), k, Abs(Net(ledger[k])))
      <3>1. row \in Transactions
        BY DEF Transactions, PostedFor
      <3>2. row.type = "refund" /\ row.key = k
        BY DEF Timeline, Adjustment
      <3> HIDE DEF row
      <3> QED BY <3>1, <3>2 DEF Keyed
    <2>2. ASSUME NEW k \in Keyed("refund", Transactions) PROVE k \in C
      <3>1. PICK r \in Transactions : r.type = "refund" /\ r.key = k
        BY DEF Keyed
      <3>2. \E j \in PostedFor({"payment_refund", "payment_chargeback"}) :
              r = Timeline(Adjustment(j.reason), j, Abs(Net(ledger[j])))
        BY <3>1 DEF Transactions, Timeline
      <3> QED BY <3>1, <3>2 DEF PostedFor, Timeline, Adjustment
    <2> QED BY <2>1, <2>2
  <1>2. Keyed("posted", ExportedBookingRefunds) = C
    <2>1. ASSUME NEW k \in C PROVE k \in Keyed("posted", ExportedBookingRefunds)
      <3> DEFINE row == Timeline("posted", k, SumDirection(ledger[k], "debit"))
      <3>1. row \in ExportedBookingRefunds
        BY DEF ExportedBookingRefunds, PostedFor
      <3>2. row.type = "posted" /\ row.key = k
        BY DEF Timeline
      <3> HIDE DEF row
      <3> QED BY <3>1, <3>2 DEF Keyed
    <2>2. ASSUME NEW k \in Keyed("posted", ExportedBookingRefunds) PROVE k \in C
      BY DEF Keyed, ExportedBookingRefunds, PostedFor, Timeline
    <2> QED BY <2>1, <2>2
  <1> QED BY <1>1, <1>2

\* The export's refunds add up to what the refunds' transactions gave back.
LEMMA RefundsExported ==
    ASSUME Postings
    PROVE  SumOfRows(ExportedBookingRefunds) = SumFunctionOnSet(Returned, RefundKeys)
  <1> DEFINE C == PostedFor({"payment_refund"})
             f == [k \in Keys |-> SumDirection(ledger[k], "debit")]
             h == [k \in C |-> Timeline("posted", k, SumDirection(ledger[k], "debit"))]
             named == [k \in RefundKeys |-> f[RefundKey(k)]]
  <1>1. C = {k \in RefundedKeys : Posted(k)}
    BY KeyFamilies DEF PostedFor
  <1>2. ExportedBookingRefunds = {h[k] : k \in C}
    BY DEF ExportedBookingRefunds
  <1>3. /\ C \in SUBSET RefundedKeys
        /\ \A k \in Keys : f[k] \in Int
        /\ \A k \in C : f[k] \in Int
        /\ \A k \in RefundedKeys \ C : f[k] = 0
        /\ \A k \in C : f[k] \in Int /\ h[k].amount = f[k]
        /\ \A k, other \in C : h[k] = h[other] => k = other
    <2>1. \A k \in Keys : f[k] \in Int
      BY KeysHaveLines, DirectionType
    <2>2. C \in SUBSET RefundedKeys /\ RefundedKeys \subseteq Keys
      BY <1>1, KeyFamilies
    <2>3. \A k \in RefundedKeys \ C : f[k] = 0
      BY <1>1, <2>2, NothingDebited DEF Posted
    <2>4. /\ \A k \in C : h[k].amount = f[k]
          /\ \A k, other \in C : h[k] = h[other] => k = other
      BY <2>2 DEF Timeline
    <2> QED BY <2>1, <2>2, <2>3, <2>4
  <1>4. named = Returned
    <2>1. \A k \in RefundKeys : RefundKey(k) \in Keys
      BY KeysExist
    <2> QED BY <2>1 DEF Returned
  <1>5. SumFunctionOnSet(f, RefundedKeys) = SumFunctionOnSet(named, RefundKeys)
    <2> HIDE DEF f
    <2> QED BY <1>3, FamilyTotals
  <1> HIDE DEF C, f, h, named
  <1>6. IsFiniteSet(RefundedKeys) /\ IsFiniteSet(C)
    BY <1>3, FamiliesFinite, FS_Subset
  <1>7. SumFunctionOnSet(f, RefundedKeys) = SumFunctionOnSet(f, C)
    BY <1>3, <1>6, SumSubset
  <1>8. SumOfRows({h[k] : k \in C}) = SumFunctionOnSet(f, C)
    BY <1>3, <1>6, SumOfList
  <1> QED BY <1>2, <1>4, <1>5, <1>7, <1>8

LEMMA SettlementsExported ==
    SumOfRows(ExportedSettlements) = SumOf(PayoutAmount, Settled)
  <1> DEFINE h == [po \in Settled |-> Timeline(settlement[po], po, PayoutAmount[po])]
  <1>1. ExportedSettlements = {h[po] : po \in Settled}
    BY DEF ExportedSettlements, Settled
  <1>2. /\ Settled \in SUBSET Payouts
        /\ \A po \in Settled : PayoutAmount[po] \in Int /\ h[po].amount = PayoutAmount[po]
        /\ \A po, other \in Settled : h[po] = h[other] => po = other
    BY RowAmounts DEF Timeline, PayoutAmount, Settled
  <1> HIDE DEF h
  <1>3. IsFiniteSet(Settled)
    BY <1>2, TablesAssumption, FS_Subset
  <1>4. SumOfRows({h[po] : po \in Settled}) = SumFunctionOnSet(PayoutAmount, Settled)
    BY <1>2, <1>3, SumOfList
  <1> QED BY <1>1, <1>3, <1>4, SumOfIsSum

\* What is in flight, in one list.
LEMMA OpenListed ==
    SumOfRows(PayoutsList("pending") \cup PayoutsList("processing"))
        = SumOfRows(PayoutsList("pending")) + SumOfRows(PayoutsList("processing"))
  <1> DEFINE open == RowsIn(payout, Payouts)
             h == [po \in open |-> Timeline(payout[po], po, PayoutAmount[po])]
  <1>1. PayoutsList("pending") \cup PayoutsList("processing") = {h[po] : po \in open}
    BY InFlightListed DEF PayoutsList
  <1>2. /\ open \subseteq Payouts
        /\ \A po \in open : PayoutAmount[po] \in Int /\ h[po].amount = PayoutAmount[po]
        /\ \A po, other \in open : h[po] = h[other] => po = other
    BY RowAmounts DEF Timeline, PayoutAmount, RowsIn
  <1>3. SumFunctionOnSet(PayoutAmount, open)
            = SumOfRows(PayoutsList("pending")) + SumOfRows(PayoutsList("processing"))
    BY InFlightListed
  <1> HIDE DEF open, h
  <1>4. IsFiniteSet(open)
    BY <1>2, TablesAssumption, FS_Subset
  <1>5. SumOfRows({h[po] : po \in open}) = SumFunctionOnSet(PayoutAmount, open)
    BY <1>2, <1>4, SumOfList
  <1> QED BY <1>1, <1>3, <1>5

LEMMA VolumeListed ==
    PlatformFinance({}).payoutVolume =
        SumOfRows(PayoutsList("completed")) + SumOfRows(PayoutsList("pending") \cup PayoutsList("processing"))
  <1> DEFINE open == RowsIn(payout, Payouts)
             done == {po \in Payouts : payout[po] = "completed"}
             none == [q \in {} |-> Subtotal[TicketOf[q]]]
  <1>1. PlatformFinance({}).payoutVolume =
            SumOf(PayoutAmount, open \cup done) + MapThenSumSet(LAMBDA q : Subtotal[TicketOf[q]], {})
    BY Zenon DEF PlatformFinance
  <1>2. MapThenSumSet(LAMBDA q : Subtotal[TicketOf[q]], {}) = SumFunctionOnSet(none, {})
    BY TicketSharesAsSum
  <1>3. /\ open \subseteq Payouts /\ done \subseteq Payouts /\ open \cap done = {}
        /\ \A po \in open \cup done : PayoutAmount[po] \in Int
    BY RowAmounts DEF RowsIn, InFlight, PayoutAmount
  <1>4. /\ SumFunctionOnSet(PayoutAmount, done) = SumOfRows(PayoutsList("completed"))
        /\ SumOfRows(PayoutsList("completed")) \in Int
    BY PayoutsListed
  <1>5. /\ SumFunctionOnSet(PayoutAmount, open)
              = SumOfRows(PayoutsList("pending")) + SumOfRows(PayoutsList("processing"))
        /\ SumOfRows(PayoutsList("pending")) \in Int /\ SumOfRows(PayoutsList("processing")) \in Int
    BY InFlightListed
  <1> HIDE DEF open, done, none
  <1>6. IsFiniteSet(open) /\ IsFiniteSet(done) /\ IsFiniteSet(open \cup done)
    BY <1>3, TablesAssumption, FS_Subset, FS_Union
  <1>7. SumFunctionOnSet(PayoutAmount, open \cup done)
            = SumFunctionOnSet(PayoutAmount, open) + SumFunctionOnSet(PayoutAmount, done)
    BY <1>3, <1>6, SumUnion
  <1>8. SumOf(PayoutAmount, open \cup done) = SumFunctionOnSet(PayoutAmount, open \cup done)
    BY <1>6, SumOfIsSum
  <1>9. SumFunctionOnSet(none, {}) = 0
    BY SumEmpty
  <1> QED BY <1>1, <1>2, <1>4, <1>5, <1>7, <1>8, <1>9, OpenListed

\* A figure of the dashboard is quiet just when the list behind it is empty.
LEMMA QuietWhenEmpty ==
    ASSUME NEW S, IsFiniteSet(S), NEW level, level # "none"
    PROVE  KpiAttention(Cardinality(S), level) = "none" <=> S = {}
  BY CountOfSome DEF KpiAttention

LEMMA AttentionAgrees ==
    /\ (Attention.pendingPayouts = "none") =
          (PayoutsList("pending") \cup PayoutsList("processing") = {})
    /\ (Attention.underReview = "none") = (Reviews \cup PayoutsList("failed") = {})
  <1> DEFINE open == RowsIn(payout, Payouts)
             level == IF \E po \in Payouts : payout[po] = "processing" THEN "warning" ELSE "info"
             held == ReviewedPayments \cup FailedPayouts
  <1>1. /\ Attention.pendingPayouts = KpiAttention(Cardinality(open), level)
        /\ Attention.underReview = KpiAttention(Cardinality(held), "critical")
    BY DEF Attention
  <1>2. IsFiniteSet(open) /\ IsFiniteSet(held)
    <2>1. open \subseteq Payouts /\ ReviewedPayments \subseteq Payments /\ FailedPayouts \subseteq Payouts
      BY DEF RowsIn, ReviewedPayments, FailedPayouts
    <2>2. IsFiniteSet(open) /\ IsFiniteSet(ReviewedPayments) /\ IsFiniteSet(FailedPayouts)
      BY <2>1, TablesAssumption, FS_Subset
    <2> QED BY <2>2, FS_Union
  <1>3. open = {} <=> PayoutsList("pending") \cup PayoutsList("processing") = {}
    BY DEF RowsIn, InFlight, PayoutsList
  <1>4. held = {} <=> Reviews \cup PayoutsList("failed") = {}
    BY DEF FailedPayouts, Reviews, PayoutsList
  <1>5. KpiAttention(Cardinality(open), level) = "none" <=> open = {}
    <2>1. level # "none"
      OBVIOUS
    <2> HIDE DEF open, level
    <2> QED BY <1>2, <2>1, QuietWhenEmpty
  <1>6. KpiAttention(Cardinality(held), "critical") = "none" <=> held = {}
    <2> HIDE DEF held
    <2> QED BY <1>2, QuietWhenEmpty
  <1> HIDE DEF open, level, held
  <1>7. Attention.pendingPayouts = "none" <=> PayoutsList("pending") \cup PayoutsList("processing") = {}
    BY <1>1, <1>3, <1>5
  <1>8. Attention.underReview = "none" <=> Reviews \cup PayoutsList("failed") = {}
    BY <1>1, <1>4, <1>6
  <1> QED BY <1>7, <1>8

LEMMA StaffAgree ==
    ASSUME Inv, Book PROVE StaffReportsAgree
  <1>1. PlatformFinance({}).bookingRevenue = BookingRevenueOf(Payments)
    BY Zenon DEF PlatformFinance
  <1>2. DashboardRevenue =
            MapThenSumSet(OrganizerDrill, Organizers) + MapThenSumSet(LAMBDA r : r.captured, PaymentsList)
    BY TicketsByOrganizer, PaymentsListed, Zenon DEF DashboardRevenue
  <1>3. SumOfRows(ExportedBookingRefunds) <= MapThenSumSet(LAMBDA r : r.refunded, PaymentsList)
    <2>1. SumFunctionOnSet(Returned, RefundKeys) <= SumFunctionOnSet(refunded, Payments)
      BY DEF Book, RefundsCovered
    <2>2. MapThenSumSet(LAMBDA r : r.refunded, PaymentsList) = SumFunctionOnSet(refunded, Payments)
      BY PaymentsListed
    <2>3. SumOfRows(ExportedBookingRefunds) = SumFunctionOnSet(Returned, RefundKeys)
      BY RefundsExported DEF Book
    <2> QED BY <2>1, <2>2, <2>3, Zenon
  <1>4. EscrowBalance = SumOf(Subtotal, Captured)
                        - SumOfRows(ExportedBookingRefunds) - SumOfRows(ExportedSettlements)
    BY EscrowBalanceIs, RefundsExported, SettlementsExported DEF Book
  <1>5. PlatformFinance({}).bookingRevenue = MapThenSumSet(VendorDrill, Vendors)
    BY <1>1, BookingsByVendor
  <1>6. PlatformFinance({}).bookingRevenue = SumOfRows({r \in Transactions : r.type = "payment"})
    BY <1>1, PaymentsInTransactions
  <1> QED BY <1>2, <1>3, <1>4, <1>5, <1>6, OwnerOfAll, RefundKeysAgree, VolumeListed, AttentionAgrees, Zenon
          DEF StaffReportsAgree

\* Every total that staff are shown is the same in each of the queries that
\* compute it, and the escrow balance is what the export says came and went.
THEOREM StaffReportsCorrect == Spec => []StaffReportsAgree
  <1>1. Inv /\ Book => StaffReportsAgree
    BY StaffAgree
  <1> QED BY BookInductive, <1>1, PTL

\* Reports of organizers, vendors and staff agree with each other, with the rows
\* and with the ledger, whatever the two rails did to the accounts they share.
THEOREM ReportsAgreeCorrect == Spec => []ReportsAgree
  <1>1. ASSUME Inv, Book PROVE ReportsAgree
    <2>1. Postings
      BY <1>1 DEF Book
    <2>2. FeesBalance
      BY <1>1, <2>1, FeesAreRight
    <2>3. OrganizerReportsAgree /\ VendorReportsAgree /\ StaffReportsAgree
      BY <1>1, <2>1, OrganizersAgree, VendorsAgree, StaffAgree
    <2> QED BY <2>2, <2>3, Zenon DEF ReportsAgree, FeesBalance
  <1>2. Inv /\ Book => ReportsAgree
    BY <1>1
  <1> QED BY BookInductive, <1>2, PTL

-----------------------------------------------------------------------------
(* The trial balance                                                       *)

LEMMA AccountsFinite == IsFiniteSet(Accounts)
  <1> DEFINE vendor == [v \in Vendors |-> VendorPayable(v)]
             organizer == [o \in Organizers |-> OrganizerPayable(o)]
             pools == {Psp, Escrow, PlatformFees, PayoutClearing}
             ofVendors == {vendor[v] : v \in Vendors}
             ofOrganizers == {organizer[o] : o \in Organizers}
  <1>1. Accounts = pools \cup ofVendors \cup ofOrganizers
    BY DEF Accounts
  <1>2. IsFiniteSet(pools)
    <2>1. IsFiniteSet({Psp}) /\ IsFiniteSet({Escrow}) /\ IsFiniteSet({PlatformFees})
          /\ IsFiniteSet({PayoutClearing})
      BY FS_Singleton
    <2>2. IsFiniteSet({Psp} \cup {Escrow})
      BY <2>1, FS_Union
    <2>3. IsFiniteSet(({Psp} \cup {Escrow}) \cup {PlatformFees})
      BY <2>1, <2>2, FS_Union
    <2>4. IsFiniteSet((({Psp} \cup {Escrow}) \cup {PlatformFees}) \cup {PayoutClearing})
      BY <2>1, <2>3, FS_Union
    <2>5. pools = (({Psp} \cup {Escrow}) \cup {PlatformFees}) \cup {PayoutClearing}
      OBVIOUS
    <2> QED BY <2>4, <2>5
  <1> HIDE DEF vendor, organizer, pools
  <1>3. IsFiniteSet(ofVendors) /\ IsFiniteSet(ofOrganizers)
    BY TablesAssumption, NamesFinite
  <1> QED BY <1>1, <1>2, <1>3, FS_Union

\* What a transaction does to all accounts is what it does to each, added up.
LEMMA EffectByAccount ==
    ASSUME NEW lines, AreLines(lines)
    PROVE  SumFunctionOnSet([a \in Accounts |-> NetEffect(lines, {a})], Accounts) = NetEffect(lines, Accounts)
  <1> DEFINE m == [a \in Accounts |-> [l \in lines |-> Effect(l, {a})]]
             column == [l \in lines |-> [a \in Accounts |-> Effect(l, {a})]]
             byAccount == [a \in Accounts |-> NetEffect(lines, {a})]
             byLine == [l \in lines |-> Effect(l, Accounts)]
  <1>1. IsFiniteSet(lines) /\ \A a \in Accounts, l \in lines : m[a][l] \in Int
    BY EffectType DEF AreLines
  <1>2. \A l \in lines, a \in Accounts : column[l][a] = m[a][l]
    OBVIOUS
  <1>3. \A a \in Accounts : byAccount[a] = SumFunctionOnSet(m[a], lines)
    BY DEF NetEffect
  <1>4. ASSUME NEW l \in lines PROVE byLine[l] = SumFunctionOnSet(column[l], Accounts)
    <2> DEFINE f == [a \in Accounts |-> Effect(l, {a})]
               own == Accounts \cap {l.account}
    <2>1. /\ \A a \in own : f[a] \in Int /\ f[a] = Effect(l, Accounts)
          /\ \A a \in Accounts \ own : f[a] = 0
      <3>1. \A a \in Accounts : f[a] = Effect(l, {a}) /\ f[a] \in Int
        BY EffectType
      <3> HIDE DEF f
      <3> QED BY <3>1 DEF Effect
    <2>2. own \in SUBSET Accounts /\ (own = {} \/ own = {l.account})
      OBVIOUS
    <2> HIDE DEF f, own
    <2>3. SumFunctionOnSet(f, Accounts) = SumFunctionOnSet(f, own)
      BY <2>1, <2>2, AccountsFinite, SumSubset
    <2>4. CASE own = {}
      <3>1. l.account \notin Accounts
        BY <2>4 DEF own
      <3>2. Effect(l, Accounts) = 0
        BY <3>1 DEF Effect
      <3>3. SumFunctionOnSet(f, Accounts) = 0
        BY <2>3, <2>4, SumEmpty
      <3> QED BY <3>2, <3>3 DEF f
    <2>5. CASE own = {l.account}
      <3>1. l.account \in own
        BY <2>5
      <3>2. SumFunctionOnSet(f, {l.account}) = f[l.account]
        BY <2>1, <3>1, SumOne
      <3>3. SumFunctionOnSet(f, Accounts) = Effect(l, Accounts)
        BY <2>1, <2>3, <2>5, <3>1, <3>2
      <3> QED BY <3>3 DEF f
    <2> QED BY <2>2, <2>4, <2>5
  <1> HIDE DEF m, column, byAccount, byLine
  <1>5. SumFunctionOnSet(byAccount, Accounts) = SumFunctionOnSet(byLine, lines)
    <2>1. IsTable(Accounts, lines, m, column, byAccount, byLine)
      BY <1>1, <1>2, <1>3, <1>4, AccountsFinite DEF IsTable
    <2> QED BY <2>1, SumExchange
  <1> QED BY <1>5 DEF byAccount, byLine, NetEffect

\* All accounts together are worth nothing: whatever one account has was taken
\* from others, on both rails.
BooksBalance == MapThenSumSet(Balance, Accounts) = 0

LEMMA AccountsAsSum ==
    MapThenSumSet(Balance, Accounts) = SumFunctionOnSet([a \in Accounts |-> Balance(a)], Accounts)
  BY Zenon DEF SumFunctionOnSet, FoldFunctionOnSet, MapThenSumSet, MapThenFoldSet

LEMMA BooksAreBalanced ==
    ASSUME Inv, Postings PROVE BooksBalance
  <1> DEFINE m == [a \in Accounts |-> Moves(a)]
             column == [k \in Keys |-> [a \in Accounts |-> NetEffect(ledger[k], {a})]]
             byAccount == [a \in Accounts |-> Balance(a)]
             byKey == [k \in Keys |-> 0]
  <1>1. \A a \in Accounts, k \in Keys : m[a][k] \in Int
    BY MovesType
  <1>2. \A k \in Keys, a \in Accounts : column[k][a] = m[a][k]
    BY DEF Moves
  <1>3. \A a \in Accounts : byAccount[a] = SumFunctionOnSet(m[a], Keys)
    BY BalanceIsSum
  <1>4. ASSUME NEW k \in Keys PROVE byKey[k] = SumFunctionOnSet(column[k], Accounts)
    <2>1. AreLines(ledger[k])
      BY KeysHaveLines
    <2>2. NetEffect(ledger[k], Accounts) = 0
      <3>1. Net({l \in ledger[k] : l.account \in Accounts}) = NetEffect(ledger[k], Accounts)
        BY <2>1, NetIsSum
      <3>2. {l \in ledger[k] : l.account \in Accounts} = ledger[k]
        BY DEF Inv, TypeOK, Lines
      <3>3. Net(ledger[k]) = 0
        BY PostingBalances
      <3> QED BY <3>1, <3>2, <3>3
    <2>3. SumFunctionOnSet([a \in Accounts |-> NetEffect(ledger[k], {a})], Accounts) = NetEffect(ledger[k], Accounts)
      BY <2>1, EffectByAccount
    <2> QED BY <2>2, <2>3
  <1> HIDE DEF m, column, byAccount, byKey
  <1>5. SumFunctionOnSet(byAccount, Accounts) = SumFunctionOnSet(byKey, Keys)
    <2>1. IsTable(Accounts, Keys, m, column, byAccount, byKey)
      BY <1>1, <1>2, <1>3, <1>4, AccountsFinite, KeysFinite DEF IsTable
    <2> QED BY <2>1, SumExchange
  <1>6. SumFunctionOnSet(byKey, Keys) = 0
    <2>1. \A k \in Keys : byKey[k] = 0
      BY DEF byKey
    <2> QED BY <2>1, KeysFinite, SumZero
  <1> QED BY <1>5, <1>6, AccountsAsSum DEF byAccount, BooksBalance

\* The trial balance of the ledger is 0 after any steps of the two rails.
THEOREM TrialBalance == Spec => []BooksBalance
  <1>1. Inv /\ Book => BooksBalance
    BY BooksAreBalanced DEF Book
  <1> QED BY BookInductive, <1>1, PTL
=============================================================================
