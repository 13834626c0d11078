SPECIFICATION Spec
CONSTANTS
  o1 = o1
  o2 = o2
  k1 = k1
  s1 = s1
  s2 = s2
  po1 = po1
  po2 = po2
  r1 = r1
  r2 = r2
  Orders = {o1, o2}
  Cases = {k1}
  Staff = {s1, s2}
  Payouts = {po1, po2}
  Requests = {r1}
  CaseOf <- MCCaseOf
  Amount <- MCAmount
  Subtotal <- MCSubtotal
  MaxCaptures = 1
  MaxRequest = 3
  NoOrder = NoOrder
  NoPayout = NoPayout
CHECK_DEADLOCK FALSE
SYMMETRY MCSymmetry
INVARIANTS
  TypeOK
  RowsAreOwned
  ReleasesAreBacked
  RefundsApprovedTwice
PROPERTIES
  FailedIsFinal
  SettledIsFinal
