SPECIFICATION Spec
CONSTANTS
  v1 = v1
  o1 = o1
  p1 = p1
  po1 = po1
  po2 = po2
  k1 = k1
  c1 = c1
  t1 = t1
  x1 = x1
  q1 = q1
  platform = platform
  Payments = {p1}
  Payouts = {po1, po2}
  RefundKeys = {k1}
  ChargebackEvents = {c1}
  TicketPayments = {t1}
  Cases = {x1}
  OrganizerPayouts = {q1}
  Vendors = {v1}
  Organizers = {o1}
  Platform = platform
  VendorOf <- MCVendorOf
  PaymentOf <- MCPaymentOf
  OrganizerOf <- MCOrganizerOf
  CaseOf <- MCCaseOf
  TicketOf <- MCTicketOf
  Subtotal <- MCSubtotal
  Fee <- MCFee
  CaseRefund <- MCCaseRefund
CHECK_DEADLOCK FALSE
INVARIANTS
  EarningsReported
