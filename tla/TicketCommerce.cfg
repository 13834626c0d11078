SPECIFICATION Spec
CONSTANTS
  t1 = t1
  o1 = o1
  o2 = o2
  p1 = p1
  p2 = p2
  s1 = s1
  s2 = s2
  Tiers = {t1}
  Orders = {o1, o2}
  Payments = {p1, p2}
  Scanners = {s1}
  OrderOf <- MCOrderOf
  MaxCapacity = 2
  MaxQuantity = 2
  NoTicket = NoTicket
CHECK_DEADLOCK FALSE
INVARIANTS
  TypeOK
  InventoryExact
  FulfilledIsPaid
  OneTicketPerUnit
  AdmittedIsPaid
