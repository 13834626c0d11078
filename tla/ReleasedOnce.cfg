SPECIFICATION Spec
CONSTANTS
  b1 = b1
  p1 = p1
  p2 = p2
  po1 = po1
  po2 = po2
  d1 = d1
  s1 = s1
  s2 = s2
  Bookings = {b1}
  Payments = {p1}
  Payouts = {po1, po2}
  Disputes = {d1}
  Callers = {s1}
  BookingOf <- MCBookingOf
  Disputed <- MCDisputed
  NoPayment = NoPayment
  NoPayout = NoPayout
  NoDispute = NoDispute
CHECK_DEADLOCK FALSE
INVARIANT ReleasedOnce
