SPECIFICATION Spec
CONSTANTS
  b1 = b1
  p1 = p1
  p2 = p2
  k1 = k1
  k2 = k2
  c1 = c1
  Bookings = {b1}
  Payments = {p1}
  RefundKeys = {k1, k2}
  ChargebackEvents = {c1}
  BookingOf <- MCBookingOf
  ChargebackOf <- MCChargebackOf
  Total <- MCTotal
  Fee <- MCFee
CHECK_DEADLOCK FALSE
INVARIANT ConfirmedIsFunded
