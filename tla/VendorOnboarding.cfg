SPECIFICATION Spec
CONSTANTS
  u1 = u1
  i1 = i1
  i2 = i2
  r1 = r1
  r2 = r2
  v1 = v1
  v2 = v2
  a1 = a1
  a2 = a2
  Users = {u1}
  Instances = {i1}
  Requests = {r1, r2}
  Roles = {"client", "vendor_pending", "vendor"}
  InitialRoles = {"client"}
  MaxVersion = 2
  NoEntry = NoEntry
  Vendors = {v1}
  Applications = {a1, a2}
  OwnerOf <- MCOwnerOf
  VendorOf <- MCVendorOf
  NoVendor = NoVendor
CHECK_DEADLOCK FALSE
INVARIANTS
  TypeOK
  CacheAgrees
  LoadedRolesWereHeld
  VendorsWereApproved
  PendingIsUnderReview
