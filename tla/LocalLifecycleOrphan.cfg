\* Queries may fail: does make local still clean up what it created?
CONSTANTS
  r1 = r1
  r2 = r2
  u1 = u1
  d1 = d1
  shared = shared
  own = own
  Runs = {r1}
  Ups = {u1}
  Downs = {}
  Checkouts = {shared, own}
  CheckoutOf <- MCCheckoutOf
  NoOne = NoOne
  Faults <- QueryFaults
SPECIFICATION Spec
INVARIANTS
  CreatorCleansUp
