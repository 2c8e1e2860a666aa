\* Two make local, a make up and a make down on one host, every fault.
CONSTANTS
  r1 = r1
  r2 = r2
  u1 = u1
  d1 = d1
  shared = shared
  own = own
  Runs = {r1, r2}
  Ups = {u1}
  Downs = {d1}
  Checkouts = {shared, own}
  CheckoutOf <- MCCheckoutOf
  NoOne = NoOne
  Faults <- AllFaults
SPECIFICATION FairSpec
INVARIANTS
  StaysOnOwnCluster
PROPERTIES
  ChangedByHolder
  CleanupSparesForeignCredentials
  EndsAreHonest
  OwnedClusterIsCleanedUp
