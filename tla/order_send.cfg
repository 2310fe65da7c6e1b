SPECIFICATION Spec
CONSTANTS
  Plans = {1}
  NoPlan = NoPlan
  MaxPo = 2
  NoSession = NoSession
  MaxFaults = 2
  Builders = {b1}
  MaxPlans = 1
  EmptyPlans = {}
  Admins = {a1}
  Senders = {r1, r2}
  Retriers = {t1}
  MaxPos = 1
  RetryMax = 1
  Suppliers = {s1}
  SupplierOf <- OneSupplier
SYMMETRY SessionSymmetry
INVARIANTS IndInv SuccessMatchesSent CancelAuditedOnce SendsBounded
PROPERTIES ImplementsContract
