SPECIFICATION Spec
CONSTANTS
  Plans = {1}
  NoPlan = NoPlan
  MaxPo = 3
  NoSession = NoSession
  MaxFaults = 0
  Builders = {b1}
  MaxPlans = 1
  EmptyPlans = {}
  Admins = {a1}
  Senders = {r1}
  Retriers = {t1}
  MaxPos = 1
  RetryMax = 1
  Suppliers = {s1}
  SupplierOf <- OneSupplier
INVARIANT SentOrderNotReplaced
