SPECIFICATION FairSpec
CONSTANTS
  Plans = {1, 2}
  NoPlan = NoPlan
  MaxPo = 2
  NoSession = NoSession
  MaxFaults = 1
  Builders = {b1}
  MaxPlans = 2
  EmptyPlans = {1}
  Admins = {a1}
  Senders = {r1, r2}
  Retriers = {}
  MaxPos = 1
  RetryMax = 1
  Suppliers = {s1}
  SupplierOf <- OneSupplier
PROPERTIES PlansOrdered OrdersSettled SessionsEnd
