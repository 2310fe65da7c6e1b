SPECIFICATION Spec
CONSTANTS
  Plans = {1, 2, 3}
  NoPlan = NoPlan
  MaxPo = 4
  NoSession = NoSession
  MaxFaults = 2
  Builders = {b1, b2}
  MaxPlans = 2
  EmptyPlans = {2}
  Admins = {a1}
  Senders = {}
  Retriers = {}
  MaxPos = 1
  RetryMax = 1
  Suppliers = {s1}
  SupplierOf <- OneSupplier
SYMMETRY SessionSymmetry
INVARIANTS OneLiveOrderPerPlan ConvertedIffOrdered ClaimsDisjoint
