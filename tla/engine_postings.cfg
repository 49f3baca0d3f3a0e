SPECIFICATION Spec
CONSTANTS
  t1 = t1
  t2 = t2
  t3 = t3
  l1 = l1
  l2 = l2
  k1 = k1
  k2 = k2
  r1 = r1
  r2 = r2
  None = None
  Txns = {t1, t2}
  Locations = {l1, l2}
  Tasks = {k1, k2}
  Requests = {r1, r2}
  Actions = {"RECEIVE", "SHIP", "TRANSFER", "DAMAGE", "CYCLE_COUNT"}
  Quantities = {1}
  InitialStock <- SomeStock
  InitialTasks <- ShippingAndCounting
  SafetyStock = 3
  ReorderQuantity = 1
SYMMETRY Symmetry
INVARIANTS TypeOK DraftMatchesStock CompletedTaskHasConfirmedWork
PROPERTIES LedgerSpec
