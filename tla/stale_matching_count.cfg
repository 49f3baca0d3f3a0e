SPECIFICATION Spec
CONSTANTS
  t1 = t1
  t2 = t2
  t3 = t3
  l1 = l1
  l2 = l2
  k1 = k1
  k2 = k2
  r1 = r1
  r2 = r2
  None = None
  Txns = {t1, t2}
  Locations = {l1, l2}
  Tasks = {k1}
  Requests = {r1, r2}
  Actions = {"CYCLE_COUNT", "SHIP"}
  Quantities = {1, 2}
  InitialStock <- SomeStock
  InitialTasks <- ShippingTask
  SafetyStock = 0
  ReorderQuantity = 1
SYMMETRY Symmetry
PROPERTIES UnreviewedCountKeepsStock
