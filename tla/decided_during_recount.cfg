SPECIFICATION ReviewSpec
CONSTANTS
  t1 = t1
  t2 = t2
  t3 = t3
  l1 = l1
  l2 = l2
  k1 = k1
  k2 = k2
  r1 = r1
  r2 = r2
  None = None
  Txns = {t1}
  Locations = {l1}
  Tasks = {k1}
  Requests = {r1}
  Actions = {"CYCLE_COUNT"}
  Quantities = {1}
  InitialStock <- TwoEverywhere
  InitialTasks <- RoomForRecounts
  SafetyStock = 0
  ReorderQuantity = 1
SYMMETRY Symmetry
INVARIANTS NoDecisionDuringRecount
