SPECIFICATION TaskSpec
CONSTANTS
  t1 = t1
  l1 = l1
  k1 = k1
  k2 = k2
  r1 = r1
  c1 = c1
  c2 = c2
  w1 = w1
  p1 = p1
  p2 = p2
  None = None
  Txns = {t1}
  Locations = {l1}
  Tasks = {k1, k2}
  Requests = {r1}
  Actions = {"SHIP"}
  Quantities = {1}
  InitialStock <- TwoPieces
  InitialTasks <- OneShipping
  SafetyStock = 0
  ReorderQuantity = 1
  Workers = {w1}
  Manager = Manager
  Calls = {c1, c2}
  NewTasks <- CountAtOne
  Plans = {p1, p2}
  Period <- SameMonth
  Selected <- SameLocation
  InitialAssignees <- NobodyYet
SYMMETRY Symmetry
INVARIANTS TasksTypeOK ClaimIsKept ShippedBeforeCompleted PlannedIsCounted
