SPECIFICATION AdminSpec
CONSTANTS
  t1 = t1
  t2 = t2
  l1 = l1
  l2 = l2
  a1 = a1
  a2 = a2
  None = None
  Txns = {t1, t2}
  Locations = {l1}
  Tasks = {}
  Requests = {}
  Actions = {"RECEIVE", "SHIP"}
  Quantities = {1}
  InitialStock <- Nothing
  InitialTasks <- NoTasks
  SafetyStock = 0
  ReorderQuantity = 1
  Calls = {a1, a2}
SYMMETRY Symmetry
INVARIANTS AdminTypeOK ChecksSuffice
CHECK_DEADLOCK FALSE
