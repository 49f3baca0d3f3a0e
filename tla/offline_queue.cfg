SPECIFICATION QueueSpec
CONSTANTS
  move = move
  damage = damage
  l1 = l1
  l2 = l2
  Updates = {move, damage}
  Reviewed = {damage}
  MaxRequests = 2
  Loops = {l1, l2}
PROPERTIES RemovedWasConfirmed SentInOrder SavedIsDelivered
CHECK_DEADLOCK FALSE
