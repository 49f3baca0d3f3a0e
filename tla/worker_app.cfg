SPECIFICATION Spec
CONSTANTS
  move = move
  damage = damage
  l1 = l1
  l2 = l2
  None = None
  Updates = {move, damage}
  Reviewed = {damage}
  Damages = {damage}
  MaxRequests = 2
  Loops = {l1, l2}
INVARIANTS TypeOK ToldIsKeptOnce
CHECK_DEADLOCK FALSE
