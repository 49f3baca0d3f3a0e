------------------------------ MODULE MCTaskQueue ------------------------------
(* A small instance of TaskQueue for TLC. *)
EXTENDS TaskQueue, TLC

CONSTANTS t1, l1, k1, k2, r1, c1, c2, w1, p1, p2

Symmetry == Permutations(Calls) \cup Permutations(Plans)

TwoPieces == [l \in Locations |-> 2]

NoTask == [status |-> "ABSENT", type |-> "RECOUNT",
           from |-> None, to |-> None, of |-> None]

Task(type, l) ==
  [status |-> "OPEN", type |-> type, from |-> l, to |-> None, of |-> None]

(* A shipping task waits at l1, there is room for one more task. *)
OneShipping == [k \in Tasks |-> IF k = k1 THEN Task("SHIP", l1) ELSE NoTask]

(* It is anybody's; a recount would go to w1. *)
NobodyYet == {[k \in Tasks |-> IF k = k1 THEN None ELSE w1]}

CountAtOne == {Task("CYCLE_COUNT", l1)}

SameMonth == [p \in Plans |-> 1]

(* Two plans for one month that select the same location. *)
SameLocation == [p \in Plans |-> {l1}]

================================================================================
