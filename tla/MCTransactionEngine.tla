-------------------------- MODULE MCTransactionEngine --------------------------
(* Small instances of TransactionEngine for TLC. *)
EXTENDS TransactionEngine, TLC

CONSTANTS t1, t2, t3, l1, l2, k1, k2, r1, r2

Symmetry == Permutations(Txns) \cup Permutations(Requests)

SomeStock == l1 :> 2 @@ l2 :> 1

NoTask == [status |-> "ABSENT", type |-> "RECOUNT",
           from |-> None, to |-> None, of |-> None]

AssignedTask(type, l) ==
  [status |-> "OPEN", type |-> type, from |-> l, to |-> None, of |-> None]

(* A shipping task at l1 and a cycle-count task at l2 wait for their workers. *)
ShippingTask == k1 :> AssignedTask("SHIP", l1)
ShippingAndCounting == ShippingTask @@ k2 :> AssignedTask("CYCLE_COUNT", l2)

================================================================================
