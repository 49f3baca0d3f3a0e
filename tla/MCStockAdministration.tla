------------------------- MODULE MCStockAdministration -------------------------
(* A small instance of StockAdministration for TLC: nothing in stock. *)
EXTENDS StockAdministration, TLC

CONSTANTS t1, t2, l1, l2, a1, a2

Symmetry == Permutations(Locations) \cup Permutations(Calls) \cup Permutations(Txns)

Nothing == [l \in Locations |-> 0]

NoTasks == [k \in Tasks |-> [status |-> "ABSENT", type |-> "RECOUNT",
                             from |-> None, to |-> None, of |-> None]]

================================================================================
