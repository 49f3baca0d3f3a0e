-------------------------- MODULE MCDiscrepancyReview --------------------------
(* Small instances of DiscrepancyReview for TLC. *)
EXTENDS DiscrepancyReview, TLC

CONSTANTS t1, t2, t3, l1, l2, k1, k2, r1, r2

Symmetry == Permutations(Txns) \cup Permutations(Tasks)
              \cup Permutations(Requests) \cup Permutations(Locations)

TwoEverywhere == [l \in Locations |-> 2]

NoTask == [status |-> "ABSENT", type |-> "RECOUNT",
           from |-> None, to |-> None, of |-> None]

(* No task yet, room for as many recount tasks as Tasks has members. *)
RoomForRecounts == [k \in Tasks |-> NoTask]

================================================================================
