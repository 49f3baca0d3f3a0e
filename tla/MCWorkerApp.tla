------------------------------ MODULE MCWorkerApp ------------------------------
(* WorkerApp on small sets: a movement and a damage, two loops. *)
EXTENDS WorkerApp

CONSTANTS move, damage, l1, l2

================================================================================
