----------------------------- MODULE MCOfflineQueue -----------------------------
(* OfflineQueue on small sets: a movement and a damage, two loops. *)
EXTENDS OfflineQueue

CONSTANTS move, damage, l1, l2

================================================================================
