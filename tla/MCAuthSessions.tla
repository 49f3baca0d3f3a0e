----------------------------- MODULE MCAuthSessions -----------------------------
(* Small instances of AuthSessions for TLC. *)
EXTENDS AuthSessions, TLC

CONSTANTS w, s1, s2, t1, t2

Symmetry == Permutations(Sessions) \cup Permutations(Tabs)

(* Both tabs are of one browser. *)
OneBrowser == [t \in Tabs |-> "browser"]

================================================================================
