------------------------------ MODULE StockLedger ------------------------------
(***************************************************************************)
(* What the inventory of one product promises, without handlers, requests  *)
(* or review states.  A movement row reaches the balances at most once and *)
(* as a whole, it never takes more than a location holds, and otherwise a  *)
(* balance is only ever set to a quantity somebody counted there.          *)
(* inventory.service.ts and discrepancies.service.ts are checked against   *)
(* this specification (see TransactionEngine and DiscrepancyReview).       *)
(***************************************************************************)
EXTENDS Integers

CONSTANTS Rows,          \* identities of ledger rows
          Locations,     \* warehouse locations
          None,          \* the absent location
          Quantities,    \* quantities a movement or a count can carry
          InitialStock   \* the balances the history starts from

VARIABLES stock,   \* stock[l]: balance at location l
          moved    \* the movement rows that have reached the balances

ledgerVars == <<stock, moved>>

(* A movement comes from a location, goes to a location, or both. *)
Movements ==
  [action : {"RECEIVE"}, quantity : Quantities,
   source : {None}, destination : Locations]
    \cup
  [action : {"SHIP", "DAMAGE"}, quantity : Quantities,
   source : Locations, destination : {None}]
    \cup
  {m \in [action : {"TRANSFER"}, quantity : Quantities,
          source : Locations, destination : Locations] :
     m.source # m.destination}

Inflow(m, l) ==
  IF m.action \in {"RECEIVE", "TRANSFER"} /\ m.destination = l THEN m.quantity ELSE 0

Outflow(m, l) ==
  IF m.action \in {"SHIP", "TRANSFER", "DAMAGE"} /\ m.source = l THEN m.quantity ELSE 0

Init == /\ stock = InitialStock
        /\ moved = [n \in {} |-> None]

(* Row n reaches the balances with a movement m: for the first time, and    *)
(* only if every location can give what the movement takes from it.         *)
Move(n) ==
  /\ n \notin DOMAIN moved
  /\ \E m \in Movements :
       /\ \A l \in Locations : Outflow(m, l) <= stock[l]
       /\ stock' = [l \in Locations |-> stock[l] + Inflow(m, l) - Outflow(m, l)]
       /\ moved' = [k \in DOMAIN moved \cup {n} |-> IF k = n THEN m ELSE moved[k]]

(* A location is set to the quantity counted there. *)
Count(l, q) ==
  /\ stock' = [stock EXCEPT ![l] = q]
  /\ UNCHANGED moved

Next == \/ \E n \in Rows : Move(n)
        \/ \E l \in Locations, q \in Quantities : Count(l, q)

Spec == Init /\ [][Next]_ledgerVars

================================================================================
