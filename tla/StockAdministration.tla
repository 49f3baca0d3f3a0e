-------------------------- MODULE StockAdministration --------------------------
(***************************************************************************)
(* Master data and opening stock of one product (inventory.service.ts,     *)
(* setup.service.ts), beside the movements of the transaction engine: the  *)
(* product is deleted and restored, locations are opened, closed and       *)
(* deleted, balance rows are made, filled and corrected.                   *)
(*                                                                         *)
(* Almost every request checks the database first and writes later, by id. *)
(* `stale' tells whether the check of some request no longer held when it  *)
(* wrote, `careless' whether somebody did what the code does not check.    *)
(***************************************************************************)
EXTENDS TransactionEngine

CONSTANTS Calls           \* requests that can be in flight

VARIABLES product,        \* "absent", "active" or "deleted" (Product.active)
          place,          \* the same of each location (Location.active)
          assigned,       \* locations with an InventoryBalance row
          openings,       \* opening entries there are for each row
          entry,          \* the ledger entries administrators made at each location:
                          \* "none", "other" or, if one of them is OPENING-..., "opening"
          call,           \* what each request in flight is about to write
          lost,           \* history: stock was deleted together with its row
          orphaned,       \* history: a transaction was deprived of its location
          stale, careless

adminVars == <<product, place, assigned, openings, entry, call,
               lost, orphaned, stale, careless>>
stockVars == <<vars, adminVars>>

(* An empty database has no balance. *)
ASSUME EmptyAssumption == InitialStock = [l \in Locations |-> 0]

Free == [step |-> "free"]

Asked == [step : {"enter"}, input : Inputs]
         \cup [step : {"archive", "archiveStocked", "restore"}]
         \cup [step : {"close", "delete", "open", "assign", "setup"}, at : Locations]

(* An empty database. *)
AdminInit ==
  /\ Init
  /\ product = "absent"
  /\ place = [l \in Locations |-> "absent"]
  /\ assigned = {}
  /\ entry = [l \in Locations |-> "none"]
  /\ openings = [l \in Locations |-> 0]
  /\ call = [a \in Calls |-> Free]
  /\ lost = FALSE /\ orphaned = FALSE /\ stale = FALSE /\ careless = FALSE

--------------------------------------------------------------------------------
(* What the requests check before they write *)

Offered(l) == product = "active" /\ place[l] = "active"

(* createTransaction: validateLocationRecords *)
Enterable(i) == product = "active" /\ \A l \in {i.source, i.destination} \ {None} : Offered(l)

StockedNowhere == \A l \in Locations : stock[l] = 0

Uses(t, l) == txn[t].status # "ABSENT" /\ l \in {txn[t].source, txn[t].destination}

(* Mutant: only the stock is looked at. *)
IdleStock(l) == stock[l] = 0

(* updateLocation: no stock and nothing pending. *)
IdleLocation(l) ==
  stock[l] = 0 /\ \A t \in Txns : Uses(t, l) => txn[t].status # "PENDING"

(* deleteLocation: no balance row and no transaction at all. *)
UnusedLocation(l) ==
  l \notin assigned /\ entry[l] = "none" /\ \A t \in Txns : ~Uses(t, l)

Checked(q) ==
  CASE q.step = "enter"          -> Enterable(q.input)
    [] q.step = "archive"        -> product = "active" /\ StockedNowhere
    [] q.step = "archiveStocked" -> product = "active" /\ ~StockedNowhere
    [] q.step = "restore"        -> product = "deleted"
    [] q.step = "close"          -> place[q.at] # "absent" /\ IdleLocation(q.at)
    [] q.step = "delete"         -> place[q.at] # "absent" /\ UnusedLocation(q.at)
    [] q.step \in {"open", "assign"} -> Offered(q.at) /\ q.at \notin assigned
    [] q.step = "setup"          -> q.at \in assigned /\ entry[q.at] # "opening"

Ask(a, q) ==
  /\ call[a] = Free
  /\ Checked(q)
  /\ call' = [call EXCEPT ![a] = q]
  /\ UNCHANGED <<vars, product, place, assigned, openings, entry,
                 lost, orphaned, stale, careless>>

(* A 4xx reply, or the request dies. *)
Drop(a) ==
  /\ call[a] # Free
  /\ call' = [call EXCEPT ![a] = Free]
  /\ UNCHANGED <<vars, product, place, assigned, openings, entry,
                 lost, orphaned, stale, careless>>

Writing(a, step) == call[a].step = step
Where(a) == call[a].at

(* The request is answered; whether its check still held is remembered. *)
Answer(a) == /\ call' = [call EXCEPT ![a] = Free]
             /\ stale' = (stale \/ ~Checked(call[a]))

(* Mutant: balances and locations are written by product and location. *)
AnswerAlone(a, steps, gone) ==
  /\ call' = [call EXCEPT ![a] = Free]
  /\ stale' = (stale \/ ~Checked(call[a]) \/ (steps = {} /\ gone = {}))

(* The rows of some locations are gone, and the requests that hold one of   *)
(* their ids will find nothing to update.                                   *)
AnswerWithout(a, steps, gone) ==
  /\ call' = [b \in Calls |->
       IF b = a \/ (call[b].step \in steps /\ call[b].at \in gone) THEN Free ELSE call[b]]
  /\ stale' = (stale \/ ~Checked(call[a]))

--------------------------------------------------------------------------------
(* The product *)

(* createProduct, for a SKU there has never been. *)
CreateProduct ==
  /\ product = "absent"
  /\ product' = "active"
  /\ UNCHANGED <<vars, place, assigned, openings, entry, call,
                 lost, orphaned, stale, careless>>

DeleteRows ==
  /\ stock' = [l \in Locations |-> 0]
  /\ assigned' = {}
  /\ openings' = [l \in Locations |-> 0]
  /\ lost' = (lost \/ ~StockedNowhere)

(* createProduct, for the SKU of a deleted product. *)
RestoreProduct(a) ==
  /\ Writing(a, "restore")
  /\ product # "absent"
  /\ product' = "active"
  /\ DeleteRows
  /\ AnswerWithout(a, {"setup"}, Locations)
  /\ UNCHANGED <<txn, cases, tasks, draft, handler, place, entry, orphaned, careless>>

(* deactivateProduct: what is pending is not asked for. *)
ArchiveProduct(a) ==
  /\ Writing(a, "archive")
  /\ product # "absent"
  /\ product' = "deleted"
  /\ draft' = {}
  /\ DeleteRows
  /\ AnswerWithout(a, {"setup"}, Locations)
  /\ careless' = (careless \/ \E t \in Txns : txn[t].status = "PENDING")
  /\ UNCHANGED <<txn, cases, tasks, handler, place, entry, orphaned>>

(* With administratorOverride the rows stay. *)
ArchiveStockedProduct(a) ==
  /\ Writing(a, "archiveStocked")
  /\ product # "absent"
  /\ product' = "deleted"
  /\ draft' = {}
  /\ Answer(a)
  /\ careless' = TRUE
  /\ UNCHANGED <<stock, txn, cases, tasks, handler, place, assigned, openings,
                 entry, lost, orphaned>>

--------------------------------------------------------------------------------
(* Locations *)

(* createLocation, or updateLocation with active: true. *)
OpenLocation(l) ==
  /\ place[l] # "active"
  /\ place' = [place EXCEPT ![l] = "active"]
  /\ UNCHANGED <<vars, product, assigned, openings, entry, call,
                 lost, orphaned, stale, careless>>

(* updateLocation with active: false *)
CloseLocation(a) ==
  /\ Writing(a, "close")
  /\ place' = [place EXCEPT ![Where(a)] = "deleted"]
  /\ Answer(a)
  /\ UNCHANGED <<vars, product, assigned, openings, entry, lost, orphaned, careless>>

Deprived(t, l) ==
  [txn[t] EXCEPT !.source = IF @ = l THEN None ELSE @,
                 !.destination = IF @ = l THEN None ELSE @]

(* deleteLocation: a balance row would restrict it, a transaction loses its *)
(* location (ON DELETE SET NULL).                                           *)
DeleteLocation(a) ==
  LET l == Where(a) IN
  /\ Writing(a, "delete")
  /\ l \notin assigned
  /\ place' = [place EXCEPT ![l] = "absent"]
  /\ txn' = [t \in Txns |-> Deprived(t, l)]
  /\ entry' = [entry EXCEPT ![l] = "none"]
  /\ orphaned' = (orphaned \/ entry[l] # "none" \/ \E t \in Txns : Uses(t, l))
  /\ AnswerWithout(a, {"close", "delete", "open", "assign"}, {l})
  /\ UNCHANGED <<stock, cases, tasks, draft, handler, product, assigned, openings,
                 lost, careless>>

--------------------------------------------------------------------------------
(* Balance rows *)

(* product and location are unique together. *)
InsertRow(l, q) ==
  /\ l \notin assigned
  /\ assigned' = assigned \cup {l}
  /\ stock' = [stock EXCEPT ![l] = q]

(* A posted count of the administrator goes with it. *)
Record(l, reference) ==
  entry' = [entry EXCEPT ![l] = IF @ = "opening" THEN @ ELSE reference]

(* createOpeningBalance *)
OpenBalance(a, q) ==
  LET l == Where(a) IN
  /\ Writing(a, "open")
  /\ InsertRow(l, q)
  /\ openings' = [openings EXCEPT ![l] = @ + 1]
  /\ Record(l, "opening")
  /\ Answer(a)
  /\ UNCHANGED <<txn, cases, tasks, draft, handler, product, place,
                 lost, orphaned, careless>>

(* createAssignment *)
Assign(a) ==
  /\ Writing(a, "assign")
  /\ InsertRow(Where(a), 0)
  /\ Answer(a)
  /\ UNCHANGED <<txn, cases, tasks, draft, handler, product, place, openings, entry,
                 lost, orphaned, careless>>

(* createOpeningStock.  The entry is found again only when its reference is *)
(* left to the service; the product and the location need not be active.    *)
SetupOpening(a, q, reference) ==
  LET l == Where(a) IN
  /\ Writing(a, "setup")
  /\ stock' = [stock EXCEPT ![l] = q]
  /\ openings' = [openings EXCEPT ![l] = IF @ = 2 THEN 2 ELSE @ + 1]   \* bound
  /\ Record(l, reference)
  /\ Answer(a)
  /\ careless' = (careless \/ reference # "opening" \/ ~Offered(l))
  /\ UNCHANGED <<txn, cases, tasks, draft, handler, product, place, assigned,
                 lost, orphaned>>

(* adjustBalance, of any row there is. *)
AdjustBalance(l, q) ==
  /\ l \in assigned
  /\ stock' = [stock EXCEPT ![l] = q]
  /\ Record(l, "other")
  /\ careless' = (careless \/ ~Offered(l))
  /\ UNCHANGED <<txn, cases, tasks, draft, handler, product, place, assigned, openings,
                 call, lost, orphaned, stale>>

--------------------------------------------------------------------------------
(* Movements *)

(* createTransaction; the foreign keys ask that the locations exist. *)
Enter(a, t) ==
  LET i == call[a].input IN
  /\ Writing(a, "enter")
  /\ product # "absent" /\ \A l \in {i.source, i.destination} \ {None} : place[l] # "absent"
  /\ txn[t].status = "ABSENT"
  /\ txn' = [txn EXCEPT ![t] =
       [NoTxn EXCEPT !.status = "PENDING", !.action = i.action, !.quantity = i.quantity,
                     !.source = i.source, !.destination = i.destination]]
  /\ Answer(a)
  /\ UNCHANGED <<stock, cases, tasks, draft, handler, product, place, assigned,
                 openings, entry, lost, orphaned, careless>>

Whole(m) == /\ m.action = "RECEIVE" \/ m.source # None
            /\ m.action = "SHIP" \/ m.destination # None

(* confirmTransaction: neither the product nor the locations are looked at; *)
(* the draft of a deleted product is left alone.                            *)
Confirm(t) ==
  /\ StillPending(t)
  /\ Whole(txn[t])
  /\ Available(stock, txn[t])
  /\ stock' = ApplyStockMovement(stock, txn[t])
  /\ draft' = IF product = "active" THEN SyncedDraft(stock') ELSE draft
  /\ txn' = MarkPosted(t)
  /\ assigned' = assigned \cup ({txn[t].destination} \ {None})
  /\ UNCHANGED <<cases, tasks, handler, product, place, openings, entry, call,
                 lost, orphaned, stale, careless>>

(* cancelTransaction, of a movement nobody has confirmed yet. *)
Cancel(t) ==
  /\ StillPending(t)
  /\ txn' = [txn EXCEPT ![t].status = "CANCELLED"]
  /\ UNCHANGED <<stock, cases, tasks, draft, handler, adminVars>>

(* removeDefaultData: users, sessions and counting plans stay. *)
RemoveDefaultData ==
  /\ stock' = [l \in Locations |-> 0]
  /\ txn' = [t \in Txns |-> NoTxn] /\ cases' = [t \in Txns |-> NoCase]
  /\ tasks' = [k \in Tasks |-> [tasks[k] EXCEPT !.status = "ABSENT"]]
  /\ draft' = {}
  /\ product' = "absent"
  /\ place' = [l \in Locations |-> "absent"]
  /\ assigned' = {}
  /\ entry' = [l \in Locations |-> "none"]
  /\ openings' = [l \in Locations |-> 0]
  /\ call' = [a \in Calls |-> Free]
  /\ UNCHANGED <<handler, lost, orphaned, stale, careless>>

--------------------------------------------------------------------------------
AdminNext ==
  \/ CreateProduct \/ RemoveDefaultData
  \/ \E l \in Locations : OpenLocation(l) \/ \E q \in Quantities \cup {0} : AdjustBalance(l, q)
  \/ \E t \in Txns : Confirm(t) \/ Cancel(t)
  \/ \E a \in Calls :
       \/ \E q \in Asked : Ask(a, q)
       \/ Drop(a)
       \/ RestoreProduct(a) \/ ArchiveProduct(a) \/ ArchiveStockedProduct(a)
       \/ CloseLocation(a) \/ DeleteLocation(a)
       \/ Assign(a)
       \/ \E q \in Quantities \cup {0} :
            \/ OpenBalance(a, q)
            \/ \E reference \in {"opening", "other"} : SetupOpening(a, q, reference)
       \/ \E t \in Txns : Enter(a, t)

AdminSpec == AdminInit /\ [][AdminNext]_stockVars

--------------------------------------------------------------------------------
(* Properties *)

(* The rows refer to what there is: no quantity without its row, no row of  *)
(* a location or a product that is gone, however the requests that made and *)
(* deleted them overlapped.                                                 *)
AdminTypeOK ==
  /\ TypeOK
  /\ product \in {"absent", "active", "deleted"}
  /\ place \in [Locations -> {"absent", "active", "deleted"}]
  /\ assigned \subseteq {l \in Locations : product # "absent" /\ place[l] # "absent"}
  /\ \A l \in Locations : stock[l] > 0 \/ openings[l] > 0 => l \in assigned
  /\ entry \in [Locations -> {"none", "other", "opening"}]
  /\ call \in [Calls -> {Free} \cup Asked]

(* The checks are the right ones: as long as each still held when its       *)
(* request wrote, and nobody did what has no check, no stock is deleted     *)
(* with its row, lies at a place or belongs to a product that is closed, no *)
(* movement waits there, none lost its location, and an assignment has one  *)
(* opening entry ("only one opening ledger entry per assignment",           *)
(* createOpeningStock).                                                     *)
ChecksSuffice ==
  ~stale /\ ~careless =>
    /\ ~lost /\ ~orphaned
    /\ product = "deleted" => StockedNowhere
    /\ \A l \in Locations :
         /\ place[l] # "active" =>
              /\ stock[l] = 0
              /\ ~\E t \in Txns : Uses(t, l) /\ txn[t].status = "PENDING"
         /\ openings[l] <= 1

(* "Prevent duplicate accidental submissions - only one opening ledger      *)
(* entry per assignment" (createOpeningStock).  It does not hold: an entry  *)
(* with a reference of its own is not found, and two requests at once do    *)
(* not see each other's.                                                    *)
OneOpeningPerAssignment == \A l \in Locations : openings[l] <= 1

================================================================================
