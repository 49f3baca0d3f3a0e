------------------------ MODULE TransactionEngine_proofs ------------------------
(* Theorems about TransactionEngine, for every value of its constants. *)
EXTENDS TransactionEngine, TLAPS

(* What a handler in flight knows about the transaction and the row it      *)
(* carries: it read them before, and these facts about them cannot change.  *)
HandlerKnows ==
  \A r \in Requests :
    /\ handler[r].step # "idle" =>
         handler[r].tx \in Txns /\ txn[handler[r].tx].status # "ABSENT"
    /\ handler[r].step \in {"settleCount", "settleRecount"} =>
         txn[handler[r].tx].action = "CYCLE_COUNT" /\ handler[r].seen \in Nat
    /\ handler[r].step = "settleRecount" =>
         /\ handler[r].row \in Txns
         /\ txn[handler[r].tx].recountTask \in Tasks
    /\ handler[r].step = "linkRecountTask" => handler[r].row \in Tasks

(* The locations that an action needs are there, the others are not. *)
Placed(m) ==
  /\ m.quantity \in Nat \ {0}
  /\ m.action = "RECEIVE" => m.source = None /\ m.destination \in Locations
  /\ m.action = "TRANSFER" => /\ m.source \in Locations /\ m.destination \in Locations
                             /\ m.source # m.destination
  /\ m.action \in {"SHIP", "DAMAGE", "CYCLE_COUNT"} =>
       m.source \in Locations /\ m.destination = None

(* So it is in every row in use, as validateTransaction admits no other.    *)
RowsPlaced == \A t \in Txns : txn[t].status # "ABSENT" => Placed(txn[t])

(* A row that has reached the balances is not waiting to be posted, even if *)
(* another request has overwritten its status since.                        *)
PostedNotPending ==
  \A t \in Txns : txn[t].posted => txn[t].status \notin {"PENDING", "ABSENT"}

IInv == TypeOK /\ HandlerKnows /\ RowsPlaced /\ PostedNotPending

USE EngineAssumption

(* A worker's input names the locations its action needs. *)
LEMMA InputPlaces ==
  ASSUME NEW i \in Inputs
  PROVE  /\ i.action \in InventoryActions /\ i.quantity \in Quantities
         /\ i.source \in Places /\ i.destination \in Places
         /\ Placed(i)
  BY DEF Inputs, Places, InventoryActions, Placed

(* Whatever a posting does to natural balances, they stay natural: nothing  *)
(* is taken that Available has not found there.                             *)
LEMMA MovementKeepsNat ==
  ASSUME NEW b \in [Locations -> Nat], NEW i, i.action \in InventoryActions,
         Placed(i), Available(b, i)
  PROVE  /\ ApplyStockMovement(b, i) \in [Locations -> Nat]
         /\ ApplyManagerApprovedMovement(b, i) \in [Locations -> Nat]
<1>1. CASE i.action = "RECEIVE"
  BY <1>1 DEF Placed, ApplyStockMovement, ApplyManagerApprovedMovement, Increase
<1>2. CASE i.action = "SHIP"
  BY <1>2
     DEF Placed, ApplyStockMovement, ApplyManagerApprovedMovement, Decrease, Available
<1>3. CASE i.action = "TRANSFER"
  BY <1>3
     DEF Placed, ApplyStockMovement, ApplyManagerApprovedMovement, Increase, Decrease, Available
<1>4. CASE i.action = "CYCLE_COUNT"
  BY <1>4
     DEF Placed, ApplyStockMovement, ApplyManagerApprovedMovement, ApplyCycleCountBalance
<1>5. CASE i.action = "DAMAGE"
  BY <1>5
     DEF Placed, ApplyStockMovement, ApplyManagerApprovedMovement, Decrease, Available
<1> QED BY <1>1, <1>2, <1>3, <1>4, <1>5 DEF InventoryActions

--------------------------------------------------------------------------------
(* Every step but an insert keeps what the rows in use were entered with. *)
RowsKept ==
  \A t \in Txns :
    /\ txn'[t].action = txn[t].action
    /\ txn'[t].quantity = txn[t].quantity
    /\ txn'[t].source = txn[t].source
    /\ txn'[t].destination = txn[t].destination
    /\ txn'[t].recountTask = txn[t].recountTask
    /\ txn'[t].status = "ABSENT" <=> txn[t].status = "ABSENT"

(* Such a step keeps every row in use where it was entered. *)
LEMMA KeptRows ==
  ASSUME IInv, RowsKept
  PROVE  RowsPlaced'
  BY DEF IInv, RowsPlaced, RowsKept, Placed

(* A request that ends, or none that moves on, leaves the others' knowledge *)
(* as it was.                                                               *)
LEMMA FinishKnows ==
  ASSUME IInv, RowsKept, NEW r \in Requests, Finish(r) \/ UNCHANGED handler
  PROVE  HandlerKnows' /\ handler' \in [Requests -> Handlers]
<1>1. handler' \in [Requests -> Handlers]
  BY DEF IInv, TypeOK, Finish, Idle, Handlers, Steps
<1>2. HandlerKnows'
  <2> SUFFICES ASSUME NEW q \in Requests, handler'[q] = handler[q] \/ handler'[q] = Idle
               PROVE  /\ handler'[q].step # "idle" =>
                           /\ handler'[q].tx \in Txns
                           /\ txn'[handler'[q].tx].status # "ABSENT"
                      /\ handler'[q].step \in {"settleCount", "settleRecount"} =>
                           /\ txn'[handler'[q].tx].action = "CYCLE_COUNT"
                           /\ handler'[q].seen \in Nat
                      /\ handler'[q].step = "settleRecount" =>
                           /\ handler'[q].row \in Txns
                           /\ txn'[handler'[q].tx].recountTask \in Tasks
                      /\ handler'[q].step = "linkRecountTask" =>
                           handler'[q].row \in Tasks
    BY DEF IInv, TypeOK, Finish, HandlerKnows
  <2>1. CASE handler'[q] = Idle
    BY <2>1 DEF Idle
  <2>2. CASE handler'[q] = handler[q]
    BY <2>2 DEF IInv, HandlerKnows, RowsKept
  <2> QED BY <2>1, <2>2
<1> QED BY <1>1, <1>2

(* A request that starts, having read what its later steps rely on. *)
LEMMA BeginIInv ==
  ASSUME IInv, NEW r \in Requests, NEW step \in Steps \ {"idle", "linkRecountTask"},
         NEW t \in Txns, NEW n \in Int, NEW row \in Txns \cup Locations \cup {None},
         Begin(r, step, t, n, row),
         txn[t].status # "ABSENT",
         step \in {"settleCount", "settleRecount"} =>
           txn[t].action = "CYCLE_COUNT" /\ n \in Nat,
         step = "settleRecount" => row \in Txns /\ txn[t].recountTask \in Tasks,
         UNCHANGED <<stock, txn, cases, tasks, draft>>
  PROVE  IInv'
<1>1. handler' \in [Requests -> Handlers]
  BY DEF IInv, TypeOK, Begin, Handlers
<1>2. HandlerKnows'
  BY DEF IInv, TypeOK, HandlerKnows, Begin, Handlers
<1>3. TypeOK' /\ RowsPlaced' /\ PostedNotPending'
  BY <1>1 DEF IInv, TypeOK, RowsPlaced, PostedNotPending
<1> QED BY <1>2, <1>3 DEF IInv

(* A request that goes on to a step which relies on no more than its        *)
(* transaction, or on the recount task it has just made.                    *)
LEMMA ContinueKnows ==
  ASSUME IInv, RowsKept, NEW r \in Requests,
         NEW step \in {"closeCase", "rejectCase", "makeRecountTask", "linkRecountTask"},
         NEW row \in Tasks \cup {None}, step = "linkRecountTask" => row \in Tasks,
         ~At(r, "idle"), Continue(r, step, row)
  PROVE  HandlerKnows' /\ handler' \in [Requests -> Handlers]
<1> DEFINE h == [handler[r] EXCEPT !.step = step, !.row = row]
<1>0. h \in Handlers
  <2>1. handler[r] \in Handlers
    BY DEF IInv, TypeOK
  <2> QED BY <2>1 DEF Handlers, Steps
<1>1. handler' \in [Requests -> Handlers]
  <2>1. handler' = [handler EXCEPT ![r] = h]
    BY DEF Continue
  <2> QED BY <1>0, <2>1 DEF IInv, TypeOK
<1>2. HandlerKnows'
  BY DEF IInv, TypeOK, Continue, HandlerKnows, RowsKept, At, Handlers
<1> QED BY <1>1, <1>2

--------------------------------------------------------------------------------
(* Posting a row, and confirming it *)

(* One row replaced by one that was entered with the same input. *)
LEMMA RowReplaced ==
  ASSUME IInv, NEW t \in Txns, NEW x \in TxnRows, txn' = [txn EXCEPT ![t] = x],
         x.action = txn[t].action, x.quantity = txn[t].quantity,
         x.source = txn[t].source, x.destination = txn[t].destination,
         x.recountTask = txn[t].recountTask,
         x.status = "ABSENT" <=> txn[t].status = "ABSENT",
         x.posted => x.status \notin {"PENDING", "ABSENT"}
  PROVE  txn' \in [Txns -> TxnRows] /\ RowsKept /\ PostedNotPending'
<1>1. txn \in [Txns -> TxnRows] /\ PostedNotPending
  BY DEF IInv, TypeOK
<1>2. \A u \in Txns : txn'[u] = IF u = t THEN x ELSE txn[u]
  BY <1>1
<1>3. txn' \in [Txns -> TxnRows]
  BY <1>1
<1>4. RowsKept
  BY <1>2 DEF RowsKept
<1>5. PostedNotPending'
  BY <1>1, <1>2 DEF PostedNotPending
<1> QED BY <1>3, <1>4, <1>5

(* Posting a row in use keeps its input, and a posted row is not pending.  *)
LEMMA MarkPostedKeeps ==
  ASSUME IInv, NEW t \in Txns, txn[t].status # "ABSENT", txn' = MarkPosted(t)
  PROVE  txn' \in [Txns -> TxnRows] /\ RowsKept /\ PostedNotPending'
<1> DEFINE x == [txn[t] EXCEPT !.status = "POSTED", !.posted = TRUE,
                               !.confirmed = TRUE]
<1>1. txn[t] \in TxnRows
  BY DEF IInv, TypeOK
<1>2. x \in TxnRows /\ x.status = "POSTED"
  BY <1>1 DEF TxnRows, TransactionStatus
<1>3. /\ x.action = txn[t].action /\ x.quantity = txn[t].quantity
      /\ x.source = txn[t].source /\ x.destination = txn[t].destination
      /\ x.recountTask = txn[t].recountTask
  BY <1>1 DEF TxnRows
<1>4. txn' = [txn EXCEPT ![t] = x]
  BY DEF MarkPosted
<1> HIDE DEF x
<1> QED BY <1>2, <1>3, <1>4, RowReplaced

(* So does confirming one: it sets nothing but confirmedAt.                 *)
LEMMA MarkConfirmedKeeps ==
  ASSUME IInv, NEW t \in Txns, txn' = MarkConfirmed(t)
  PROVE  txn' \in [Txns -> TxnRows] /\ RowsKept /\ PostedNotPending'
<1> DEFINE x == [txn[t] EXCEPT !.confirmed = TRUE]
<1>1. txn[t] \in TxnRows /\ PostedNotPending
  BY DEF IInv, TypeOK
<1>2. x \in TxnRows
  BY <1>1 DEF TxnRows
<1>3. /\ x.action = txn[t].action /\ x.quantity = txn[t].quantity
      /\ x.source = txn[t].source /\ x.destination = txn[t].destination
      /\ x.recountTask = txn[t].recountTask
      /\ x.status = txn[t].status
  BY <1>1 DEF TxnRows
<1>4. txn' = [txn EXCEPT ![t] = x]
  BY DEF MarkConfirmed
<1>5. x.posted => x.status \notin {"PENDING", "ABSENT"}
  <2>1. x.posted = txn[t].posted
    BY <1>1 DEF TxnRows
  <2> QED BY <1>1, <1>3, <2>1 DEF PostedNotPending
<1> HIDE DEF x
<1> QED BY <1>2, <1>3, <1>4, <1>5, RowReplaced

(* So does the unconditional status update of a cancellation, a rejection   *)
(* or a recount request, also when it overwrites POSTED.                    *)
LEMMA StatusWriteKeeps ==
  ASSUME IInv, NEW t \in Txns, txn[t].status # "ABSENT",
         NEW status \in {"CANCELLED", "REJECTED", "RECOUNT_REQUESTED"},
         txn' = [txn EXCEPT ![t].status = status]
  PROVE  txn' \in [Txns -> TxnRows] /\ RowsKept /\ PostedNotPending'
<1> DEFINE x == [txn[t] EXCEPT !.status = status]
<1>1. txn[t] \in TxnRows
  BY DEF IInv, TypeOK
<1>2. x \in TxnRows /\ x.status = status
  BY <1>1 DEF TxnRows, TransactionStatus
<1>3. /\ x.action = txn[t].action /\ x.quantity = txn[t].quantity
      /\ x.source = txn[t].source /\ x.destination = txn[t].destination
      /\ x.recountTask = txn[t].recountTask
  BY <1>1 DEF TxnRows
<1>4. txn' = [txn EXCEPT ![t] = x]
  OBVIOUS
<1> HIDE DEF x
<1> QED BY <1>2, <1>3, <1>4, RowReplaced

(* And so does a step that writes no row at all. *)
LEMMA SameRowsKeep ==
  ASSUME IInv, UNCHANGED txn
  PROVE  txn' \in [Txns -> TxnRows] /\ RowsKept /\ PostedNotPending'
  BY DEF IInv, TypeOK, RowsKept, PostedNotPending

(* Completing a task leaves well-formed tasks. *)
LEMMA CompleteTaskType ==
  ASSUME IInv, NEW k \in Tasks \cup {None}
  PROVE  /\ k # None => CompleteTask(k) \in [Tasks -> TaskRows]
         /\ CompleteIfOpen(k) \in [Tasks -> TaskRows]
  BY DEF IInv, TypeOK, CompleteTask, CompleteIfOpen, OpenTask, TaskRows, TaskStatus

(* syncReorderDrafts writes the two numbers of a draft. *)
LEMMA SyncedDraftShape ==
  ASSUME NEW b
  PROVE  \A d \in SyncedDraft(b) : DOMAIN d = {"currentStock", "suggestedQuantity"}
  BY DEF SyncedDraft

(* resolveDiscrepancy leaves well-formed cases. *)
LEMMA ResolveDiscrepancyType ==
  ASSUME IInv, NEW t \in Txns, NEW status \in CaseStatus
  PROVE  ResolveDiscrepancy(t, status) \in [Txns -> CaseRows]
  BY DEF IInv, TypeOK, ResolveDiscrepancy, CaseRows

(* What a row in use holds, location by location. *)
LEMMA RowPlaces ==
  ASSUME IInv, NEW t \in Txns, txn[t].status # "ABSENT"
  PROVE  /\ txn[t].quantity \in Nat \ {0}
         /\ txn[t].action = "RECEIVE" =>
              txn[t].source = None /\ txn[t].destination \in Locations
         /\ txn[t].action = "TRANSFER" => /\ txn[t].source \in Locations
                                          /\ txn[t].destination \in Locations
                                          /\ txn[t].source # txn[t].destination
         /\ txn[t].action \in {"SHIP", "DAMAGE", "CYCLE_COUNT"} =>
              txn[t].source \in Locations /\ txn[t].destination = None
  BY DEF IInv, RowsPlaced, Placed

(* Posting a row in use keeps the balances natural. *)
LEMMA RowMovementKeepsNat ==
  ASSUME IInv, NEW t \in Txns, txn[t].status # "ABSENT", Available(stock, txn[t])
  PROVE  /\ ApplyStockMovement(stock, txn[t]) \in [Locations -> Nat]
         /\ ApplyManagerApprovedMovement(stock, txn[t]) \in [Locations -> Nat]
  BY MovementKeepsNat DEF IInv, TypeOK, TxnRows, RowsPlaced

(* Posting a count keeps the balances natural. *)
LEMMA CountKeepsNat ==
  ASSUME IInv, NEW t \in Txns, txn[t].status # "ABSENT"
  PROVE  ApplyCycleCountBalance(stock, txn[t]) \in [Locations -> Nat]
  BY RowPlaces DEF IInv, TypeOK, ApplyCycleCountBalance

--------------------------------------------------------------------------------
(* The invariant is inductive: one lemma for the insert, then one step per  *)
(* action.                                                                  *)

(* The database starts with no transaction, hence with nothing to know. *)
LEMMA InitIInv == Init => IInv
<1> SUFFICES ASSUME Init PROVE IInv
  OBVIOUS
<1>1. /\ stock \in [Locations -> Nat] /\ tasks \in [Tasks -> TaskRows]
      /\ handler \in [Requests -> Handlers]
  BY DEF Init, Handlers, Idle, Steps
<1>2. NoTxn \in TxnRows /\ NoCase \in CaseRows
  BY DEF NoTxn, NoCase, TxnRows, CaseRows, TransactionStatus, CaseStatus,
         InventoryActions, Places
<1>3. TypeOK
  BY <1>1, <1>2, SyncedDraftShape DEF Init, TypeOK
<1>4. HandlerKnows
  BY DEF Init, HandlerKnows, Idle
<1>5. RowsPlaced /\ PostedNotPending
  BY DEF Init, RowsPlaced, PostedNotPending, NoTxn
<1> QED BY <1>3, <1>4, <1>5 DEF IInv

(* An insert takes an unused row, so no request in flight is affected. *)
LEMMA CreateIInv ==
  ASSUME IInv, NEW t \in Txns, NEW i \in Inputs,
         NEW k \in Tasks \cup {None}, NEW rk \in Tasks \cup {None},
         CreateTransaction(t, i, k, rk)
  PROVE  IInv'
<1> DEFINE x == [status |-> "PENDING", action |-> i.action,
                 quantity |-> i.quantity, source |-> i.source,
                 destination |-> i.destination, confirmed |-> FALSE,
                 posted |-> FALSE, task |-> k, recountTask |-> rk]
<1>1. x \in TxnRows
  BY InputPlaces DEF TxnRows, TransactionStatus
<1>2. txn' = [txn EXCEPT ![t] = x] /\ txn[t].status = "ABSENT"
  BY DEF CreateTransaction
<1>3. txn \in [Txns -> TxnRows]
  BY DEF IInv, TypeOK
<1>4. \A u \in Txns : txn'[u] = IF u = t THEN x ELSE txn[u]
  BY <1>2, <1>3
<1>5. TypeOK'
  BY <1>1, <1>2, <1>3 DEF IInv, TypeOK, CreateTransaction
<1>6. HandlerKnows'
  <2>1. \A r \in Requests : handler[r].step # "idle" => handler[r].tx # t
    BY <1>2 DEF IInv, HandlerKnows
  <2> HIDE DEF x
  <2>2. \A r \in Requests : handler[r].step # "idle" =>
          handler[r].tx \in Txns /\ txn'[handler[r].tx] = txn[handler[r].tx]
    BY <1>4, <2>1 DEF IInv, HandlerKnows
  <2> QED BY <2>2 DEF IInv, HandlerKnows, CreateTransaction
<1>7. RowsPlaced'
  <2>1. Placed(x)
    BY InputPlaces DEF Placed
  <2> HIDE DEF x
  <2> QED BY <1>4, <2>1 DEF IInv, RowsPlaced
<1>8. PostedNotPending'
  <2>1. ~x.posted
    OBVIOUS
  <2> HIDE DEF x
  <2> QED BY <1>4, <2>1 DEF IInv, PostedNotPending
<1> QED BY <1>5, <1>6, <1>7, <1>8 DEF IInv

(* Every step keeps the invariant. *)
LEMMA StepIInv == IInv /\ [Next]_vars => IInv'
<1> SUFFICES ASSUME IInv, [Next]_vars PROVE IInv'
  OBVIOUS
<1>t. TypeOK
  BY DEF IInv
<1>1. ASSUME NEW t \in Txns, NEW i \in Inputs, NEW k \in Tasks \cup {None},
             NEW rk \in Tasks \cup {None}, CreateTransaction(t, i, k, rk)
      PROVE  IInv'
  BY <1>1, CreateIInv
<1>2. ASSUME NEW t \in Txns, ConfirmMovement(t)
      PROVE  IInv'
  <2>1. txn[t].status # "ABSENT" /\ Available(stock, txn[t])
    BY <1>2 DEF ConfirmMovement, StillPending
  <2>2. stock' \in [Locations -> Nat]
    BY <1>2, <2>1, RowMovementKeepsNat DEF ConfirmMovement, StillPending, PostStock
  <2>3. txn' \in [Txns -> TxnRows] /\ RowsKept /\ PostedNotPending'
    BY <1>2, <2>1, MarkPostedKeeps DEF ConfirmMovement, StillPending
  <2>4. tasks' \in [Tasks -> TaskRows]
    <3>1. txn[t].task \in Tasks \cup {None}
      BY <1>t DEF TypeOK, TxnRows
    <3> QED BY <1>2, <3>1, CompleteTaskType DEF ConfirmMovement, StillPending
  <2>5. TypeOK'
    BY <1>t, <1>2, <2>2, <2>3, <2>4, SyncedDraftShape
       DEF TypeOK, ConfirmMovement, PostStock
  <2>6. HandlerKnows'
    BY <1>2, <2>3 DEF IInv, HandlerKnows, RowsKept, ConfirmMovement
  <2> QED BY <2>3, <2>5, <2>6, KeptRows DEF IInv
<1>3. ASSUME NEW t \in Txns, ApproveTransaction(t)
      PROVE  IInv'
  <2>1. txn[t].status # "ABSENT" /\ Available(stock, txn[t])
    BY <1>3 DEF ApproveTransaction, Reviewable
  <2>2. stock' \in [Locations -> Nat]
    BY <1>3, <2>1, RowMovementKeepsNat DEF ApproveTransaction, PostStock
  <2>3. txn' \in [Txns -> TxnRows] /\ RowsKept /\ PostedNotPending'
    BY <1>3, <2>1, MarkPostedKeeps DEF ApproveTransaction
  <2>4. cases' \in [Txns -> CaseRows]
    <3> DEFINE x == [cases[t] EXCEPT !.status = "APPROVED", !.resolution = t]
    <3>1. x \in CaseRows
      <4>1. cases[t] \in CaseRows
        BY <1>t DEF TypeOK
      <4> QED BY <4>1 DEF CaseRows, CaseStatus
    <3>2. cases' = [cases EXCEPT ![t] = x] \/ cases' = cases
      BY <1>3 DEF ApproveTransaction
    <3> HIDE DEF x
    <3> QED BY <1>t, <3>1, <3>2 DEF TypeOK
  <2>5. TypeOK'
    BY <1>t, <1>3, <2>2, <2>3, <2>4, SyncedDraftShape
       DEF TypeOK, ApproveTransaction, PostStock
  <2>6. HandlerKnows'
    BY <1>3, <2>3 DEF IInv, HandlerKnows, RowsKept, ApproveTransaction
  <2> QED BY <2>3, <2>5, <2>6, KeptRows DEF IInv
<1>4. ASSUME NEW r \in Requests, NEW t \in Txns,
             \/ ConfirmDamageRead(r, t) \/ CancelRead(r, t)
             \/ RejectRead(r, t) \/ RequestRecountRead(r, t)
      PROVE  IInv'
  <2>1. txn[t].status # "ABSENT"
    BY <1>4 DEF ConfirmDamageRead, CancelRead, RejectRead, RequestRecountRead, Reviewable
  <2>2. PICK step \in {"submitDamage", "cancel", "reject", "askRecount",
                       "makeRecountTask"} : Begin(r, step, t, 0, None)
    BY <1>4 DEF ConfirmDamageRead, CancelRead, RejectRead, RequestRecountRead
  <2>3. UNCHANGED <<stock, txn, cases, tasks, draft>>
    BY <1>4 DEF ConfirmDamageRead, CancelRead, RejectRead, RequestRecountRead
  <2> QED BY <2>1, <2>2, <2>3, BeginIInv DEF Steps
<1>5. ASSUME NEW r \in Requests, NEW t \in Txns, ConfirmCountRead(r, t)
      PROVE  IInv'
  <2>1. /\ txn[t].status # "ABSENT" /\ txn[t].action = "CYCLE_COUNT"
        /\ Begin(r, "settleCount", t, stock[txn[t].source], None)
        /\ UNCHANGED <<stock, txn, cases, tasks, draft>>
    BY <1>5 DEF ConfirmCountRead
  <2>2. stock[txn[t].source] \in Nat
    BY <1>t, <2>1, RowPlaces DEF TypeOK
  <2> QED BY <2>1, <2>2, BeginIInv DEF Steps
<1>6. ASSUME NEW r \in Requests, NEW t \in Txns, NEW c \in Txns,
             ConfirmRecountRead(r, t, c)
      PROVE  IInv'
  <2>1. /\ txn[t].status # "ABSENT" /\ txn[t].action = "CYCLE_COUNT"
        /\ txn[t].recountTask # None
        /\ Begin(r, "settleRecount", t, stock[txn[t].source], c)
        /\ UNCHANGED <<stock, txn, cases, tasks, draft>>
    BY <1>6 DEF ConfirmRecountRead
  <2>2. stock[txn[t].source] \in Nat /\ txn[t].recountTask \in Tasks
    BY <1>t, <2>1, RowPlaces DEF TypeOK, TxnRows
  <2> QED BY <2>1, <2>2, BeginIInv DEF Steps
<1>7. ASSUME NEW r \in Requests, ConfirmDamageSubmit(r)
      PROVE  IInv'
  <2> DEFINE t == handler[r].tx
  <2>1. t \in Txns
    BY <1>7 DEF ConfirmDamageSubmit, At, IInv, HandlerKnows
  <2>2. txn' \in [Txns -> TxnRows] /\ RowsKept /\ PostedNotPending'
    BY <1>7, <2>1, MarkConfirmedKeeps DEF ConfirmDamageSubmit
  <2>3. tasks' \in [Tasks -> TaskRows]
    <3>1. txn[t].task \in Tasks \cup {None}
      BY <1>t, <2>1 DEF TypeOK, TxnRows
    <3> QED BY <1>7, <3>1, CompleteTaskType DEF ConfirmDamageSubmit
  <2>4. HandlerKnows' /\ handler' \in [Requests -> Handlers]
    BY <1>7, <2>2, FinishKnows DEF ConfirmDamageSubmit
  <2>5. TypeOK'
    BY <1>t, <1>7, <2>2, <2>3, <2>4 DEF TypeOK, ConfirmDamageSubmit
  <2> QED BY <2>2, <2>4, <2>5, KeptRows DEF IInv
<1>8. ASSUME NEW r \in Requests, PostMatchingCycleCount(r) \/ OpenDiscrepancy(r)
      PROVE  IInv'
  <2> DEFINE t == handler[r].tx
  <2>1. t \in Txns /\ txn[t].action = "CYCLE_COUNT" /\ txn[t].status # "ABSENT"
    BY <1>8 DEF PostMatchingCycleCount, OpenDiscrepancy, At, IInv, HandlerKnows
  <2>2. txn' \in [Txns -> TxnRows] /\ RowsKept /\ PostedNotPending'
    BY <1>8, <2>1, MarkPostedKeeps, MarkConfirmedKeeps
       DEF PostMatchingCycleCount, OpenDiscrepancy
  <2>3. tasks' \in [Tasks -> TaskRows]
    <3>1. txn[t].task \in Tasks \cup {None}
      BY <1>t, <2>1 DEF TypeOK, TxnRows
    <3> QED BY <1>t, <1>8, <3>1, CompleteTaskType
            DEF PostMatchingCycleCount, OpenDiscrepancy, TypeOK
  <2>4. HandlerKnows' /\ handler' \in [Requests -> Handlers]
    BY <1>8, <2>2, FinishKnows DEF PostMatchingCycleCount, OpenDiscrepancy
  <2>5. /\ stock' \in [Locations -> Nat]
        /\ \A d \in draft' : DOMAIN d = {"currentStock", "suggestedQuantity"}
    BY <1>t, <1>8, <2>1, CountKeepsNat, SyncedDraftShape
       DEF TypeOK, PostMatchingCycleCount, OpenDiscrepancy, PostStock
  <2>6. cases' \in [Txns -> CaseRows]
    <3>1. NewCase(t, handler[r].seen) \in CaseRows
      <4>1. handler[r].seen \in Nat
        BY <1>8 DEF PostMatchingCycleCount, OpenDiscrepancy, At, IInv, HandlerKnows
      <4> QED BY <2>1, <4>1, RowPlaces DEF NewCase, CaseRows, CaseStatus, Places
    <3> QED BY <1>t, <1>8, <3>1 DEF TypeOK, PostMatchingCycleCount, OpenDiscrepancy
  <2> QED BY <2>2, <2>3, <2>4, <2>5, <2>6, KeptRows DEF IInv, TypeOK
<1>9. ASSUME NEW r \in Requests, PostMatchingRecount(r) \/ ReturnRecount(r)
      PROVE  IInv'
  <2> DEFINE t == handler[r].tx
             c == handler[r].row
  <2>1. /\ t \in Txns /\ txn[t].action = "CYCLE_COUNT" /\ txn[t].status # "ABSENT"
        /\ c \in Txns /\ txn[t].recountTask \in Tasks /\ handler[r].seen \in Nat
    BY <1>9 DEF PostMatchingRecount, ReturnRecount, At, IInv, HandlerKnows
  <2>2. txn' \in [Txns -> TxnRows] /\ RowsKept /\ PostedNotPending'
    BY <1>9, <2>1, MarkPostedKeeps, MarkConfirmedKeeps, SameRowsKeep
       DEF PostMatchingRecount, ReturnRecount
  <2>3. tasks' \in [Tasks -> TaskRows]
    BY <1>9, <2>1, CompleteTaskType DEF PostMatchingRecount, ReturnRecount
  <2>4. HandlerKnows' /\ handler' \in [Requests -> Handlers]
    BY <1>9, <2>2, FinishKnows DEF PostMatchingRecount, ReturnRecount
  <2>5. /\ stock' \in [Locations -> Nat]
        /\ \A d \in draft' : DOMAIN d = {"currentStock", "suggestedQuantity"}
    BY <1>t, <1>9, <2>1, CountKeepsNat, SyncedDraftShape
       DEF TypeOK, PostMatchingRecount, ReturnRecount, PostStock
  <2>6. cases' \in [Txns -> CaseRows]
    <3>1. ASSUME NEW status \in {"CLOSED", "AWAITING_REVIEW"},
                 NEW resolution \in Txns \cup {None}
          PROVE  RecountedCase(c, t, handler[r].seen, status, resolution)
                   \in [Txns -> CaseRows]
      <4> DEFINE x == [cases[c] EXCEPT !.counted = txn[t].quantity,
                                       !.difference = txn[t].quantity - handler[r].seen,
                                       !.status = status,
                                       !.resolution = resolution]
      <4>1. cases[c] \in CaseRows /\ txn[t].quantity \in Nat
        BY <1>t, <2>1, RowPlaces DEF TypeOK
      <4>2. txn[t].quantity - handler[r].seen \in Int
        BY <2>1, <4>1
      <4>3. x \in CaseRows
        BY <4>1, <4>2 DEF CaseRows, CaseStatus
      <4> HIDE DEF x
      <4>4. [cases EXCEPT ![c] = x] \in [Txns -> CaseRows]
        BY <1>t, <4>3 DEF TypeOK
      <4> QED BY <4>4 DEF x, RecountedCase
    <3>2. cases[c].resolution \in Txns \cup {None}
      BY <1>t, <2>1 DEF TypeOK, CaseRows
    <3> QED BY <1>t, <1>9, <2>1, <3>1, <3>2 DEF TypeOK, PostMatchingRecount, ReturnRecount
  <2> QED BY <2>2, <2>3, <2>4, <2>5, <2>6, KeptRows DEF IInv, TypeOK
<1>10. ASSUME NEW r \in Requests,
              CancelWrite(r) \/ RejectWrite(r) \/ RequestRecountWrite(r)
       PROVE  IInv'
  <2> DEFINE t == handler[r].tx
  <2>1. t \in Txns /\ txn[t].status # "ABSENT" /\ ~At(r, "idle")
    BY <1>10 DEF CancelWrite, RejectWrite, RequestRecountWrite, At, IInv, HandlerKnows
  <2>2. PICK status \in {"CANCELLED", "REJECTED", "RECOUNT_REQUESTED"} :
          txn' = [txn EXCEPT ![t].status = status]
    BY <1>10 DEF CancelWrite, RejectWrite, RequestRecountWrite
  <2>3. txn' \in [Txns -> TxnRows] /\ RowsKept /\ PostedNotPending'
    BY <2>1, <2>2, StatusWriteKeeps
  <2>4. PICK step \in {"closeCase", "rejectCase", "makeRecountTask"} :
          Continue(r, step, None)
    BY <1>10 DEF CancelWrite, RejectWrite, RequestRecountWrite
  <2>5. HandlerKnows' /\ handler' \in [Requests -> Handlers]
    BY <2>1, <2>3, <2>4, ContinueKnows
  <2>6. TypeOK'
    BY <1>t, <1>10, <2>3, <2>5 DEF TypeOK, CancelWrite, RejectWrite, RequestRecountWrite
  <2> QED BY <2>3, <2>5, <2>6, KeptRows DEF IInv
<1>11. ASSUME NEW r \in Requests, CancelCase(r) \/ RejectCase(r)
       PROVE  IInv'
  <2>1. handler[r].tx \in Txns
    BY <1>11 DEF CancelCase, RejectCase, At, IInv, HandlerKnows
  <2>2. UNCHANGED <<stock, txn, tasks, draft>> /\ Finish(r)
    BY <1>11 DEF CancelCase, RejectCase
  <2>3. cases' \in [Txns -> CaseRows]
    BY <1>11, <2>1, ResolveDiscrepancyType DEF CancelCase, RejectCase, CaseStatus
  <2>4. RowsKept /\ PostedNotPending'
    BY <2>2, SameRowsKeep
  <2>5. HandlerKnows' /\ handler' \in [Requests -> Handlers]
    BY <2>2, <2>4, FinishKnows
  <2>6. TypeOK'
    BY <1>t, <2>2, <2>3, <2>5 DEF TypeOK
  <2> QED BY <2>4, <2>5, <2>6, KeptRows DEF IInv
<1>12. ASSUME NEW r \in Requests, RequestRecountTask(r)
       PROVE  IInv'
  <2> DEFINE t == handler[r].tx
  <2>1. t \in Txns /\ ~At(r, "idle")
    BY <1>12 DEF RequestRecountTask, At, IInv, HandlerKnows
  <2>2. RowsKept /\ PostedNotPending'
    BY <1>12, SameRowsKeep DEF RequestRecountTask
  <2>3. PICK k \in Tasks :
          /\ \/ UNCHANGED tasks
             \/ tasks' = [tasks EXCEPT ![k] = NewRecountTask(t, txn[t].source)]
          /\ Continue(r, "linkRecountTask", k)
    BY <1>12 DEF RequestRecountTask
  <2>4. HandlerKnows' /\ handler' \in [Requests -> Handlers]
    BY <2>1, <2>2, <2>3, ContinueKnows
  <2>5. tasks' \in [Tasks -> TaskRows]
    <3>1. NewRecountTask(t, txn[t].source) \in TaskRows
      BY <1>t, <2>1 DEF TypeOK, TxnRows, NewRecountTask, TaskRows, TaskStatus,
                        TaskTypes, Places
    <3> QED BY <1>t, <2>3, <3>1 DEF TypeOK
  <2>6. TypeOK'
    BY <1>t, <1>12, <2>4, <2>5 DEF TypeOK, RequestRecountTask
  <2> QED BY <2>2, <2>4, <2>6, KeptRows DEF IInv
<1>13. ASSUME NEW r \in Requests, RequestRecountCase(r)
       PROVE  IInv'
  <2> DEFINE t == handler[r].tx
             x == [cases[t] EXCEPT !.status = "RECOUNT_REQUESTED",
                                   !.recountTask = handler[r].row]
  <2>1. t \in Txns /\ handler[r].row \in Tasks
    BY <1>13 DEF RequestRecountCase, At, IInv, HandlerKnows
  <2>2. RowsKept /\ PostedNotPending' /\ Finish(r)
    BY <1>13, SameRowsKeep DEF RequestRecountCase
  <2>3. HandlerKnows' /\ handler' \in [Requests -> Handlers]
    BY <2>2, FinishKnows
  <2>4. x \in CaseRows
    <3>1. cases[t] \in CaseRows
      BY <1>t, <2>1 DEF TypeOK
    <3> QED BY <2>1, <3>1 DEF CaseRows, CaseStatus
  <2>5. cases' = [cases EXCEPT ![t] = x] \/ cases' = cases
    BY <1>13 DEF RequestRecountCase
  <2> HIDE DEF x
  <2>6. TypeOK'
    BY <1>t, <1>13, <2>3, <2>4, <2>5 DEF TypeOK, RequestRecountCase
  <2> QED BY <2>2, <2>3, <2>6, KeptRows DEF IInv
<1>14. ASSUME NEW r \in Requests, Abandon(r)
       PROVE  IInv'
  <2>1. RowsKept /\ PostedNotPending' /\ Finish(r)
    BY <1>14, SameRowsKeep DEF Abandon
  <2>2. HandlerKnows' /\ handler' \in [Requests -> Handlers]
    BY <2>1, FinishKnows
  <2>3. TypeOK'
    BY <1>t, <1>14, <2>2 DEF TypeOK, Abandon
  <2> QED BY <2>1, <2>2, <2>3, KeptRows DEF IInv
<1>15. CASE RefreshReorderDrafts
  <2>1. TypeOK'
    BY <1>t, <1>15, SyncedDraftShape DEF TypeOK, RefreshReorderDrafts
  <2> QED BY <1>15, <2>1
          DEF IInv, HandlerKnows, RowsPlaced, PostedNotPending, RefreshReorderDrafts
<1>16. CASE UNCHANGED vars
  BY <1>16 DEF vars, IInv, TypeOK, HandlerKnows, RowsPlaced, PostedNotPending
<1> QED BY <1>1, <1>2, <1>3, <1>4, <1>5, <1>6, <1>7, <1>8, <1>9, <1>10, <1>11,
           <1>12, <1>13, <1>14, <1>15, <1>16 DEF Next

(* Every reachable state has its type: the balances are natural numbers,    *)
(* every row, case and task keeps its shape, however the requests           *)
(* interleave and fail.                                                     *)
THEOREM TypeCorrect == Spec => []TypeOK
<1>1. IInv => TypeOK
  BY DEF IInv
<1> QED BY InitIInv, StepIInv, <1>1, PTL DEF Spec

--------------------------------------------------------------------------------
(* What a step of the engine does to the rows *)

(* A row in use stays in use, with its input and its tasks; what was posted *)
(* or confirmed stays so.                                                   *)
PostsKept ==
  \A t \in Txns : txn[t].status # "ABSENT" =>
    /\ txn'[t].status # "ABSENT" /\ txn'[t].action = txn[t].action
    /\ txn'[t].quantity = txn[t].quantity /\ txn'[t].source = txn[t].source
    /\ txn'[t].task = txn[t].task /\ txn'[t].recountTask = txn[t].recountTask
    /\ txn[t].posted => txn'[t].posted
    /\ txn[t].confirmed => txn'[t].confirmed
    /\ txn'[t].status = "POSTED" =>
         (txn'[t].posted /\ txn'[t].confirmed) \/ txn[t].status = "POSTED"

(* A row is posted, confirmed or given another status, or nothing is        *)
(* written.                                                                 *)
RowWritten ==
  \/ UNCHANGED txn
  \/ \E t \in Txns : /\ txn[t].status # "ABSENT"
                     /\ \/ txn' = MarkPosted(t)
                        \/ txn' = MarkConfirmed(t)
                        \/ \E status \in {"CANCELLED", "REJECTED", "RECOUNT_REQUESTED"} :
                             txn' = [txn EXCEPT ![t].status = status]

(* Such a write keeps the rows, and writes none that was not in use. *)
LEMMA WrittenKeeps ==
  ASSUME TypeOK, RowWritten
  PROVE  PostsKept /\ \A t \in Txns : txn[t].status = "ABSENT" => txn'[t] = txn[t]
<1>1. CASE UNCHANGED txn
  BY <1>1 DEF PostsKept
<1>2. ASSUME NEW t \in Txns, txn[t].status # "ABSENT",
             \/ txn' = MarkPosted(t)
             \/ txn' = MarkConfirmed(t)
             \/ \E status \in {"CANCELLED", "REJECTED", "RECOUNT_REQUESTED"} :
                  txn' = [txn EXCEPT ![t].status = status]
      PROVE  PostsKept /\ \A u \in Txns : txn[u].status = "ABSENT" => txn'[u] = txn[u]
  <2>1. txn[t] \in TxnRows /\ txn \in [Txns -> TxnRows]
    BY DEF TypeOK
  <2>2. \A u \in Txns \ {t} : txn'[u] = txn[u]
    BY <1>2, <2>1 DEF MarkPosted, MarkConfirmed
  <2> DEFINE Kept(y) ==
               /\ y.status # "ABSENT" /\ y.action = txn[t].action
               /\ y.quantity = txn[t].quantity /\ y.source = txn[t].source
               /\ y.task = txn[t].task /\ y.recountTask = txn[t].recountTask
               /\ txn[t].posted => y.posted
               /\ txn[t].confirmed => y.confirmed
               /\ y.status = "POSTED" =>
                    (y.posted /\ y.confirmed) \/ txn[t].status = "POSTED"
  <2>3. ASSUME txn' = MarkPosted(t) PROVE Kept(txn'[t])
    <3>1. txn'[t] = [txn[t] EXCEPT !.status = "POSTED", !.posted = TRUE,
                                   !.confirmed = TRUE]
      BY <2>1, <2>3 DEF MarkPosted
    <3> QED BY <1>2, <2>1, <3>1 DEF TxnRows
  <2>4. ASSUME txn' = MarkConfirmed(t) PROVE Kept(txn'[t])
    <3>1. txn'[t] = [txn[t] EXCEPT !.confirmed = TRUE]
      BY <2>1, <2>4 DEF MarkConfirmed
    <3> QED BY <1>2, <2>1, <3>1 DEF TxnRows
  <2>5. ASSUME NEW status \in {"CANCELLED", "REJECTED", "RECOUNT_REQUESTED"},
               txn' = [txn EXCEPT ![t].status = status]
        PROVE  Kept(txn'[t])
    <3>1. txn'[t] = [txn[t] EXCEPT !.status = status]
      BY <2>1, <2>5
    <3> QED BY <1>2, <2>1, <3>1 DEF TxnRows
  <2>6. Kept(txn'[t])
    BY <1>2, <2>3, <2>4, <2>5
  <2> QED BY <1>2, <2>2, <2>6 DEF PostsKept
<1> QED BY <1>1, <1>2 DEF RowWritten

(* No engine step but an insert does more to the rows.                      *)
LEMMA EngineRows ==
  ASSUME IInv, [Next]_vars,
         ~\E t \in Txns, i \in Inputs, k, rk \in Tasks \cup {None} :
            CreateTransaction(t, i, k, rk)
  PROVE  RowWritten
<1>1. ASSUME NEW t \in Txns, ConfirmMovement(t) \/ ApproveTransaction(t)
      PROVE  RowWritten
  BY <1>1 DEF ConfirmMovement, ApproveTransaction, StillPending, Reviewable, RowWritten
<1>2. ASSUME NEW r \in Requests,
             \/ ConfirmDamageSubmit(r) \/ PostMatchingCycleCount(r)
             \/ OpenDiscrepancy(r) \/ PostMatchingRecount(r) \/ ReturnRecount(r)
             \/ CancelWrite(r) \/ RejectWrite(r) \/ RequestRecountWrite(r)
      PROVE  RowWritten
  <2>1. handler[r].tx \in Txns /\ txn[handler[r].tx].status # "ABSENT"
    BY <1>2 DEF IInv, HandlerKnows, At, ConfirmDamageSubmit, PostMatchingCycleCount,
                OpenDiscrepancy, PostMatchingRecount, ReturnRecount, CancelWrite,
                RejectWrite, RequestRecountWrite
  <2> QED BY <1>2, <2>1
          DEF RowWritten, ConfirmDamageSubmit, PostMatchingCycleCount, OpenDiscrepancy,
              PostMatchingRecount, ReturnRecount, CancelWrite, RejectWrite,
              RequestRecountWrite
<1>3. CASE UNCHANGED txn
  BY <1>3 DEF RowWritten
<1> QED BY <1>1, <1>2, <1>3
        DEF Next, vars, ConfirmDamageRead, ConfirmCountRead, ConfirmRecountRead,
            CancelRead, RejectRead, RequestRecountRead, CancelCase, RejectCase,
            RequestRecountTask, RequestRecountCase, Abandon, RefreshReorderDrafts

(* It keeps what the rows in use were entered with. *)
LEMMA WrittenRowsKept ==
  ASSUME IInv, RowWritten
  PROVE  RowsKept
  BY MarkPostedKeeps, MarkConfirmedKeeps, StatusWriteKeeps, SameRowsKeep DEF RowWritten

--------------------------------------------------------------------------------
(* The engine implements the ledger *)

(* Rows in use carry a quantity a worker may enter. *)
RowQuantities ==
  \A t \in Txns : txn[t].status # "ABSENT" => txn[t].quantity \in Quantities

(* No step of the engine enters another quantity. *)
LEMMA StepQuantities ==
  ASSUME IInv, RowQuantities, [Next]_vars
  PROVE  RowQuantities'
<1>1. ASSUME NEW t \in Txns, NEW i \in Inputs, NEW k \in Tasks \cup {None},
             NEW rk \in Tasks \cup {None}, CreateTransaction(t, i, k, rk)
      PROVE  RowQuantities'
  <2>1. txn'[t].quantity = i.quantity /\ \A u \in Txns \ {t} : txn'[u] = txn[u]
    BY <1>1 DEF CreateTransaction, IInv, TypeOK
  <2> QED BY <2>1, InputPlaces DEF RowQuantities
<1>2. CASE RowsKept
  BY <1>2 DEF RowQuantities, RowsKept
<1> QED BY <1>1, <1>2, EngineRows, WrittenRowsKept

(* The row of t as the ledger sees it. *)
Movement(t) == [action |-> txn[t].action, quantity |-> txn[t].quantity,
                source |-> txn[t].source, destination |-> txn[t].destination]

Moved(t) == txn[t].posted /\ txn[t].action # "CYCLE_COUNT"

(* When no movement is posted, the ledger's rows stay as they are. *)
LEMMA SameMovedRows ==
  ASSUME \A t \in Txns : Moved(t)' <=> Moved(t),
         \A t \in Txns : Moved(t) => Movement(t)' = Movement(t)
  PROVE  MovedRows' = MovedRows
<1>1. {t \in Txns : Moved(t)'} = {t \in Txns : Moved(t)}
  OBVIOUS
<1>2. MovedRows = [t \in {u \in Txns : Moved(u)} |-> Movement(t)]
  BY DEF MovedRows, Moved, Movement
<1>3. MovedRows' = [t \in {u \in Txns : Moved(u)'} |-> Movement(t)']
  BY DEF MovedRows, Moved, Movement
<1> HIDE DEF Moved, Movement
<1> QED BY <1>1, <1>2, <1>3

(* A row's input stays, so the ledger sees the same movement afterwards. *)
LEMMA SameMovement ==
  ASSUME RowsKept, NEW t \in Txns
  PROVE  Movement(t)' = Movement(t) /\ (txn'[t].action = txn[t].action)
  BY DEF RowsKept, Movement

(* Which rows have reached the balances after a row is posted, confirmed or *)
(* given another status.                                                    *)
LEMMA PostedRows ==
  ASSUME IInv, NEW t \in Txns
  PROVE  /\ txn' = MarkPosted(t) =>
              \A u \in Txns : txn'[u].posted <=> (u = t \/ txn[u].posted)
         /\ txn' = MarkConfirmed(t) =>
              \A u \in Txns : txn'[u].posted <=> txn[u].posted
         /\ \A status : txn' = [txn EXCEPT ![t].status = status] =>
              \A u \in Txns : txn'[u].posted <=> txn[u].posted
<1>1. txn \in [Txns -> TxnRows]
  BY DEF IInv, TypeOK
<1>2. \A x \in TxnRows : [x EXCEPT !.confirmed = TRUE].posted = x.posted
  BY DEF TxnRows
<1>3. \A x \in TxnRows : \A status : [x EXCEPT !.status = status].posted = x.posted
  BY DEF TxnRows
<1>4. \A x \in TxnRows :
        [x EXCEPT !.status = "POSTED", !.posted = TRUE, !.confirmed = TRUE].posted = TRUE
  BY DEF TxnRows
<1>5. ASSUME txn' = MarkPosted(t), NEW u \in Txns
      PROVE  txn'[u].posted <=> (u = t \/ txn[u].posted)
  <2>1. CASE u = t
    BY <1>1, <1>4, <1>5, <2>1 DEF MarkPosted
  <2>2. CASE u # t
    BY <1>1, <1>5, <2>2 DEF MarkPosted
  <2> QED BY <2>1, <2>2
<1>6. ASSUME txn' = MarkConfirmed(t), NEW u \in Txns
      PROVE  txn'[u].posted <=> txn[u].posted
  <2>1. CASE u = t
    BY <1>1, <1>2, <1>6, <2>1 DEF MarkConfirmed
  <2>2. CASE u # t
    BY <1>1, <1>6, <2>2 DEF MarkConfirmed
  <2> QED BY <2>1, <2>2
<1>7. ASSUME NEW status, txn' = [txn EXCEPT ![t].status = status], NEW u \in Txns
      PROVE  txn'[u].posted <=> txn[u].posted
  <2>1. CASE u = t
    BY <1>1, <1>3, <1>7, <2>1
  <2>2. CASE u # t
    BY <1>1, <1>7, <2>2
  <2> QED BY <2>1, <2>2
<1> QED BY <1>5, <1>6, <1>7

(* Posting a movement that was not posted before is a Move of the ledger:   *)
(* what Available found is what the movement takes, and every balance       *)
(* changes by exactly what flows in and out.                                *)
LEMMA PostingMoves ==
  ASSUME IInv, RowsKept, NEW t \in Txns,
         txn[t].status # "ABSENT", txn[t].action # "CYCLE_COUNT", ~txn[t].posted,
         txn[t].quantity \in Quantities,
         \A u \in Txns : txn'[u].posted <=> (u = t \/ txn[u].posted),
         Available(stock, txn[t]),
         stock' = ApplyManagerApprovedMovement(stock, txn[t])
  PROVE  Ledger!Move(t)
<1> DEFINE m == Movement(t)
<1>1. /\ stock \in [Locations -> Nat]
      /\ txn[t].action \in {"RECEIVE", "SHIP", "TRANSFER", "DAMAGE"}
  BY DEF IInv, TypeOK, TxnRows, InventoryActions
<1>2. m \in Ledger!Movements
  BY <1>1, RowPlaces DEF Movement, Ledger!Movements
<1>3. \A l \in Locations : Ledger!Outflow(m, l) <= stock[l]
  BY <1>1, RowPlaces DEF Movement, Ledger!Outflow, Available
<1>4. stock' = [l \in Locations |->
                  stock[l] + Ledger!Inflow(m, l) - Ledger!Outflow(m, l)]
  <2> DEFINE q == txn[t].quantity
             from == txn[t].source
             to == txn[t].destination
  <2>0. q \in Nat /\ Movement(t).action = txn[t].action /\ Movement(t).quantity = q
        /\ Movement(t).source = from /\ Movement(t).destination = to
    BY RowPlaces DEF Movement
  <2>1. CASE txn[t].action = "RECEIVE"
    <3>1. stock' = [stock EXCEPT ![to] = @ + q] /\ to \in Locations
      BY <2>1, RowPlaces
         DEF ApplyManagerApprovedMovement, ApplyStockMovement, Increase
    <3>2. \A l \in Locations : /\ Ledger!Inflow(m, l) = (IF l = to THEN q ELSE 0)
                               /\ Ledger!Outflow(m, l) = 0
      BY <2>0, <2>1 DEF Ledger!Inflow, Ledger!Outflow
    <3> HIDE DEF m, q, to
    <3>3. stock' = [l \in Locations |-> IF l = to THEN stock[l] + q ELSE stock[l]]
      BY <1>1, <2>0, <3>1
    <3>4. \A l \in Locations :
            stock[l] + Ledger!Inflow(m, l) - Ledger!Outflow(m, l) = IF l = to THEN stock[l] + q ELSE stock[l]
      BY <1>1, <2>0, <3>1, <3>2
    <3> QED BY <3>3, <3>4
  <2>2. CASE txn[t].action \in {"SHIP", "DAMAGE"}
    <3>1. stock' = [stock EXCEPT ![from] = @ - q] /\ from \in Locations
      BY <2>2, RowPlaces
         DEF ApplyManagerApprovedMovement, ApplyStockMovement, Decrease
    <3>2. \A l \in Locations : /\ Ledger!Inflow(m, l) = 0
                               /\ Ledger!Outflow(m, l) = (IF l = from THEN q ELSE 0)
      BY <2>0, <2>2 DEF Ledger!Inflow, Ledger!Outflow
    <3> HIDE DEF m, q, from
    <3>3. stock' = [l \in Locations |-> IF l = from THEN stock[l] - q ELSE stock[l]]
      BY <1>1, <2>0, <3>1
    <3>4. \A l \in Locations :
            stock[l] + Ledger!Inflow(m, l) - Ledger!Outflow(m, l) = IF l = from THEN stock[l] - q ELSE stock[l]
      BY <1>1, <2>0, <3>1, <3>2
    <3> QED BY <3>3, <3>4
  <2>3. CASE txn[t].action = "TRANSFER"
    <3>1. /\ stock' = [[stock EXCEPT ![from] = @ - q] EXCEPT ![to] = @ + q]
          /\ from \in Locations /\ to \in Locations /\ from # to
      BY <2>3, RowPlaces
         DEF ApplyManagerApprovedMovement, ApplyStockMovement, Increase, Decrease
    <3>2. \A l \in Locations : /\ Ledger!Inflow(m, l) = (IF l = to THEN q ELSE 0)
                               /\ Ledger!Outflow(m, l) = (IF l = from THEN q ELSE 0)
      BY <2>0, <2>3 DEF Ledger!Inflow, Ledger!Outflow
    <3> HIDE DEF m, q, from, to
    <3>3. stock' = [l \in Locations |-> IF l = from THEN stock[l] - q
                                    ELSE IF l = to THEN stock[l] + q ELSE stock[l]]
      BY <1>1, <2>0, <3>1
    <3>4. \A l \in Locations :
            stock[l] + Ledger!Inflow(m, l) - Ledger!Outflow(m, l) = IF l = from THEN stock[l] - q
                                    ELSE IF l = to THEN stock[l] + q ELSE stock[l]
      BY <1>1, <2>0, <3>1, <3>2
    <3> QED BY <3>3, <3>4
  <2> QED BY <1>1, <2>1, <2>2, <2>3
<1>5. \A u \in Txns : Moved(u)' <=> (u = t \/ Moved(u))
  BY SameMovement DEF Moved
<1>6. \A u \in Txns : Movement(u)' = Movement(u)
  BY SameMovement
<1>7. MovedRows = [u \in {v \in Txns : Moved(v)} |-> Movement(u)]
  BY DEF MovedRows, Moved, Movement
<1>8. MovedRows' = [u \in {v \in Txns : Moved(v)'} |-> Movement(u)']
  BY DEF MovedRows, Moved, Movement
<1>9. t \notin DOMAIN MovedRows
  BY <1>7 DEF Moved
<1>10. MovedRows' = [u \in DOMAIN MovedRows \cup {t} |->
                       IF u = t THEN m ELSE MovedRows[u]]
  <2> HIDE DEF Moved
  <2>1. DOMAIN MovedRows = {v \in Txns : Moved(v)}
    BY <1>7
  <2>2. {v \in Txns : Moved(v)'} = DOMAIN MovedRows \cup {t}
    BY <1>5, <2>1
  <2>3. \A u \in DOMAIN MovedRows : u \in Txns /\ MovedRows[u] = Movement(u)
    BY <1>7
  <2> HIDE DEF Movement
  <2>4. \A u \in DOMAIN MovedRows \cup {t} :
          Movement(u)' = IF u = t THEN m ELSE MovedRows[u]
    BY <1>6, <2>3
  <2> QED BY <1>8, <2>2, <2>4
<1> HIDE DEF m
<1> QED BY <1>2, <1>3, <1>4, <1>9, <1>10 DEF Ledger!Move

(* Posting a count is a Count of the ledger; its movements stay.            *)
LEMMA PostingCounts ==
  ASSUME IInv, RowsKept, NEW t \in Txns,
         txn[t].status # "ABSENT", txn[t].action = "CYCLE_COUNT",
         txn[t].quantity \in Quantities,
         \A u \in Txns : txn'[u].posted <=> (u = t \/ txn[u].posted),
         stock' = ApplyCycleCountBalance(stock, txn[t])
  PROVE  Ledger!Count(txn[t].source, txn[t].quantity) /\ Ledger!Next
<1>1. \A u \in Txns : (Moved(u)' <=> Moved(u)) /\ Movement(u)' = Movement(u)
  BY SameMovement DEF Moved
<1>2. MovedRows' = MovedRows
  BY <1>1, SameMovedRows
<1>3. txn[t].source \in Locations /\ txn[t].quantity \in Quantities
  BY RowPlaces
<1>4. Ledger!Count(txn[t].source, txn[t].quantity)
  BY <1>2 DEF Ledger!Count, ApplyCycleCountBalance
<1> QED BY <1>3, <1>4 DEF Ledger!Next

(* A step that posts nothing and leaves the balances alone is no step of    *)
(* the ledger.                                                              *)
LEMMA RestStutters ==
  ASSUME RowsKept, \A u \in Txns : txn'[u].posted <=> txn[u].posted,
         UNCHANGED stock
  PROVE  UNCHANGED Ledger!ledgerVars
<1>1. \A u \in Txns : (Moved(u)' <=> Moved(u)) /\ Movement(u)' = Movement(u)
  BY SameMovement DEF Moved
<1> QED BY <1>1, SameMovedRows DEF Ledger!ledgerVars

(* The balances start as the ledger's, with no movement made. *)
LEMMA InitLedger == Init => Ledger!Init
<1> SUFFICES ASSUME Init PROVE Ledger!Init
  OBVIOUS
<1>1. \A t \in Txns : ~txn[t].posted
  BY DEF Init, NoTxn
<1>2. {t \in Txns : txn[t].posted /\ txn[t].action # "CYCLE_COUNT"} = {}
  BY <1>1
<1> QED BY <1>2 DEF Init, MovedRows, Ledger!Init

(* Every step of the engine is a step of the ledger, or none. *)
LEMMA StepLedger ==
  IInv /\ RowQuantities /\ [Next]_vars => [Ledger!Next]_(Ledger!ledgerVars)
<1> SUFFICES ASSUME IInv, RowQuantities, [Next]_vars
             PROVE  Ledger!Next \/ UNCHANGED Ledger!ledgerVars
  OBVIOUS
<1>t. TypeOK /\ PostedNotPending
  BY DEF IInv
<1>1. ASSUME NEW t \in Txns, NEW i \in Inputs, NEW k \in Tasks \cup {None},
             NEW rk \in Tasks \cup {None}, CreateTransaction(t, i, k, rk)
      PROVE  UNCHANGED Ledger!ledgerVars
  <2>1. \A u \in Txns \ {t} : txn'[u] = txn[u]
    BY <1>t, <1>1 DEF CreateTransaction, TypeOK
  <2>2. ~txn[t].posted
    BY <1>t, <1>1 DEF CreateTransaction, PostedNotPending
  <2>3. txn'[t].posted = FALSE
    BY <1>t, <1>1 DEF CreateTransaction, TypeOK
  <2>4. \A u \in Txns : Moved(u)' <=> Moved(u)
    BY <2>1, <2>2, <2>3 DEF Moved
  <2>5. \A u \in Txns : Moved(u) => Movement(u)' = Movement(u)
    BY <2>1, <2>2 DEF Moved, Movement
  <2> QED BY <1>1, <2>4, <2>5, SameMovedRows DEF CreateTransaction, Ledger!ledgerVars
<1>2. ASSUME NEW t \in Txns, ConfirmMovement(t)
      PROVE  Ledger!Next
  <2>1. /\ txn[t].status = "PENDING" /\ txn[t].action \notin ReviewActions
        /\ Available(stock, txn[t]) /\ txn' = MarkPosted(t)
        /\ stock' = ApplyManagerApprovedMovement(stock, txn[t])
    BY <1>2 DEF ConfirmMovement, StillPending, PostStock, ReviewActions, ApplyManagerApprovedMovement
  <2>2. RowsKept /\ ~txn[t].posted
    BY <1>t, <2>1, MarkPostedKeeps DEF PostedNotPending
  <2>3. \A u \in Txns : txn'[u].posted <=> (u = t \/ txn[u].posted)
    BY <2>1, PostedRows
  <2>4. Ledger!Move(t)
    BY <2>1, <2>2, <2>3, PostingMoves DEF ReviewActions, RowQuantities
  <2> QED BY <2>4 DEF Ledger!Next
<1>3. ASSUME NEW t \in Txns, ApproveTransaction(t)
      PROVE  Ledger!Next
  <2>1. /\ txn[t].status = "PENDING" /\ txn[t].action \in ReviewActions
        /\ Available(stock, txn[t]) /\ txn' = MarkPosted(t)
        /\ stock' = ApplyManagerApprovedMovement(stock, txn[t])
    BY <1>3 DEF ApproveTransaction, Reviewable, PostStock
  <2>2. RowsKept /\ ~txn[t].posted
    BY <1>t, <2>1, MarkPostedKeeps DEF PostedNotPending
  <2>3. \A u \in Txns : txn'[u].posted <=> (u = t \/ txn[u].posted)
    BY <2>1, PostedRows
  <2>4. CASE txn[t].action = "DAMAGE"
    <3>1. Ledger!Move(t)
      BY <2>1, <2>2, <2>3, <2>4, PostingMoves DEF RowQuantities
    <3> QED BY <3>1 DEF Ledger!Next
  <2>5. CASE txn[t].action = "CYCLE_COUNT"
    <3>1. stock' = ApplyCycleCountBalance(stock, txn[t])
      BY <2>1, <2>5 DEF ApplyManagerApprovedMovement
    <3> QED BY <2>1, <2>2, <2>3, <2>5, <3>1, PostingCounts DEF RowQuantities
  <2> QED BY <2>1, <2>4, <2>5 DEF ReviewActions
<1>4. ASSUME NEW r \in Requests, PostMatchingCycleCount(r) \/ PostMatchingRecount(r)
      PROVE  Ledger!Next \/ UNCHANGED Ledger!ledgerVars
  <2> DEFINE t == handler[r].tx
  <2>1. t \in Txns /\ txn[t].action = "CYCLE_COUNT" /\ txn[t].status # "ABSENT"
    BY <1>4 DEF PostMatchingCycleCount, PostMatchingRecount, At, IInv, HandlerKnows
  <2>2. CASE UNCHANGED <<stock, txn>>
    BY <2>2, SameRowsKeep, RestStutters
  <2>3. CASE stock' = ApplyCycleCountBalance(stock, txn[t]) /\ txn' = MarkPosted(t)
    <3>1. RowsKept
      BY <2>1, <2>3, MarkPostedKeeps
    <3>2. \A u \in Txns : txn'[u].posted <=> (u = t \/ txn[u].posted)
      BY <2>1, <2>3, PostedRows
    <3> QED BY <2>1, <2>3, <3>1, <3>2, PostingCounts DEF RowQuantities
  <2> QED BY <1>4, <2>2, <2>3 DEF PostMatchingCycleCount, PostMatchingRecount, PostStock
<1>5. ASSUME NEW r \in Requests,
             ConfirmDamageSubmit(r) \/ OpenDiscrepancy(r) \/ ReturnRecount(r)
      PROVE  UNCHANGED Ledger!ledgerVars
  <2> DEFINE t == handler[r].tx
  <2>1. t \in Txns /\ txn' = MarkConfirmed(t) /\ UNCHANGED stock
    BY <1>5 DEF ConfirmDamageSubmit, OpenDiscrepancy, ReturnRecount, At, IInv, HandlerKnows
  <2>2. \A u \in Txns : txn'[u].posted <=> txn[u].posted
    BY <2>1, PostedRows
  <2> QED BY <2>1, <2>2, MarkConfirmedKeeps, RestStutters
<1>6. ASSUME NEW r \in Requests,
             CancelWrite(r) \/ RejectWrite(r) \/ RequestRecountWrite(r)
      PROVE  UNCHANGED Ledger!ledgerVars
  <2> DEFINE t == handler[r].tx
  <2>1. t \in Txns /\ txn[t].status # "ABSENT" /\ UNCHANGED stock
    BY <1>6 DEF CancelWrite, RejectWrite, RequestRecountWrite, At, IInv, HandlerKnows
  <2>2. PICK status \in {"CANCELLED", "REJECTED", "RECOUNT_REQUESTED"} :
          txn' = [txn EXCEPT ![t].status = status]
    BY <1>6 DEF CancelWrite, RejectWrite, RequestRecountWrite
  <2>3. \A u \in Txns : txn'[u].posted <=> txn[u].posted
    BY <2>1, <2>2, PostedRows
  <2> QED BY <2>1, <2>2, <2>3, StatusWriteKeeps, RestStutters
<1>7. ASSUME UNCHANGED <<stock, txn>>
      PROVE  UNCHANGED Ledger!ledgerVars
  BY <1>7, SameRowsKeep, RestStutters
<1>8. ASSUME NEW r \in Requests, NEW t \in Txns,
             \/ ConfirmDamageRead(r, t) \/ ConfirmCountRead(r, t)
             \/ \E c \in Txns : ConfirmRecountRead(r, t, c)
             \/ CancelRead(r, t) \/ RejectRead(r, t) \/ RequestRecountRead(r, t)
      PROVE  UNCHANGED Ledger!ledgerVars
  BY <1>7, <1>8 DEF ConfirmDamageRead, ConfirmCountRead, ConfirmRecountRead,
                    CancelRead, RejectRead, RequestRecountRead
<1>9. ASSUME NEW r \in Requests,
             \/ CancelCase(r) \/ RejectCase(r) \/ RequestRecountTask(r)
             \/ RequestRecountCase(r) \/ Abandon(r)
      PROVE  UNCHANGED Ledger!ledgerVars
  BY <1>7, <1>9 DEF CancelCase, RejectCase, RequestRecountTask, RequestRecountCase,
                    Abandon
<1>10. CASE RefreshReorderDrafts \/ UNCHANGED vars
  BY <1>7, <1>10 DEF RefreshReorderDrafts, vars
<1> QED BY <1>1, <1>2, <1>3, <1>4, <1>5, <1>6, <1>8, <1>9, <1>10 DEF Next

(* The engine implements the ledger for any number of rows, locations and   *)
(* requests: a movement reaches the balances at most once, as a whole and   *)
(* within what is there; nothing else moves them but a posted count.        *)
THEOREM EngineImplementsLedger == Spec => LedgerSpec
<1>1. Init => RowQuantities
  BY DEF Init, RowQuantities, NoTxn
<1>2. IInv /\ RowQuantities /\ [Next]_vars => RowQuantities'
  BY StepQuantities
<1> QED BY InitIInv, StepIInv, InitLedger, StepLedger, <1>1, <1>2, PTL
        DEF Spec, LedgerSpec, Ledger!Spec

--------------------------------------------------------------------------------
(* The reorder draft *)

DraftIsSynced == draft = SyncedDraft(stock)

(* Every handler that moves the balances leaves the draft in step with them. *)
LEMMA StepDraft == DraftIsSynced /\ [Next]_vars => DraftIsSynced'
<1> SUFFICES ASSUME DraftIsSynced, [Next]_vars PROVE DraftIsSynced'
  OBVIOUS
<1>1. (\E b : PostStock(b)) \/ UNCHANGED <<stock, draft>> \/ RefreshReorderDrafts
  BY DEF Next, vars, CreateTransaction, ConfirmMovement, ConfirmDamageRead,
         ConfirmDamageSubmit, ConfirmCountRead, PostMatchingCycleCount,
         OpenDiscrepancy, ConfirmRecountRead, PostMatchingRecount, ReturnRecount,
         ApproveTransaction, CancelRead, CancelWrite, CancelCase, RejectRead,
         RejectWrite, RejectCase, RequestRecountRead, RequestRecountWrite,
         RequestRecountTask, RequestRecountCase, Abandon
<1> QED BY <1>1 DEF DraftIsSynced, PostStock, RefreshReorderDrafts

(* Whatever the requests do, there is a reorder draft exactly when the      *)
(* stock is below the safety stock, it shows that stock and it orders       *)
(* enough.  That a sum of natural numbers is one is the hypothesis: what a  *)
(* fold computes for every function is out of the provers' reach.           *)
THEOREM DraftFollowsStock ==
  ASSUME \A b \in [Locations -> Nat] : OnHand(b) \in Nat
  PROVE  Spec => []DraftMatchesStock
<1>1. Init => DraftIsSynced
  BY DEF Init, DraftIsSynced
<1>2. TypeOK /\ DraftIsSynced => DraftMatchesStock
  <2> SUFFICES ASSUME TypeOK, DraftIsSynced PROVE DraftMatchesStock
    OBVIOUS
  <2> DEFINE onHand == OnHand(stock)
             low == [currentStock |-> onHand,
                     suggestedQuantity |-> SuggestedQuantity(onHand)]
  <2>1. onHand \in Nat
    BY DEF TypeOK
  <2>2. draft = IF LowStock(onHand) THEN {low} ELSE {}
    BY DEF DraftIsSynced, SyncedDraft
  <2> HIDE DEF onHand
  <2>3. /\ onHand + SuggestedQuantity(onHand) >= SafetyStock
        /\ SuggestedQuantity(onHand) >= ReorderQuantity
    BY <2>1 DEF SuggestedQuantity
  <2> QED BY <2>2, <2>3 DEF DraftMatchesStock, LowStock, onHand
<1> QED BY TypeCorrect, StepDraft, <1>1, <1>2, PTL DEF Spec

================================================================================
