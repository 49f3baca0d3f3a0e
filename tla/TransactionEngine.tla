--------------------------- MODULE TransactionEngine ---------------------------
(***************************************************************************)
(* The transaction engine of the inventory API (inventory.service.ts), for *)
(* one product: workers create and confirm transactions, managers approve, *)
(* reject, cancel or send them for a recount, and every posting moves the  *)
(* balances and the reorder draft.                                         *)
(*                                                                         *)
(* A handler is split where it awaits the database.  A Serializable        *)
(* database transaction is one atomic step.  A handler whose transaction   *)
(* checks again everything read before it is one step altogether; a        *)
(* handler that acts on what it read earlier is a read step, which leaves  *)
(* a record in `handler', and the write steps that follow.                 *)
(***************************************************************************)
EXTENDS Integers, FiniteSets, Functions

CONSTANTS Txns,             \* identities of InventoryTransaction rows
          Locations,        \* active warehouse locations
          Tasks,            \* identities of InventoryTask rows
          Requests,         \* HTTP requests that can be in flight together
          None,             \* null
          Actions,          \* the inventory actions workers enter
          Quantities,       \* the quantities workers enter
          InitialStock,     \* balances at the start
          InitialTasks,     \* task rows at the start
          SafetyStock,      \* Product.safetyStock
          ReorderQuantity   \* Product.reorderQuantity

VARIABLES stock,    \* InventoryBalance.quantity by location (no row reads as 0)
          txn,      \* InventoryTransaction rows
          cases,    \* Discrepancy rows, by their unique transactionId
          tasks,    \* InventoryTask rows
          draft,    \* the ReorderDraft rows holding the product's active key
          handler   \* what each request in flight has read so far

vars == <<stock, txn, cases, tasks, draft, handler>>

--------------------------------------------------------------------------------
(* Rows *)

InventoryActions == {"RECEIVE", "SHIP", "TRANSFER", "CYCLE_COUNT", "DAMAGE"}
ReviewActions    == {"CYCLE_COUNT", "DAMAGE"}

TransactionStatus == {"ABSENT", "PENDING", "POSTED", "RECOUNT_REQUESTED",
                      "REJECTED", "CANCELLED"}
TaskStatus == {"ABSENT", "OPEN", "IN_PROGRESS", "COMPLETED", "CANCELLED"}
TaskTypes  == {"CYCLE_COUNT", "STOCK_VERIFY", "RECEIVE", "PICK", "SHIP",
               "TRANSFER", "DAMAGE_INSPECTION", "RECOUNT"}
CaseStatus == {"ABSENT", "OPEN", "AWAITING_REVIEW", "RECOUNT_REQUESTED",
               "APPROVED", "REJECTED", "CLOSED", "RESOLVED_AS_TRANSFER"}

Places == Locations \cup {None}

TaskRows == [status : TaskStatus, type : TaskTypes,
             from : Places, to : Places,          \* expected source, destination
             of : Txns \cup {None}]               \* sourceTransactionId

TxnRows == [status : TransactionStatus,
            action : InventoryActions, quantity : Nat,
            source : Places, destination : Places,
            confirmed : BOOLEAN,                  \* confirmedAt is set
            posted : BOOLEAN,                     \* postedAt is set
            task : Tasks \cup {None},             \* taskId
            recountTask : Tasks \cup {None}]      \* recountTaskId

CaseRows == [status : CaseStatus, location : Places,
             expected : Nat, counted : Nat,
             difference : Int,                    \* differenceQuantity
             recountTask : Tasks \cup {None},
             resolution : Txns \cup {None}]       \* resolutionTransactionId

NoTxn == [status |-> "ABSENT", action |-> "RECEIVE", quantity |-> 0,
          source |-> None, destination |-> None, confirmed |-> FALSE,
          posted |-> FALSE, task |-> None, recountTask |-> None]

NoCase == [status |-> "ABSENT", location |-> None, expected |-> 0, counted |-> 0,
           difference |-> 0, recountTask |-> None, resolution |-> None]

ASSUME EngineAssumption ==
  /\ Actions \subseteq InventoryActions
  /\ Quantities \subseteq Nat \ {0}
  /\ InitialStock \in [Locations -> Nat]
  /\ InitialTasks \in [Tasks -> TaskRows]
  /\ SafetyStock \in Nat /\ ReorderQuantity \in Nat
  /\ None \notin Txns \cup Locations \cup Tasks

(* There is no transaction yet: none that a task repeats or was completed by. *)
ASSUME FreshAssumption ==
  \A k \in Tasks : InitialTasks[k].of = None /\ InitialTasks[k].status # "COMPLETED"

--------------------------------------------------------------------------------
(* Requests in flight: the step a handler is at, the transaction it works  *)
(* on, a quantity it has read and another row it has looked up.            *)

Steps == {"idle", "submitDamage", "settleCount", "settleRecount", "cancel",
          "closeCase", "reject", "rejectCase", "askRecount", "makeRecountTask",
          "linkRecountTask", "approveCase", "rejectOpenCase", "moveStock"}

Handlers == [step : Steps, tx : Txns \cup {None}, seen : Int,
             row : Txns \cup Tasks \cup Locations \cup {None}]

Idle == [step |-> "idle", tx |-> None, seen |-> 0, row |-> None]

At(r, step) == handler[r].step = step

Begin(r, step, t, n, row) ==
  /\ At(r, "idle")
  /\ handler' = [handler EXCEPT
                   ![r] = [step |-> step, tx |-> t, seen |-> n, row |-> row]]

Continue(r, step, row) ==
  handler' = [handler EXCEPT ![r] = [@ EXCEPT !.step = step, !.row = row]]

Finish(r) == handler' = [handler EXCEPT ![r] = Idle]

(* A request dies between two awaits: its transaction aborts (P2034), a     *)
(* check answers 4xx, or the server stops.  What it wrote before stays.     *)
Abandon(r) ==
  /\ ~At(r, "idle")
  /\ Finish(r)
  /\ UNCHANGED <<stock, txn, cases, tasks, draft>>

--------------------------------------------------------------------------------
(* Stock, reorder drafts, tasks *)

Increase(b, l, q) == [b EXCEPT ![l] = @ + q]
Decrease(b, l, q) == [b EXCEPT ![l] = @ - q]

(* Mutant: the balance is not asked. *)
AvailableUnasked(b, m) == m.action \in InventoryActions

(* assertAvailableStock, asked inside the posting transaction. *)
Available(b, m) ==
  m.action \in {"SHIP", "TRANSFER", "DAMAGE"} => b[m.source] >= m.quantity

ApplyStockMovement(b, m) ==
  CASE m.action = "RECEIVE"  -> Increase(b, m.destination, m.quantity)
    [] m.action = "SHIP"     -> Decrease(b, m.source, m.quantity)
    [] m.action = "TRANSFER" -> Increase(Decrease(b, m.source, m.quantity),
                                         m.destination, m.quantity)
    [] OTHER -> b

ApplyCycleCountBalance(b, m) == [b EXCEPT ![m.source] = m.quantity]

ApplyManagerApprovedMovement(b, m) ==
  CASE m.action = "CYCLE_COUNT" -> ApplyCycleCountBalance(b, m)
    [] m.action = "DAMAGE"      -> Decrease(b, m.source, m.quantity)
    [] OTHER -> ApplyStockMovement(b, m)

OnHand(b) == FoldFunction(+, 0, b)

LowStock(onHand) == SafetyStock > 0 /\ onHand < SafetyStock

SuggestedQuantity(onHand) ==
  IF ReorderQuantity > SafetyStock - onHand THEN ReorderQuantity
                                            ELSE SafetyStock - onHand

(* syncReorderDrafts: whatever draft there was, afterwards there is one    *)
(* with the current numbers, or none when the stock is not low.            *)
SyncedDraft(b) ==
  LET onHand == OnHand(b) IN
  IF LowStock(onHand)
  THEN {[currentStock |-> onHand, suggestedQuantity |-> SuggestedQuantity(onHand)]}
  ELSE {}

OpenTask(k) == k # None /\ tasks[k].status \in {"OPEN", "IN_PROGRESS"}

CompleteTask(k) == [tasks EXCEPT ![k].status = "COMPLETED"]

CompleteIfOpen(k) == IF OpenTask(k) THEN CompleteTask(k) ELSE tasks

NewRecountTask(t, l) ==
  [status |-> "OPEN", type |-> "RECOUNT", from |-> l, to |-> None, of |-> t]

--------------------------------------------------------------------------------
Init == /\ stock = InitialStock
        /\ txn = [t \in Txns |-> NoTxn]
        /\ cases = [t \in Txns |-> NoCase]
        /\ tasks = InitialTasks
        /\ draft = SyncedDraft(InitialStock)
        /\ handler = [r \in Requests |-> Idle]

--------------------------------------------------------------------------------
(* createTransaction *)

ExpectedActionByTask ==
  {<<"CYCLE_COUNT", "CYCLE_COUNT">>, <<"STOCK_VERIFY", "CYCLE_COUNT">>,
   <<"RECEIVE", "RECEIVE">>, <<"PICK", "SHIP">>, <<"SHIP", "SHIP">>,
   <<"TRANSFER", "TRANSFER">>, <<"DAMAGE_INSPECTION", "DAMAGE">>}

(* What validateTransaction admits; a location an action has no use for is  *)
(* left out of its input.                                                   *)
Inputs ==
  {i \in [action : Actions, quantity : Quantities,
          source : Places, destination : Places] :
     /\ (i.source = None) = (i.action = "RECEIVE")
     /\ (i.destination = None) = (i.action \notin {"RECEIVE", "TRANSFER"})
     /\ i.source # i.destination}

TaskAccepts(k, i) ==
  /\ OpenTask(k)
  /\ <<tasks[k].type, i.action>> \in ExpectedActionByTask
  /\ tasks[k].from \in {None, i.source}
  /\ tasks[k].to \in {None, i.destination}

(* One insert.  A recount names its recount task; the schema asks that it   *)
(* exists and nothing asks more.                                            *)
CreateTransaction(t, i, k, rk) ==
  /\ txn[t].status = "ABSENT"
  /\ k # None => TaskAccepts(k, i)
  /\ rk # None => tasks[rk].status # "ABSENT"
  /\ txn' = [txn EXCEPT ![t] =
               [status |-> "PENDING", action |-> i.action,
                quantity |-> i.quantity, source |-> i.source,
                destination |-> i.destination, confirmed |-> FALSE,
                posted |-> FALSE, task |-> k, recountTask |-> rk]]
  /\ UNCHANGED <<stock, cases, tasks, draft, handler>>

--------------------------------------------------------------------------------
(* confirmTransaction *)

(* Mutant: confirmedAt is not written. *)
MarkPostedOnly(t) ==
  [txn EXCEPT ![t] = [@ EXCEPT !.status = "POSTED", !.posted = TRUE]]

MarkPosted(t) ==
  [txn EXCEPT ![t] = [@ EXCEPT !.status = "POSTED", !.posted = TRUE,
                               !.confirmed = TRUE]]

(* Mutant: the review reasons are written, confirmedAt is not. *)
MarkReviewReasonsOnly(t) == [txn EXCEPT ![t].confirmed = @]

MarkConfirmed(t) == [txn EXCEPT ![t].confirmed = TRUE]

(* Mutant: any transaction that is not cancelled can be posted. *)
StillPostable(t) == txn[t].status \notin {"ABSENT", "CANCELLED"}

(* The status check a posting repeats inside its database transaction. *)
StillPending(t) == txn[t].status = "PENDING"

(* Mutant: the draft is computed from the balances read before the posting. *)
PostStockStaleDraft(b) == stock' = b /\ draft' = SyncedDraft(stock)

(* The balances become b, and the reorder draft follows in the same         *)
(* database transaction.                                                    *)
PostStock(b) == stock' = b /\ draft' = SyncedDraft(b)

(* RECEIVE, SHIP and TRANSFER post at once. *)
ConfirmMovement(t) ==
  /\ StillPending(t)
  /\ txn[t].action \notin ReviewActions
  /\ Available(stock, txn[t])
  /\ PostStock(ApplyStockMovement(stock, txn[t]))
  /\ txn' = MarkPosted(t)
  /\ tasks' = CompleteIfOpen(txn[t].task)
  /\ UNCHANGED <<cases, handler>>

(* DAMAGE goes to manager review; the status read first is not read again. *)
ConfirmDamageRead(r, t) ==
  /\ txn[t].status = "PENDING"
  /\ txn[t].action = "DAMAGE"
  /\ Begin(r, "submitDamage", t, 0, None)
  /\ UNCHANGED <<stock, txn, cases, tasks, draft>>

ConfirmDamageSubmit(r) ==
  LET t == handler[r].tx IN
  /\ At(r, "submitDamage")
  /\ txn' = MarkConfirmed(t)
  /\ tasks' = CompleteIfOpen(txn[t].task)
  /\ Finish(r)
  /\ UNCHANGED <<stock, cases, draft>>

(* confirmCycleCount compares the count with the balance read now. *)
ConfirmCountRead(r, t) ==
  /\ txn[t].status = "PENDING"
  /\ txn[t].action = "CYCLE_COUNT"
  /\ txn[t].recountTask = None
  /\ txn[t].task # None => tasks[txn[t].task].status # "COMPLETED"
  /\ Begin(r, "settleCount", t, stock[txn[t].source], None)
  /\ UNCHANGED <<stock, txn, cases, tasks, draft>>

(* No difference was seen: the count is posted. *)
PostMatchingCycleCount(r) ==
  LET t == handler[r].tx IN
  /\ At(r, "settleCount")
  /\ txn[t].quantity = handler[r].seen
  /\ StillPending(t)
  /\ PostStock(ApplyCycleCountBalance(stock, txn[t]))
  /\ txn' = MarkPosted(t)
  /\ tasks' = IF txn[t].task = None THEN tasks ELSE CompleteTask(txn[t].task)
  /\ Finish(r)
  /\ UNCHANGED cases

(* Mutant: the counted and the expected quantity are swapped. *)
NewCaseSwapped(t, expected) ==
  [status |-> "AWAITING_REVIEW", location |-> txn[t].source,
   expected |-> txn[t].quantity, counted |-> expected,
   difference |-> expected - txn[t].quantity,
   recountTask |-> None, resolution |-> None]

(* A difference was seen: a discrepancy case awaits review, one per count. *)
NewCase(t, expected) ==
  [status |-> "AWAITING_REVIEW", location |-> txn[t].source,
   expected |-> expected, counted |-> txn[t].quantity,
   difference |-> txn[t].quantity - expected,
   recountTask |-> None, resolution |-> None]

OpenDiscrepancy(r) ==
  LET t == handler[r].tx IN
  /\ At(r, "settleCount")
  /\ txn[t].quantity # handler[r].seen
  /\ cases' = IF cases[t].status = "ABSENT"
              THEN [cases EXCEPT ![t] = NewCase(t, handler[r].seen)]
              ELSE cases
  /\ txn' = MarkConfirmed(t)
  /\ tasks' = IF txn[t].task = None THEN tasks ELSE CompleteTask(txn[t].task)
  /\ Finish(r)
  /\ UNCHANGED <<stock, draft>>

(* confirmRecountResult: the case is the one waiting for this recount task. *)
ConfirmRecountRead(r, t, c) ==
  /\ txn[t].status = "PENDING"
  /\ txn[t].action = "CYCLE_COUNT"
  /\ txn[t].recountTask # None
  /\ cases[c].status = "RECOUNT_REQUESTED"
  /\ cases[c].recountTask = txn[t].recountTask
  /\ Begin(r, "settleRecount", t, stock[txn[t].source], c)
  /\ UNCHANGED <<stock, txn, cases, tasks, draft>>

(* Mutant: the recount resolves the case whatever it found. *)
RecountedCaseResolved(c, t, expected, status, resolution) ==
  [cases EXCEPT ![c] = [@ EXCEPT !.counted = txn[t].quantity,
                                 !.difference = txn[t].quantity - expected,
                                 !.status = status,
                                 !.resolution = t]]

RecountedCase(c, t, expected, status, resolution) ==
  [cases EXCEPT ![c] = [@ EXCEPT !.counted = txn[t].quantity,
                                 !.difference = txn[t].quantity - expected,
                                 !.status = status,
                                 !.resolution = resolution]]

(* The recount agrees with the stock it saw: posted, and the case closes.   *)
(* A recount another request has posted meanwhile leaves the case alone.    *)
PostMatchingRecount(r) ==
  LET t == handler[r].tx
      c == handler[r].row IN
  /\ At(r, "settleRecount")
  /\ txn[t].quantity = handler[r].seen
  /\ tasks' = CompleteTask(txn[t].recountTask)
  /\ IF txn[t].status = "POSTED"
     THEN UNCHANGED <<stock, draft, txn, cases>>
     ELSE /\ PostStock(ApplyCycleCountBalance(stock, txn[t]))
          /\ txn' = MarkPosted(t)
          /\ cases' = RecountedCase(c, t, handler[r].seen, "CLOSED", t)
  /\ Finish(r)

(* The recount differs again: the case returns to the manager. *)
ReturnRecount(r) ==
  LET t == handler[r].tx
      c == handler[r].row IN
  /\ At(r, "settleRecount")
  /\ txn[t].quantity # handler[r].seen
  /\ tasks' = CompleteTask(txn[t].recountTask)
  /\ txn' = MarkConfirmed(t)
  /\ cases' = RecountedCase(c, t, handler[r].seen, "AWAITING_REVIEW",
                            cases[c].resolution)
  /\ Finish(r)
  /\ UNCHANGED <<stock, draft>>

--------------------------------------------------------------------------------
(* Manager decisions on a transaction *)

(* assertManagerReviewable *)
Reviewable(t) == /\ txn[t].action \in ReviewActions
                 /\ txn[t].confirmed
                 /\ txn[t].status = "PENDING"

(* resolveDiscrepancy: an updateMany on the case of t, if there is one. *)
ResolveDiscrepancy(t, status) ==
  IF cases[t].status = "ABSENT" THEN cases
                                ELSE [cases EXCEPT ![t].status = status]

(* approveTransaction checks everything again inside its transaction. *)
ApproveTransaction(t) ==
  /\ Reviewable(t)
  /\ Available(stock, txn[t])
  /\ PostStock(ApplyManagerApprovedMovement(stock, txn[t]))
  /\ txn' = MarkPosted(t)
  /\ cases' = IF txn[t].action = "CYCLE_COUNT" /\ cases[t].status # "ABSENT"
              THEN [cases EXCEPT ![t] = [@ EXCEPT !.status = "APPROVED",
                                                  !.resolution = t]]
              ELSE cases
  /\ UNCHANGED <<tasks, handler>>

(* cancelTransaction: the status is checked, then written unconditionally, *)
(* then the case is closed by a statement of its own.                       *)
CancelRead(r, t) ==
  /\ txn[t].status \notin {"ABSENT", "CANCELLED", "POSTED"}
  /\ Begin(r, "cancel", t, 0, None)
  /\ UNCHANGED <<stock, txn, cases, tasks, draft>>

CancelWrite(r) ==
  /\ At(r, "cancel")
  /\ txn' = [txn EXCEPT ![handler[r].tx].status = "CANCELLED"]
  /\ Continue(r, "closeCase", None)
  /\ UNCHANGED <<stock, cases, tasks, draft>>

CancelCase(r) ==
  /\ At(r, "closeCase")
  /\ cases' = ResolveDiscrepancy(handler[r].tx, "CLOSED")
  /\ Finish(r)
  /\ UNCHANGED <<stock, txn, tasks, draft>>

(* rejectTransaction, in the same three steps. *)
RejectRead(r, t) ==
  /\ Reviewable(t)
  /\ Begin(r, "reject", t, 0, None)
  /\ UNCHANGED <<stock, txn, cases, tasks, draft>>

RejectWrite(r) ==
  /\ At(r, "reject")
  /\ txn' = [txn EXCEPT ![handler[r].tx].status = "REJECTED"]
  /\ Continue(r, "rejectCase", None)
  /\ UNCHANGED <<stock, cases, tasks, draft>>

RejectCase(r) ==
  /\ At(r, "rejectCase")
  /\ cases' = ResolveDiscrepancy(handler[r].tx, "REJECTED")
  /\ Finish(r)
  /\ UNCHANGED <<stock, txn, tasks, draft>>

(* requestRecount: decide, make the task, link it to the case.  Asking      *)
(* again resumes a request that died halfway.                               *)
RequestRecountRead(r, t) ==
  /\ txn[t].action # "DAMAGE"
  /\ \/ Reviewable(t) /\ Begin(r, "askRecount", t, 0, None)
     \/ /\ txn[t].status = "RECOUNT_REQUESTED"
        /\ Begin(r, "makeRecountTask", t, 0, None)
  /\ UNCHANGED <<stock, txn, cases, tasks, draft>>

RequestRecountWrite(r) ==
  /\ At(r, "askRecount")
  /\ txn' = [txn EXCEPT ![handler[r].tx].status = "RECOUNT_REQUESTED"]
  /\ Continue(r, "makeRecountTask", None)
  /\ UNCHANGED <<stock, cases, tasks, draft>>

(* createRecountTask: upsert on the unique sourceTransactionId.             *)
RequestRecountTask(r) ==
  LET t == handler[r].tx IN
  /\ At(r, "makeRecountTask")
  /\ \E k \in Tasks :
       /\ IF \E j \in Tasks : tasks[j].of = t
          THEN tasks[k].of = t /\ UNCHANGED tasks
          ELSE /\ tasks[k].status = "ABSENT"
               /\ tasks' = [tasks EXCEPT ![k] = NewRecountTask(t, txn[t].source)]
       /\ Continue(r, "linkRecountTask", k)
  /\ UNCHANGED <<stock, txn, cases, draft>>

RequestRecountCase(r) ==
  LET t == handler[r].tx IN
  /\ At(r, "linkRecountTask")
  /\ cases' = IF cases[t].status = "ABSENT" THEN cases
              ELSE [cases EXCEPT ![t] = [@ EXCEPT !.status = "RECOUNT_REQUESTED",
                                                  !.recountTask = handler[r].row]]
  /\ Finish(r)
  /\ UNCHANGED <<stock, txn, tasks, draft>>

(* refreshReorderDrafts, for this product. *)
RefreshReorderDrafts ==
  /\ draft' = SyncedDraft(stock)
  /\ UNCHANGED <<stock, txn, cases, tasks, handler>>

--------------------------------------------------------------------------------
Next ==
  \/ \E t \in Txns, i \in Inputs, k, rk \in Tasks \cup {None} :
       CreateTransaction(t, i, k, rk)
  \/ \E t \in Txns : ConfirmMovement(t) \/ ApproveTransaction(t)
  \/ \E r \in Requests, t \in Txns :
       \/ ConfirmDamageRead(r, t)
       \/ ConfirmCountRead(r, t)
       \/ \E c \in Txns : ConfirmRecountRead(r, t, c)
       \/ CancelRead(r, t)
       \/ RejectRead(r, t)
       \/ RequestRecountRead(r, t)
  \/ \E r \in Requests :
       \/ ConfirmDamageSubmit(r)
       \/ PostMatchingCycleCount(r)
       \/ OpenDiscrepancy(r)
       \/ PostMatchingRecount(r)
       \/ ReturnRecount(r)
       \/ CancelWrite(r)
       \/ CancelCase(r)
       \/ RejectWrite(r)
       \/ RejectCase(r)
       \/ RequestRecountWrite(r)
       \/ RequestRecountTask(r)
       \/ RequestRecountCase(r)
       \/ Abandon(r)
  \/ RefreshReorderDrafts

Spec == Init /\ [][Next]_vars

--------------------------------------------------------------------------------
(* Properties *)

(* Every row, task, case, draft and request keeps the shape the database    *)
(* schema and the handlers give it, and no balance is ever negative.        *)
TypeOK == /\ stock \in [Locations -> Nat]
          /\ txn \in [Txns -> TxnRows]
          /\ cases \in [Txns -> CaseRows]
          /\ tasks \in [Tasks -> TaskRows]
          /\ \A d \in draft : DOMAIN d = {"currentStock", "suggestedQuantity"}
          /\ handler \in [Requests -> Handlers]

(* Whichever handler moved the stock last, a reorder draft is open exactly  *)
(* when the stock on hand is below the safety stock; it shows that stock    *)
(* and orders enough to reach the safety stock again.                       *)
DraftMatchesStock ==
  LET onHand == OnHand(stock) IN
  IF SafetyStock > 0 /\ onHand < SafetyStock
  THEN \E d \in draft : /\ draft = {d}
                        /\ d.currentStock = onHand
                        /\ onHand + d.suggestedQuantity >= SafetyStock
                        /\ d.suggestedQuantity >= ReorderQuantity
  ELSE draft = {}

(* The engine completes a task only together with the confirmation of a     *)
(* transaction entered for it: no handler that dies halfway, loses a race   *)
(* or finds the transaction cancelled leaves a completed task without work. *)
CompletedTaskHasConfirmedWork ==
  \A k \in Tasks :
    tasks[k].status = "COMPLETED" =>
      \E t \in Txns : k \in {txn[t].task, txn[t].recountTask} /\ txn[t].confirmed

(* A discrepancy case stands for a first count its worker confirmed, at the *)
(* place that was counted, however the confirmations interleave; and the    *)
(* quantity a manager may make the balance is one a worker confirmed.       *)
CaseBelongsToConfirmedCount ==
  \A c \in Txns :
    cases[c].status # "ABSENT" =>
      /\ txn[c].action = "CYCLE_COUNT" /\ txn[c].recountTask = None
      /\ txn[c].confirmed
      /\ cases[c].location = txn[c].source
      /\ \E t \in Txns : /\ t = c \/ txn[t].recountTask # None
                         /\ txn[t].confirmed
                         /\ txn[t].quantity = cases[c].counted

(* The transaction that resolved a case has reached the balances, and an    *)
(* approved case has one, also when another request overwrites the status   *)
(* of either afterwards.                                                    *)
ResolutionWasPosted ==
  \A c \in Txns :
    /\ cases[c].resolution # None => txn[cases[c].resolution].posted
    /\ cases[c].status = "APPROVED" => cases[c].resolution # None

(* No count is being recounted twice at once: an open recount task belongs  *)
(* to a count, and a count has one open recount task at most, whether the   *)
(* recount is asked for again, on the transaction or on the case, at the    *)
(* same time or after a request that died halfway.                          *)
OneOpenRecountPerCount ==
  \A j, k \in Tasks :
    OpenTask(j) /\ OpenTask(k) /\ tasks[j].type = "RECOUNT" /\ tasks[k].type = "RECOUNT"
      => tasks[j].of # None /\ (tasks[j].of = tasks[k].of => j = k)

(* The movements that have reached the balances, as the ledger sees them.   *)
MovedRows ==
  [t \in {n \in Txns : txn[n].posted /\ txn[n].action # "CYCLE_COUNT"} |->
     [action |-> txn[t].action, quantity |-> txn[t].quantity,
      source |-> txn[t].source, destination |-> txn[t].destination]]

Ledger == INSTANCE StockLedger WITH Rows <- Txns, moved <- MovedRows

(* The engine implements the ledger: whatever confirmations, approvals,     *)
(* cancellations and retries run at once, a movement reaches the balances   *)
(* once, entirely, within what is there.                                    *)
LedgerSpec == Ledger!Spec

(* "A posted transaction cannot be cancelled because it already changed     *)
(* stock" (cancelTransaction): a row that is POSTED stays POSTED.           *)
PostedIsFinal ==
  [][\A t \in Txns : txn[t].status = "POSTED" => txn'[t].status = "POSTED"]_vars

(* "A different Cycle Count ... remains unchanged until a manager approves  *)
(* it" (README): a first count posted without a case, hence without review, *)
(* leaves the balances as they are.                                         *)
UnreviewedCountKeepsStock ==
  [][\A t \in Txns :
       /\ txn[t].action = "CYCLE_COUNT" /\ txn[t].recountTask = None
       /\ ~txn[t].posted /\ txn'[t].posted
       /\ cases[t].status = "ABSENT"
       => stock' = stock]_vars

================================================================================
