---------------------------- MODULE TaskQueue_proofs ----------------------------
(* Theorems about TaskQueue, for every value of its constants. *)
EXTENDS TaskQueue, TransactionEngine_proofs, FiniteSetTheorems

(* What the rows say of each other.  The engine's part of it: a transaction *)
(* was entered for a task of its kind, and recounts belong to RECOUNT tasks. *)
Known(k) == tasks[k].status # "ABSENT"

IsRecount(k) == tasks[k].type = "RECOUNT" /\ Known(k)

Shipped(k) == \E t \in Txns : txn[t].task = k /\ txn[t].posted

RowsWork ==
  \A t \in Txns : txn[t].status # "ABSENT" =>
    /\ txn[t].task # None =>
         /\ Known(txn[t].task)
         /\ <<tasks[txn[t].task].type, txn[t].action>> \in ExpectedActionByTask
    /\ txn[t].status = "POSTED" => txn[t].posted

TaskSource ==
  \A k \in Tasks : tasks[k].of # None =>
    IsRecount(k) /\ txn[tasks[k].of].status # "ABSENT"

RecountTasks ==
  \A c \in Txns : cases[c].recountTask # None => IsRecount(cases[c].recountTask)

HandlerWorks ==
  \A r \in Requests :
    /\ handler[r].step = "linkRecountTask" => IsRecount(handler[r].row)
    /\ handler[r].step = "settleRecount" => IsRecount(txn[handler[r].tx].recountTask)
    /\ handler[r].step = "submitDamage" => txn[handler[r].tx].action = "DAMAGE"

Work == RowsWork /\ TaskSource /\ RecountTasks /\ HandlerWorks

(* What a call to the task queue has read and can rely on.                  *)
CallKnows ==
  \A a \in Calls :
    /\ call[a].step \in {"checkShipped", "change"} => Known(call[a].task)
    /\ /\ call[a].step = "change" /\ call[a].status = "COMPLETED"
       /\ tasks[call[a].task].type = "SHIP"
       => Shipped(call[a].task)
    /\ call[a].step = "cancel" /\ call[a].row # None =>
         txn[call[a].row].status # "ABSENT"

(* A task somebody was told is theirs is there, and is somebody's.          *)
Claims ==
  \A k \in Tasks :
    /\ claimed[k] # {} => Known(k) /\ assignee[k] # None
    /\ \A v, w \in claimed[k] : v = w
    /\ k \notin reassigned => claimed[k] \subseteq {assignee[k]}

QueueType ==
  /\ assignee \in [Tasks -> Workers \cup {Manager, None}]
  /\ plan \in [Tasks -> made \cup {None}]
  /\ made \subseteq Plans
  /\ call \in [Calls -> CallRecords]
  /\ claimed \in [Tasks -> SUBSET (Workers \cup {Manager})]
  /\ reassigned \subseteq Tasks

QInv == IInv /\ Work /\ ShippedBeforeCompleted /\ QueueType /\ CallKnows /\ Claims

--------------------------------------------------------------------------------
(* What a step of the engine does to each table *)

(* A task in use stays in use, with its type and the count it repeats.      *)
TasksKept ==
  \A k \in Tasks : Known(k) =>
    /\ Known(k)' /\ tasks'[k].type = tasks[k].type /\ tasks'[k].of = tasks[k].of

(* The task of a row in use is in use, and of the row's kind. *)
LEMMA RowTask ==
  ASSUME IInv, Work, NEW t \in Txns, txn[t].status # "ABSENT"
  PROVE  /\ txn[t].task \in Tasks \cup {None}
         /\ txn[t].task # None => /\ txn[t].task \in Tasks /\ Known(txn[t].task)
                                  /\ tasks[txn[t].task].type = "SHIP" =>
                                       txn[t].action = "SHIP"
<1>1. txn[t] \in TxnRows
  BY DEF IInv, TypeOK
<1>2. txn[t].task \in Tasks \cup {None}
  BY <1>1 DEF TxnRows
<1> QED BY <1>2 DEF Work, RowsWork, ExpectedActionByTask

(* The engine completes a task it knows, and a shipping task only together  *)
(* with the posting of its shipment; the rest it makes is a recount task    *)
(* for the transaction of a request, in place of no other row.              *)
Completed(k) ==
  /\ Known(k) /\ tasks' = CompleteTask(k)
  /\ tasks[k].type = "SHIP" => \E t \in Txns : txn[t].task = k /\ txn' = MarkPosted(t)

TaskWritten ==
  \/ UNCHANGED tasks
  \/ \E k \in Tasks : Completed(k)
  \/ \E k \in Tasks, t \in Txns, l \in Places :
       /\ ~Known(k) /\ txn[t].status # "ABSENT" /\ UNCHANGED txn
       /\ tasks' = [tasks EXCEPT ![k] = NewRecountTask(t, l)]

(* So does every step of the engine write its tasks. *)
LEMMA EngineTasks ==
  ASSUME IInv, Work, [Next]_vars
  PROVE  TaskWritten
<1>1. ASSUME NEW t \in Txns, ConfirmMovement(t)
      PROVE  TaskWritten
  <2>1. /\ txn[t].status # "ABSENT" /\ txn' = MarkPosted(t)
        /\ tasks' = CompleteIfOpen(txn[t].task)
    BY <1>1 DEF ConfirmMovement, StillPending
  <2>2. CASE OpenTask(txn[t].task)
    <3>1. txn[t].task \in Tasks /\ Known(txn[t].task)
      BY <2>1, <2>2, RowTask DEF OpenTask
    <3> QED BY <2>1, <2>2, <3>1 DEF CompleteIfOpen, TaskWritten, Completed
  <2> QED BY <2>1, <2>2 DEF CompleteIfOpen, TaskWritten
<1>2. ASSUME NEW r \in Requests,
             ConfirmDamageSubmit(r) \/ PostMatchingCycleCount(r) \/ OpenDiscrepancy(r)
      PROVE  TaskWritten
  <2> DEFINE t == handler[r].tx
             k == txn[t].task
  <2>1. /\ t \in Txns /\ txn[t].status # "ABSENT"
        /\ txn[t].action \in {"DAMAGE", "CYCLE_COUNT"}
    BY <1>2 DEF IInv, HandlerKnows, Work, HandlerWorks, At, ConfirmDamageSubmit,
                PostMatchingCycleCount, OpenDiscrepancy
  <2>2. UNCHANGED tasks \/ (k # None /\ tasks' = CompleteTask(k))
    BY <1>2 DEF ConfirmDamageSubmit, PostMatchingCycleCount, OpenDiscrepancy,
                CompleteIfOpen, OpenTask
  <2>3. k # None => k \in Tasks /\ Known(k) /\ tasks[k].type # "SHIP"
    BY <2>1, RowTask
  <2> QED BY <2>2, <2>3 DEF TaskWritten, Completed
<1>3. ASSUME NEW r \in Requests, PostMatchingRecount(r) \/ ReturnRecount(r)
      PROVE  TaskWritten
  <2> DEFINE k == txn[handler[r].tx].recountTask
  <2>1. k \in Tasks /\ Known(k) /\ tasks[k].type # "SHIP"
    BY <1>3 DEF IInv, HandlerKnows, Work, HandlerWorks, IsRecount, At,
                PostMatchingRecount, ReturnRecount
  <2>2. tasks' = CompleteTask(k)
    BY <1>3 DEF PostMatchingRecount, ReturnRecount
  <2> QED BY <2>1, <2>2 DEF TaskWritten, Completed
<1>4. ASSUME NEW r \in Requests, RequestRecountTask(r)
      PROVE  TaskWritten
  <2> DEFINE t == handler[r].tx
  <2>1. t \in Txns /\ txn[t].status # "ABSENT" /\ txn[t].source \in Places
    BY <1>4 DEF IInv, TypeOK, TxnRows, HandlerKnows, At, RequestRecountTask
  <2>2. /\ UNCHANGED txn
        /\ \/ UNCHANGED tasks
           \/ \E k \in Tasks :
                /\ tasks[k].status = "ABSENT"
                /\ tasks' = [tasks EXCEPT ![k] = NewRecountTask(t, txn[t].source)]
    BY <1>4 DEF RequestRecountTask
  <2> QED BY <2>1, <2>2 DEF TaskWritten, Known
<1>5. CASE UNCHANGED tasks
  BY <1>5 DEF TaskWritten
<1> QED BY <1>1, <1>2, <1>3, <1>4, <1>5
        DEF Next, vars, CreateTransaction, ApproveTransaction, ConfirmDamageRead,
            ConfirmCountRead, ConfirmRecountRead, CancelRead, RejectRead,
            RequestRecountRead, CancelWrite, RejectWrite, RequestRecountWrite,
            CancelCase, RejectCase, RequestRecountCase, Abandon, RefreshReorderDrafts

(* A case is linked to the recount task a request has just made.            *)
CaseLinked ==
  \A c \in Txns :
    \/ cases'[c].recountTask = cases[c].recountTask
    \/ cases'[c].recountTask = None
    \/ \E r \in Requests : /\ handler[r].step = "linkRecountTask"
                           /\ cases'[c].recountTask = handler[r].row

(* No engine step links a case to anything else. *)
LEMMA EngineCases ==
  ASSUME IInv, [Next]_vars
  PROVE  CaseLinked
<1>t. cases \in [Txns -> CaseRows]
  BY DEF IInv, TypeOK
<1>1. ASSUME NEW c \in Txns, NEW x, cases' = [cases EXCEPT ![c] = x],
             \/ x.recountTask \in {cases[c].recountTask, None}
             \/ \E r \in Requests : /\ handler[r].step = "linkRecountTask"
                                    /\ x.recountTask = handler[r].row
      PROVE  CaseLinked
  BY <1>t, <1>1 DEF CaseLinked
<1>2. ASSUME NEW r \in Requests, OpenDiscrepancy(r)
      PROVE  CaseLinked
  <2>1. handler[r].tx \in Txns
    BY <1>2 DEF IInv, HandlerKnows, At, OpenDiscrepancy
  <2> QED BY <1>1, <1>2, <2>1 DEF OpenDiscrepancy, NewCase, CaseLinked
<1>3. ASSUME NEW r \in Requests, PostMatchingRecount(r) \/ ReturnRecount(r)
      PROVE  CaseLinked
  <2> DEFINE c == handler[r].row
  <2>1. c \in Txns
    BY <1>3 DEF IInv, HandlerKnows, At, PostMatchingRecount, ReturnRecount
  <2>2. ASSUME NEW t, NEW n, NEW status, NEW res, cases' = RecountedCase(c, t, n, status, res)
        PROVE  CaseLinked
    <3> DEFINE x == [cases[c] EXCEPT !.counted = txn[t].quantity,
                                     !.difference = txn[t].quantity - n,
                                     !.status = status, !.resolution = res]
    <3>1. cases[c] \in CaseRows
      BY <1>t, <2>1
    <3>2. x.recountTask = cases[c].recountTask
      BY <3>1 DEF CaseRows
    <3>3. cases' = [cases EXCEPT ![c] = x]
      BY <2>2 DEF RecountedCase
    <3> HIDE DEF x
    <3> QED BY <1>1, <2>1, <3>2, <3>3
  <2> QED BY <1>3, <2>2 DEF PostMatchingRecount, ReturnRecount, CaseLinked
<1>4. ASSUME NEW t \in Txns, NEW x, cases' = [cases EXCEPT ![t] = x],
             \/ \E status : x = [cases[t] EXCEPT !.status = status]
             \/ \E status, res : x = [cases[t] EXCEPT !.status = status,
                                                      !.resolution = res]
      PROVE  CaseLinked
  <2>1. cases[t] \in CaseRows
    BY <1>t
  <2>2. x.recountTask = cases[t].recountTask
    BY <1>4, <2>1 DEF CaseRows
  <2> QED BY <1>1, <1>4, <2>2
<1>5. ASSUME NEW t \in Txns, ApproveTransaction(t)
      PROVE  CaseLinked
  <2>1. UNCHANGED cases
        \/ cases' = [cases EXCEPT ![t] = [cases[t] EXCEPT !.status = "APPROVED",
                                                         !.resolution = t]]
    BY <1>5 DEF ApproveTransaction
  <2> QED BY <1>4, <2>1 DEF CaseLinked
<1>6. ASSUME NEW r \in Requests, CancelCase(r) \/ RejectCase(r)
      PROVE  CaseLinked
  <2> DEFINE t == handler[r].tx
  <2>1. t \in Txns
    BY <1>6 DEF IInv, HandlerKnows, At, CancelCase, RejectCase
  <2>2. UNCHANGED cases
        \/ \E status : cases' = [cases EXCEPT ![t] = [cases[t] EXCEPT !.status = status]]
    BY <1>6 DEF CancelCase, RejectCase, ResolveDiscrepancy
  <2> QED BY <1>4, <2>1, <2>2 DEF CaseLinked
<1>7. ASSUME NEW r \in Requests, RequestRecountCase(r)
      PROVE  CaseLinked
  <2> DEFINE t == handler[r].tx
             x == [cases[t] EXCEPT !.status = "RECOUNT_REQUESTED",
                                   !.recountTask = handler[r].row]
  <2>1. t \in Txns /\ handler[r].step = "linkRecountTask"
    BY <1>7 DEF IInv, HandlerKnows, At, RequestRecountCase
  <2>2. x.recountTask = handler[r].row
    BY <1>t, <2>1 DEF CaseRows
  <2>3. UNCHANGED cases \/ cases' = [cases EXCEPT ![t] = x]
    BY <1>7 DEF RequestRecountCase
  <2> HIDE DEF x
  <2> QED BY <1>1, <2>1, <2>2, <2>3 DEF CaseLinked
<1>8. CASE UNCHANGED cases
  BY <1>8 DEF CaseLinked
<1> QED BY <1>2, <1>3, <1>5, <1>6, <1>7, <1>8
        DEF Next, vars, CreateTransaction, ConfirmMovement, ConfirmDamageRead,
            ConfirmDamageSubmit, ConfirmCountRead, PostMatchingCycleCount,
            ConfirmRecountRead, CancelRead, CancelWrite, RejectRead, RejectWrite,
            RequestRecountRead, RequestRecountWrite, RequestRecountTask, Abandon,
            RefreshReorderDrafts

(* A request that moves on knows what its next step relies on. *)
HandlerMoved ==
  \A r \in Requests :
    \/ handler'[r] = handler[r]
    \/ handler'[r].step \notin {"linkRecountTask", "settleRecount", "submitDamage"}
    \/ handler'[r].step = "linkRecountTask" /\ IsRecount(handler[r].row)'
    \/ /\ UNCHANGED <<txn, tasks>>
       /\ \/ /\ handler'[r].step = "settleRecount"
             /\ IsRecount(txn[handler'[r].tx].recountTask)
          \/ /\ handler'[r].step = "submitDamage"
             /\ txn[handler'[r].tx].action = "DAMAGE"

(* So does every step of the engine move its requests. *)
LEMMA EngineHandlers ==
  ASSUME IInv, Work, [Next]_vars
  PROVE  HandlerMoved
<1>t. handler \in [Requests -> Handlers]
  BY DEF IInv, TypeOK
<1>1. ASSUME NEW r \in Requests, Finish(r)
      PROVE  HandlerMoved
  BY <1>t, <1>1 DEF Finish, Idle, HandlerMoved
<1>2. ASSUME NEW r \in Requests, NEW step, NEW row, Continue(r, step, row),
             step \in {"closeCase", "rejectCase", "makeRecountTask"}
      PROVE  HandlerMoved
  <2>1. \A q \in Requests \ {r} : handler'[q] = handler[q]
    BY <1>t, <1>2 DEF Continue
  <2>2. handler'[r].step = step
    BY <1>t, <1>2 DEF Continue, Handlers
  <2> QED BY <1>2, <2>1, <2>2 DEF HandlerMoved
<1>3. ASSUME NEW r \in Requests, RequestRecountTask(r)
      PROVE  HandlerMoved
  <2> DEFINE t == handler[r].tx
  <2>1. t \in Txns /\ t # None
    BY <1>3, EngineAssumption DEF IInv, HandlerKnows, At, RequestRecountTask
  <2>2. PICK k \in Tasks :
          /\ \/ tasks[k].of = t /\ UNCHANGED tasks
             \/ tasks' = [tasks EXCEPT ![k] = NewRecountTask(t, txn[t].source)]
          /\ Continue(r, "linkRecountTask", k)
    BY <1>3 DEF RequestRecountTask
  <2>3. \A q \in Requests \ {r} : handler'[q] = handler[q]
    BY <1>t, <2>2 DEF Continue
  <2>4. handler'[r].step = "linkRecountTask" /\ handler'[r].row = k
    BY <1>t, <2>2 DEF Continue, Handlers
  <2>5. IsRecount(k)'
    <3>1. CASE tasks[k].of = t /\ UNCHANGED tasks
      BY <2>1, <3>1 DEF Work, TaskSource, IsRecount, Known
    <3>2. CASE tasks' = [tasks EXCEPT ![k] = NewRecountTask(t, txn[t].source)]
      BY <3>2 DEF IInv, TypeOK, IsRecount, Known, NewRecountTask
    <3> QED BY <2>2, <3>1, <3>2
  <2>6. IsRecount(handler[r].row)'
    BY <2>4, <2>5 DEF IsRecount, Known
  <2> QED BY <2>3, <2>4, <2>6 DEF HandlerMoved
<1>4. ASSUME NEW r \in Requests, NEW step, NEW t, NEW n, NEW row,
             Begin(r, step, t, n, row), UNCHANGED <<txn, tasks>>,
             step # "linkRecountTask",
             step = "settleRecount" => IsRecount(txn[t].recountTask),
             step = "submitDamage" => txn[t].action = "DAMAGE"
      PROVE  HandlerMoved
  <2>1. \A q \in Requests \ {r} : handler'[q] = handler[q]
    BY <1>t, <1>4 DEF Begin
  <2>2. handler'[r].step = step /\ handler'[r].tx = t
    BY <1>t, <1>4 DEF Begin
  <2> QED BY <1>4, <2>1, <2>2 DEF HandlerMoved
<1>5. ASSUME NEW r \in Requests, NEW t \in Txns,
             ConfirmDamageRead(r, t) \/ ConfirmCountRead(r, t)
      PROVE  HandlerMoved
  BY <1>4, <1>5 DEF ConfirmDamageRead, ConfirmCountRead
<1>6. ASSUME NEW r \in Requests, NEW t \in Txns, NEW c \in Txns, ConfirmRecountRead(r, t, c)
      PROVE  HandlerMoved
  <2>1. IsRecount(txn[t].recountTask)
    BY <1>6 DEF ConfirmRecountRead, Work, RecountTasks
  <2> QED BY <1>4, <1>6, <2>1 DEF ConfirmRecountRead
<1>7. ASSUME NEW r \in Requests, NEW t \in Txns,
             CancelRead(r, t) \/ RejectRead(r, t) \/ RequestRecountRead(r, t)
      PROVE  HandlerMoved
  BY <1>4, <1>7 DEF CancelRead, RejectRead, RequestRecountRead
<1>8. ASSUME NEW r \in Requests,
             CancelWrite(r) \/ RejectWrite(r) \/ RequestRecountWrite(r)
      PROVE  HandlerMoved
  BY <1>2, <1>8 DEF CancelWrite, RejectWrite, RequestRecountWrite
<1>9. CASE UNCHANGED handler
  BY <1>9 DEF HandlerMoved
<1> QED BY <1>1, <1>3, <1>5, <1>6, <1>7, <1>8, <1>9
        DEF Next, vars, CreateTransaction, ConfirmMovement, ApproveTransaction,
            ConfirmDamageSubmit, PostMatchingCycleCount, OpenDiscrepancy,
            PostMatchingRecount, ReturnRecount, CancelCase, RejectCase,
            RequestRecountCase, Abandon, RefreshReorderDrafts

--------------------------------------------------------------------------------
(* What the steps of both services keep *)

(* A new row is entered for a task in use of its kind, and a new task that  *)
(* repeats a count is a recount task.                                       *)
RowsEntered ==
  \A t \in Txns : txn[t].status = "ABSENT" =>
    \/ txn'[t].status = "ABSENT"
    \/ /\ txn'[t].status # "POSTED"
       /\ txn'[t].task # None =>
            /\ Known(txn'[t].task)
            /\ <<tasks[txn'[t].task].type, txn'[t].action>> \in ExpectedActionByTask

TasksEntered ==
  \A k \in Tasks : ~Known(k) /\ tasks'[k].of # None =>
    IsRecount(k)' /\ txn'[tasks'[k].of].status # "ABSENT"

(* Rows in use stay so when nothing is inserted, and what was posted too.   *)
LEMMA PostedStay ==
  ASSUME IInv, PostsKept
  PROVE  \A k : Shipped(k) => Shipped(k)'
  BY DEF IInv, PostedNotPending, PostsKept, Shipped

(* A recount task stays one. *)
LEMMA RecountStays ==
  ASSUME TasksKept, NEW k \in Tasks, IsRecount(k)
  PROVE  IsRecount(k)'
  BY DEF TasksKept, IsRecount, Known

(* The rows' references keep their meaning.                                 *)
LEMMA KeepsWork ==
  ASSUME IInv, IInv', Work, TasksKept, PostsKept, RowsEntered, TasksEntered,
         CaseLinked, HandlerMoved
  PROVE  Work'
<1>1. RowsWork'
  <2> SUFFICES ASSUME NEW t \in Txns, txn'[t].status # "ABSENT"
               PROVE  /\ txn'[t].task # None =>
                           /\ Known(txn[t].task)'
                           /\ <<tasks'[txn'[t].task].type, txn'[t].action>>
                                \in ExpectedActionByTask
                      /\ txn'[t].status = "POSTED" => txn'[t].posted
    BY DEF RowsWork, Known, ExpectedActionByTask
  <2>1. txn'[t].task \in Tasks \cup {None}
    BY DEF IInv, TypeOK, TxnRows
  <2>2. txn'[t].task # None =>
          /\ Known(txn'[t].task)
          /\ <<tasks[txn'[t].task].type, txn'[t].action>> \in ExpectedActionByTask
    BY DEF Work, RowsWork, PostsKept, RowsEntered
  <2>3. txn'[t].status = "POSTED" => txn'[t].posted
    BY DEF Work, RowsWork, PostsKept, RowsEntered
  <2> QED BY <2>1, <2>2, <2>3 DEF TasksKept, Known
<1>2. TaskSource'
  <2> SUFFICES ASSUME NEW k \in Tasks, tasks'[k].of # None
               PROVE  IsRecount(k)' /\ txn'[tasks'[k].of].status # "ABSENT"
    BY DEF TaskSource, IsRecount, Known
  <2>1. tasks'[k].of \in Txns
    BY DEF IInv, TypeOK, TaskRows
  <2>2. CASE Known(k)
    <3>1. tasks'[k].of = tasks[k].of
      BY <2>2 DEF TasksKept
    <3> QED BY <2>1, <3>1, RecountStays DEF Work, TaskSource, PostsKept
  <2> QED BY <2>2 DEF TasksEntered
<1>3. RecountTasks'
  <2> SUFFICES ASSUME NEW c \in Txns, cases'[c].recountTask # None
               PROVE  IsRecount(cases[c].recountTask)'
    BY DEF RecountTasks, IsRecount, Known
  <2>1. cases'[c].recountTask \in Tasks
    BY DEF IInv, TypeOK, CaseRows
  <2>2. IsRecount(cases'[c].recountTask)
    BY DEF CaseLinked, Work, RecountTasks, HandlerWorks
  <2> QED BY <2>1, <2>2 DEF TasksKept, IsRecount, Known
<1>4. HandlerWorks'
  <2> SUFFICES ASSUME NEW r \in Requests
               PROVE  /\ handler'[r].step = "linkRecountTask" =>
                           IsRecount(handler[r].row)'
                      /\ handler'[r].step = "settleRecount" =>
                           IsRecount(txn[handler[r].tx].recountTask)'
                      /\ handler'[r].step = "submitDamage" =>
                           txn'[handler'[r].tx].action = "DAMAGE"
    BY DEF HandlerWorks, IsRecount, Known
  <2>1. CASE handler'[r] = handler[r]
    <3>1. CASE handler[r].step = "linkRecountTask"
      BY <2>1, <3>1 DEF Work, HandlerWorks, IInv, HandlerKnows, TasksKept, IsRecount, Known
    <3>2. CASE handler[r].step = "settleRecount"
      <4>1. /\ handler[r].tx \in Txns
            /\ txn'[handler[r].tx].recountTask = txn[handler[r].tx].recountTask
            /\ txn[handler[r].tx].recountTask \in Tasks
        BY <3>2 DEF IInv, HandlerKnows, PostsKept
      <4> QED BY <2>1, <3>2, <4>1 DEF Work, HandlerWorks, TasksKept, IsRecount, Known
    <3>3. CASE handler[r].step = "submitDamage"
      BY <2>1, <3>3 DEF Work, HandlerWorks, IInv, HandlerKnows, PostsKept
    <3> QED BY <2>1, <3>1, <3>2, <3>3
  <2>2. CASE handler'[r] # handler[r]
    BY <2>2 DEF HandlerMoved, IsRecount, Known
  <2> QED BY <2>1, <2>2
<1> QED BY <1>1, <1>2, <1>3, <1>4 DEF Work

(* What the calls, the claims and the queue's own rows rely on stays.       *)
LEMMA KeepsCalls ==
  ASSUME IInv, QueueType, CallKnows, TasksKept, PostsKept, UNCHANGED call
  PROVE  CallKnows'
<1> SUFFICES ASSUME NEW a \in Calls
             PROVE  /\ call[a].step \in {"checkShipped", "change"} => Known(call[a].task)'
                    /\ /\ call[a].step = "change" /\ call[a].status = "COMPLETED"
                       /\ tasks'[call[a].task].type = "SHIP"
                       => Shipped(call[a].task)'
                    /\ call[a].step = "cancel" /\ call[a].row # None =>
                         txn'[call[a].row].status # "ABSENT"
  BY DEF CallKnows, Known, Shipped
<1>1. CASE call[a].step \in {"checkShipped", "change"}
  <2>1. call[a].task \in Tasks
    BY <1>1 DEF QueueType, CallRecords, Free
  <2> QED BY <1>1, <2>1, PostedStay DEF CallKnows, TasksKept
<1>2. CASE call[a].step = "cancel"
  <2>1. call[a].row \in Txns \cup {None}
    BY <1>2 DEF QueueType, CallRecords, Free
  <2> QED BY <1>2, <2>1 DEF CallKnows, PostsKept
<1> QED BY <1>1, <1>2

(* Claims stay as long as nobody writes them. *)
LEMMA KeepsClaims ==
  ASSUME Claims, TasksKept, UNCHANGED <<assignee, claimed, reassigned>>
  PROVE  Claims'
  BY DEF Claims, TasksKept

(* A step of the engine: the shipment of a shipping task is posted with it. *)
LEMMA CompletesShipped ==
  ASSUME IInv, ShippedBeforeCompleted, PostsKept, TaskWritten
  PROVE  ShippedBeforeCompleted'
<1> SUFFICES ASSUME NEW k \in Tasks, tasks'[k].type = "SHIP",
                    tasks'[k].status = "COMPLETED"
             PROVE  Shipped(k)'
  BY DEF ShippedBeforeCompleted, Shipped
<1>t. tasks \in [Tasks -> TaskRows] /\ txn \in [Txns -> TxnRows]
  BY DEF IInv, TypeOK
<1>1. CASE tasks'[k] = tasks[k]
  <2>1. Shipped(k)
    BY <1>1 DEF ShippedBeforeCompleted, Shipped
  <2> QED BY <2>1, PostedStay
<1>2. ASSUME NEW j \in Tasks, Completed(j)
      PROVE  Shipped(k)'
  <2>1. CASE j = k
    <3>1. tasks[k].type = "SHIP"
      BY <1>t, <1>2, <2>1 DEF Completed, CompleteTask, TaskRows
    <3>2. PICK t \in Txns : txn[t].task = k /\ txn' = MarkPosted(t)
      BY <1>2, <2>1, <3>1 DEF Completed
    <3>3. txn[t] \in TxnRows
      BY <1>t
    <3>4. txn'[t].task = k /\ txn'[t].posted
      BY <1>t, <3>2, <3>3 DEF MarkPosted, TxnRows
    <3> QED BY <3>4 DEF Shipped
  <2>2. CASE j # k
    BY <1>t, <1>1, <1>2, <2>2 DEF Completed, CompleteTask
  <2> QED BY <2>1, <2>2
<1>3. ASSUME NEW j \in Tasks, NEW t \in Txns, NEW l \in Places,
             tasks' = [tasks EXCEPT ![j] = NewRecountTask(t, l)]
      PROVE  Shipped(k)'
  BY <1>t, <1>1, <1>3 DEF NewRecountTask
<1> QED BY <1>1, <1>2, <1>3 DEF TaskWritten

(* None of these writes frees a task or changes its kind. *)
LEMMA EngineTasksKept ==
  ASSUME IInv, TaskWritten
  PROVE  TasksKept
<1>t. tasks \in [Tasks -> TaskRows]
  BY DEF IInv, TypeOK
<1>1. ASSUME NEW j \in Tasks, Completed(j)
      PROVE  TasksKept
  <2>1. tasks' = [tasks EXCEPT ![j] = [tasks[j] EXCEPT !.status = "COMPLETED"]]
    BY <1>1 DEF Completed, CompleteTask
  <2>2. tasks[j] \in TaskRows
    BY <1>t
  <2>3. /\ tasks'[j].status = "COMPLETED" /\ tasks'[j].type = tasks[j].type
        /\ tasks'[j].of = tasks[j].of
    BY <1>t, <2>1, <2>2 DEF TaskRows
  <2> QED BY <1>t, <2>1, <2>3 DEF TasksKept, Known
<1>2. ASSUME NEW j \in Tasks, ~Known(j), NEW x, tasks' = [tasks EXCEPT ![j] = x]
      PROVE  TasksKept
  BY <1>t, <1>2 DEF TasksKept, Known
<1> QED BY <1>1, <1>2 DEF TaskWritten, TasksKept, Known

(* Every step of the engine keeps the invariant of the two. *)
LEMMA EngineQInv ==
  ASSUME QInv, [Next]_vars, UNCHANGED queueVars
  PROVE  QInv'
<1>1. IInv /\ Work /\ IInv'
  BY StepIInv DEF QInv
<1>2. /\ TaskWritten /\ TasksKept /\ CaseLinked /\ HandlerMoved
  BY <1>1, EngineTasks, EngineTasksKept, EngineCases, EngineHandlers
<1>3. TasksEntered
  <2> SUFFICES ASSUME NEW k \in Tasks, ~Known(k), tasks'[k].of # None
               PROVE  IsRecount(k)' /\ txn'[tasks'[k].of].status # "ABSENT"
    BY DEF TasksEntered
  <2>t. tasks \in [Tasks -> TaskRows] /\ tasks[k].of = None
    BY <1>1 DEF IInv, TypeOK, Work, TaskSource, IsRecount
  <2>1. tasks'[k] # tasks[k]
    BY <2>t
  <2>2. PICK t \in Txns, l \in Places :
          /\ txn[t].status # "ABSENT" /\ UNCHANGED txn
          /\ tasks' = [tasks EXCEPT ![k] = NewRecountTask(t, l)]
    BY <1>2, <2>t, <2>1 DEF TaskWritten, Completed, CompleteTask
  <2> QED BY <2>t, <2>2 DEF NewRecountTask, IsRecount, Known
<1>4. PostsKept /\ RowsEntered
  <2>1. ASSUME NEW t \in Txns, NEW i \in Inputs, NEW k \in Tasks \cup {None},
               NEW rk \in Tasks \cup {None}, CreateTransaction(t, i, k, rk)
        PROVE  PostsKept /\ RowsEntered
    <3> DEFINE x == [status |-> "PENDING", action |-> i.action,
                     quantity |-> i.quantity, source |-> i.source,
                     destination |-> i.destination, confirmed |-> FALSE,
                     posted |-> FALSE, task |-> k, recountTask |-> rk]
    <3>1. txn[t].status = "ABSENT" /\ txn' = [txn EXCEPT ![t] = x]
      BY <2>1 DEF CreateTransaction
    <3>2. txn'[t] = x /\ \A u \in Txns \ {t} : txn'[u] = txn[u]
      BY <1>1, <3>1 DEF IInv, TypeOK
    <3>3. k # None => /\ Known(k)
                      /\ <<tasks[k].type, i.action>> \in ExpectedActionByTask
      BY <2>1 DEF CreateTransaction, TaskAccepts, OpenTask, Known
    <3> QED BY <3>1, <3>2, <3>3 DEF PostsKept, RowsEntered
  <2>2. CASE RowWritten
    BY <1>1, <2>2, WrittenKeeps DEF IInv, RowsEntered
  <2> QED BY <1>1, <2>1, <2>2, EngineRows
<1>5. Work'
  BY <1>1, <1>2, <1>3, <1>4, KeepsWork
<1>6. ShippedBeforeCompleted'
  BY <1>1, <1>2, <1>4, CompletesShipped DEF QInv
<1>7. QueueType' /\ CallKnows' /\ Claims'
  BY <1>1, <1>2, <1>4, KeepsCalls, KeepsClaims DEF QInv, QueueType, queueVars
<1> QED BY <1>1, <1>5, <1>6, <1>7 DEF QInv

--------------------------------------------------------------------------------
(* What a step of the task queue does *)

(* A call that ends or goes on, and the others, stay well-formed.           *)
LEMMA CallWritten ==
  ASSUME QueueType, NEW a \in Calls, NEW x \in CallRecords,
         call' = [call EXCEPT ![a] = x]
  PROVE  /\ call' \in [Calls -> CallRecords]
         /\ call'[a] = x /\ \A b \in Calls \ {a} : call'[b] = call[b]
  BY DEF QueueType

(* Nothing but calls moves when the queue reads.                            *)
LEMMA SameTables ==
  ASSUME QInv, UNCHANGED vars
  PROVE  /\ IInv' /\ Work' /\ ShippedBeforeCompleted' /\ TasksKept /\ PostsKept
<1>1. IInv'
  BY StepIInv DEF QInv
<1>2. Work' /\ ShippedBeforeCompleted'
  BY DEF QInv, vars, Work, RowsWork, TaskSource, RecountTasks, HandlerWorks,
         IsRecount, Known, ShippedBeforeCompleted
<1>3. TasksKept /\ PostsKept
  BY DEF vars, TasksKept, PostsKept, Known
<1> QED BY <1>1, <1>2, <1>3

(* What the call of a knows is what the others go on knowing.               *)
LEMMA CallsKnow ==
  ASSUME IInv, QueueType, CallKnows, TasksKept, PostsKept,
         NEW a \in Calls, NEW x, call'[a] = x,
         \A b \in Calls \ {a} : call'[b] = call[b],
         x.step \in {"checkShipped", "change"} => Known(x.task)',
         x.step = "change" /\ x.status = "COMPLETED" /\ tasks'[x.task].type = "SHIP"
           => Shipped(x.task)',
         x.step = "cancel" /\ x.row # None => txn'[x.row].status # "ABSENT"
  PROVE  CallKnows'
<1> SUFFICES ASSUME NEW b \in Calls
             PROVE  /\ call'[b].step \in {"checkShipped", "change"} => Known(call[b].task)'
                    /\ /\ call'[b].step = "change" /\ call'[b].status = "COMPLETED"
                       /\ tasks'[call'[b].task].type = "SHIP"
                       => Shipped(call[b].task)'
                    /\ call'[b].step = "cancel" /\ call'[b].row # None =>
                         txn'[call'[b].row].status # "ABSENT"
  BY DEF CallKnows, Known, Shipped
<1>1. CASE b = a
  BY <1>1 DEF Known, Shipped
<1>2. CASE b # a
  <2>0. call'[b] = call[b]
    BY <1>2
  <2>1. CASE call[b].step \in {"checkShipped", "change"}
    <3>1. call[b].task \in Tasks
      BY <2>1 DEF QueueType, CallRecords, Free
    <3>2. Known(call[b].task) /\ Known(call[b].task)'
      BY <2>0, <2>1, <3>1 DEF CallKnows, TasksKept, Known
    <3>3. tasks'[call[b].task].type = tasks[call[b].task].type
      BY <3>1, <3>2 DEF TasksKept
    <3>4. Shipped(call[b].task) => Shipped(call[b].task)'
      BY <2>0, PostedStay, <3>1 DEF Shipped, IInv, PostedNotPending, PostsKept
    <3> QED BY <2>0, <2>1, <3>2, <3>3, <3>4 DEF CallKnows
  <2>2. CASE call[b].step = "cancel"
    <3>1. call[b].row \in Txns \cup {None}
      BY <2>2 DEF QueueType, CallRecords, Free
    <3> QED BY <2>0, <2>2, <3>1 DEF CallKnows, PostsKept
  <2> QED BY <2>0, <2>1, <2>2
<1> QED BY <1>1, <1>2

(* A request that only reads, and one that is dropped. *)
LEMMA ReadingQInv ==
  ASSUME QInv, NEW a \in Calls, NEW x \in CallRecords,
         call' = [call EXCEPT ![a] = x],
         UNCHANGED <<vars, assignee, plan, made, claimed, reassigned>>,
         x.step \in {"checkShipped", "change"} => Known(x.task),
         x.step = "change" /\ x.status = "COMPLETED" /\ tasks[x.task].type = "SHIP"
           => Shipped(x.task),
         x.step = "cancel" /\ x.row # None => txn[x.row].status # "ABSENT"
  PROVE  QInv'
<1>1. IInv' /\ Work' /\ ShippedBeforeCompleted' /\ TasksKept /\ PostsKept
  BY SameTables
<1>2. /\ call' \in [Calls -> CallRecords]
      /\ call'[a] = x /\ \A b \in Calls \ {a} : call'[b] = call[b]
  BY CallWritten DEF QInv
<1>3. CallKnows'
  <2>1. /\ x.step \in {"checkShipped", "change"} => Known(x.task)'
        /\ x.step = "change" /\ x.status = "COMPLETED" /\ tasks'[x.task].type = "SHIP"
             => Shipped(x.task)'
        /\ x.step = "cancel" /\ x.row # None => txn'[x.row].status # "ABSENT"
    BY DEF vars, Known, Shipped
  <2> QED BY <1>1, <1>2, <2>1, CallsKnow DEF QInv
<1>4. QueueType' /\ Claims'
  BY <1>1, <1>2, KeepsClaims DEF QInv, QueueType
<1> QED BY <1>1, <1>3, <1>4 DEF QInv

(* Each read, and what its call may rely on from then on. *)
LEMMA QueueReads ==
  ASSUME QInv, NEW a \in Calls,
         \/ \E k \in Tasks :
              \/ \E status \in {"IN_PROGRESS", "COMPLETED"}, who \in Workers \cup {Manager} :
                   ChangeRead(a, k, status, who)
              \/ \E w \in Workers : ReassignRead(a, k, w)
              \/ CancelTaskRead(a, k)
         \/ \E row \in NewTasks, w \in Workers : CreateTaskRead(a, row, w)
         \/ \E p \in Plans, w \in Workers : PlanRead(a, p, w)
         \/ CheckShipped(a)
         \/ Drop(a)
  PROVE  QInv'
<1>t. /\ call \in [Calls -> CallRecords] /\ txn \in [Txns -> TxnRows]
      /\ tasks \in [Tasks -> TaskRows]
  BY DEF QInv, QueueType, IInv, TypeOK
<1>1. ASSUME NEW k \in Tasks, NEW status \in {"IN_PROGRESS", "COMPLETED"},
             NEW who \in Workers \cup {Manager}, ChangeRead(a, k, status, who)
      PROVE  QInv'
  <2> DEFINE x == [step |-> IF tasks[k].type = "SHIP" /\ status = "COMPLETED"
                            THEN "checkShipped" ELSE "change",
                   task |-> k, unassigned |-> assignee[k] = None,
                   status |-> status, who |-> who]
  <2>1. x \in CallRecords
    BY DEF CallRecords
  <2>2. Known(k)
    BY <1>1 DEF ChangeRead, OpenTask, Known
  <2>3. /\ call' = [call EXCEPT ![a] = x]
        /\ UNCHANGED <<vars, assignee, plan, made, claimed, reassigned>>
    BY <1>1 DEF ChangeRead, Reading, Ask
  <2>4. x.step \in {"checkShipped", "change"} => Known(x.task)
    BY <2>2
  <2>5. ~(x.step = "change" /\ x.status = "COMPLETED" /\ tasks[x.task].type = "SHIP")
    OBVIOUS
  <2>6. x.step # "cancel"
    OBVIOUS
  <2> HIDE DEF x
  <2> QED BY <2>1, <2>3, <2>4, <2>5, <2>6, ReadingQInv
<1>2. ASSUME NEW k \in Tasks, NEW w \in Workers, ReassignRead(a, k, w)
      PROVE  QInv'
  <2> DEFINE x == [step |-> "reassign", task |-> k, who |-> w]
  <2>1. x \in CallRecords /\ x.step = "reassign"
    BY DEF CallRecords
  <2>2. /\ call' = [call EXCEPT ![a] = x]
        /\ UNCHANGED <<vars, assignee, plan, made, claimed, reassigned>>
    BY <1>2 DEF ReassignRead, Reading, Ask
  <2> HIDE DEF x
  <2> QED BY <2>1, <2>2, ReadingQInv
<1>3. ASSUME NEW k \in Tasks, CancelTaskRead(a, k)
      PROVE  QInv'
  <2>1. PICK t \in Txns \cup {None} :
          /\ IF tasks[k].of # None THEN t = tasks[k].of
             ELSE IF t = None THEN \A u \in Txns : ~Linked(k, u) ELSE Linked(k, t)
          /\ Reading(a, [step |-> "cancel", task |-> k, row |-> t,
                         hasCase |-> t # None /\ cases[t].status # "ABSENT"])
    BY <1>3 DEF CancelTaskRead
  <2> DEFINE x == [step |-> "cancel", task |-> k, row |-> t,
                   hasCase |-> t # None /\ cases[t].status # "ABSENT"]
  <2>2. x \in CallRecords /\ x.step = "cancel" /\ x.row = t
    BY DEF CallRecords
  <2>3. /\ call' = [call EXCEPT ![a] = x]
        /\ UNCHANGED <<vars, assignee, plan, made, claimed, reassigned>>
    BY <2>1 DEF Reading, Ask
  <2>4. t # None => txn[t].status # "ABSENT"
    <3>1. CASE tasks[k].of # None
      BY <2>1, <3>1 DEF QInv, Work, TaskSource
    <3>2. CASE tasks[k].of = None
      BY <2>1, <3>2 DEF Linked
    <3> QED BY <3>1, <3>2
  <2> HIDE DEF x
  <2> QED BY <2>2, <2>3, <2>4, ReadingQInv
<1>4. ASSUME NEW row \in NewTasks, NEW w \in Workers, CreateTaskRead(a, row, w)
      PROVE  QInv'
  <2> DEFINE x == [step |-> "create", new |-> row, who |-> w]
  <2>1. x \in CallRecords /\ x.step = "create"
    BY DEF CallRecords
  <2>2. /\ call' = [call EXCEPT ![a] = x]
        /\ UNCHANGED <<vars, assignee, plan, made, claimed, reassigned>>
    BY <1>4 DEF CreateTaskRead, Reading, Ask
  <2> HIDE DEF x
  <2> QED BY <2>1, <2>2, ReadingQInv
<1>5. ASSUME NEW p \in Plans, NEW w \in Workers, PlanRead(a, p, w)
      PROVE  QInv'
  <2> DEFINE x == [step |-> "plan", plan |-> p, who |-> w,
                   todo |-> Uncounted(p, Selected[p])]
  <2>1. Uncounted(p, Selected[p]) \in SUBSET Locations
    BY TaskQueueAssumption DEF Uncounted
  <2>2. x \in CallRecords /\ x.step = "plan"
    BY <2>1 DEF CallRecords
  <2>3. /\ call' = [call EXCEPT ![a] = x]
        /\ UNCHANGED <<vars, assignee, plan, made, claimed, reassigned>>
    BY <1>5 DEF PlanRead, Reading, Ask
  <2> HIDE DEF x
  <2> QED BY <2>2, <2>3, ReadingQInv
<1>6. CASE CheckShipped(a)
  <2> DEFINE x == [call[a] EXCEPT !.step = "change"]
  <2>1. call[a].step = "checkShipped" /\ call[a] \in CallRecords
    BY <1>t, <1>6 DEF CheckShipped, Waiting
  <2>2. x \in CallRecords /\ x.step = "change" /\ x.task = call[a].task
    BY <2>1 DEF CallRecords, Free
  <2>3. /\ call' = [call EXCEPT ![a] = x]
        /\ UNCHANGED <<vars, assignee, plan, made, claimed, reassigned>>
    BY <1>6 DEF CheckShipped
  <2>4. Known(x.task)
    BY <2>1, <2>2 DEF QInv, CallKnows
  <2>5. Shipped(x.task)
    BY <1>6, <2>2 DEF CheckShipped, Shipped, QInv, Work, RowsWork
  <2> HIDE DEF x
  <2> QED BY <2>2, <2>3, <2>4, <2>5, ReadingQInv
<1>7. CASE Drop(a)
  <2>1. Free \in CallRecords /\ Free.step = "free"
    BY DEF CallRecords, Free
  <2>2. /\ call' = [call EXCEPT ![a] = Free]
        /\ UNCHANGED <<vars, assignee, plan, made, claimed, reassigned>>
    BY <1>7 DEF Drop, Answer
  <2> QED BY <2>1, <2>2, ReadingQInv
<1> QED BY <1>1, <1>2, <1>3, <1>4, <1>5, <1>6, <1>7

(* Tasks that are written, and only tasks, leave the engine's part as it is. *)
LEMMA TasksIInv ==
  ASSUME IInv, tasks' \in [Tasks -> TaskRows], UNCHANGED <<stock, txn, cases, draft, handler>>
  PROVE  IInv'
  BY DEF IInv, TypeOK, HandlerKnows, RowsPlaced, PostedNotPending

(* A call that wrote tasks, and no other row, has ended.                    *)
LEMMA TasksWritten ==
  ASSUME QInv, NEW a \in Calls, Answer(a),
         UNCHANGED <<stock, txn, cases, draft, handler>>,
         tasks' \in [Tasks -> TaskRows], TasksKept,
         \A k \in Tasks : ~Known(k) => tasks'[k].of = None,
         \A k \in Tasks : tasks'[k].type = "SHIP" /\ tasks'[k].status = "COMPLETED"
           => Shipped(k)
  PROVE  /\ IInv' /\ Work' /\ ShippedBeforeCompleted' /\ CallKnows' /\ PostsKept
         /\ call' \in [Calls -> CallRecords]
<1>1. IInv /\ IInv' /\ Work
  BY TasksIInv DEF QInv
<1>2. PostsKept /\ RowsEntered
  BY DEF PostsKept, RowsEntered
<1>3. TasksEntered /\ CaseLinked /\ HandlerMoved
  BY DEF TasksEntered, CaseLinked, HandlerMoved
<1>4. Work'
  BY <1>1, <1>2, <1>3, KeepsWork
<1>5. ShippedBeforeCompleted'
  BY DEF ShippedBeforeCompleted, Shipped
<1>6. Free \in CallRecords /\ Free.step = "free"
  BY DEF CallRecords, Free
<1>7. /\ call' \in [Calls -> CallRecords]
      /\ call'[a] = Free /\ \A b \in Calls \ {a} : call'[b] = call[b]
  BY <1>6, CallWritten DEF QInv, Answer
<1>8. CallKnows'
  BY <1>1, <1>2, <1>6, <1>7, CallsKnow DEF QInv
<1> QED BY <1>1, <1>2, <1>4, <1>5, <1>7, <1>8

(* A task that is started or completed: it was in use, and shipped if it is *)
(* a shipping task that is completed.                                       *)
LEMMA StatusSet ==
  ASSUME QInv, NEW a \in Calls, Waiting(a, "change"), Answer(a),
         SetStatus(call[a].task, call[a].status),
         UNCHANGED <<stock, txn, cases, draft, handler>>
  PROVE  /\ IInv' /\ Work' /\ ShippedBeforeCompleted' /\ CallKnows' /\ TasksKept
         /\ call' \in [Calls -> CallRecords]
         /\ call[a].task \in Tasks /\ Known(call[a].task)
         /\ call[a].who \in Workers \cup {Manager}
<1> DEFINE k == call[a].task
           x == [tasks[k] EXCEPT !.status = call[a].status]
<1>1. /\ k \in Tasks /\ call[a].who \in Workers \cup {Manager}
      /\ call[a].status \in {"IN_PROGRESS", "COMPLETED"}
  BY DEF QInv, QueueType, Waiting, CallRecords, Free
<1>2. Known(k)
  BY DEF QInv, CallKnows, Waiting
<1>3. tasks \in [Tasks -> TaskRows] /\ tasks[k] \in TaskRows
  BY <1>1 DEF QInv, IInv, TypeOK
<1>4. /\ x \in TaskRows /\ x.status = call[a].status
      /\ x.type = tasks[k].type /\ x.of = tasks[k].of
  BY <1>1, <1>3 DEF TaskRows, TaskStatus
<1>5. tasks' = [tasks EXCEPT ![k] = x]
  BY DEF SetStatus
<1>6. x.type = "SHIP" /\ x.status = "COMPLETED" => Shipped(k)
  BY <1>1, <1>4 DEF QInv, CallKnows, Waiting
<1>7. call[a].status # "ABSENT"
  BY <1>1
<1> HIDE DEF x
<1>8. tasks' \in [Tasks -> TaskRows] /\ TasksKept
  BY <1>1, <1>2, <1>3, <1>4, <1>5, <1>7 DEF TasksKept, Known
<1>9. \A j \in Tasks : ~Known(j) => tasks'[j].of = None
  BY <1>1, <1>2, <1>3, <1>5 DEF QInv, Work, TaskSource, IsRecount, Known
<1>10. \A j \in Tasks : tasks'[j].type = "SHIP" /\ tasks'[j].status = "COMPLETED"
          => Shipped(j)
  BY <1>1, <1>3, <1>5, <1>6 DEF QInv, ShippedBeforeCompleted, Shipped
<1> QED BY <1>1, <1>2, <1>8, <1>9, <1>10, TasksWritten

(* The first to start an unassigned task finds no earlier claim on it. *)
LEMMA ClaimQInv ==
  ASSUME QInv, NEW a \in Calls, Claim(a)
  PROVE  QInv'
<1> DEFINE k == call[a].task
           w == call[a].who
<1>1. /\ IInv' /\ Work' /\ ShippedBeforeCompleted' /\ CallKnows' /\ TasksKept
      /\ call' \in [Calls -> CallRecords]
      /\ k \in Tasks /\ Known(k) /\ w \in Workers \cup {Manager}
  BY StatusSet DEF Claim, Begun
<1>2. /\ assignee[k] = None /\ assignee' = [assignee EXCEPT ![k] = w]
      /\ claimed' = [claimed EXCEPT ![k] = @ \cup {w}]
      /\ UNCHANGED <<plan, made, reassigned>>
  BY DEF Claim
<1>3. claimed[k] = {}
  BY <1>1, <1>2 DEF QInv, Claims
<1>4. /\ assignee'[k] = w /\ claimed'[k] = {w}
      /\ \A j \in Tasks \ {k} : assignee'[j] = assignee[j] /\ claimed'[j] = claimed[j]
  BY <1>1, <1>2, <1>3 DEF QInv, QueueType
<1>5. QueueType'
  BY <1>1, <1>2 DEF QInv, QueueType
<1>6. w # None
  BY <1>1, TaskQueueAssumption
<1>7. Claims'
  <2> SUFFICES ASSUME NEW j \in Tasks
               PROVE  /\ claimed'[j] # {} => Known(j)' /\ assignee'[j] # None
                      /\ \A v, u \in claimed'[j] : v = u
                      /\ j \notin reassigned => claimed'[j] \subseteq {assignee'[j]}
    BY <1>2 DEF Claims, Known
  <2>1. CASE j = k
    BY <1>1, <1>4, <1>6, <2>1 DEF TasksKept
  <2>2. CASE j # k
    BY <1>1, <1>4, <2>2 DEF TasksKept, QInv, Claims
  <2> QED BY <2>1, <2>2
<1> QED BY <1>1, <1>5, <1>7 DEF QInv

(* The status of an assigned task disturbs no claim. *)
LEMMA ChangeStatusQInv ==
  ASSUME QInv, NEW a \in Calls, ChangeStatus(a)
  PROVE  QInv'
<1>1. /\ IInv' /\ Work' /\ ShippedBeforeCompleted' /\ CallKnows' /\ TasksKept
      /\ call' \in [Calls -> CallRecords]
  BY StatusSet DEF ChangeStatus, Begun
<1>2. UNCHANGED <<assignee, plan, made, claimed, reassigned>>
  BY DEF ChangeStatus
<1> QED BY <1>1, <1>2, KeepsClaims DEF QInv, QueueType

(* A reassigned task is somebody's, and is marked as given away. *)
LEMMA ReassignQInv ==
  ASSUME QInv, NEW a \in Calls, Reassign(a)
  PROVE  QInv'
<1> DEFINE k == call[a].task
           w == call[a].who
<1>1. k \in Tasks /\ w \in Workers /\ w # None
  BY TaskQueueAssumption DEF QInv, QueueType, Reassign, Waiting, CallRecords, Free
<1>2. /\ assignee' = [assignee EXCEPT ![k] = w] /\ reassigned' = reassigned \cup {k}
      /\ UNCHANGED <<vars, plan, made, claimed>> /\ call' = [call EXCEPT ![a] = Free]
  BY DEF Reassign, Answer
<1>3. /\ IInv' /\ Work' /\ ShippedBeforeCompleted' /\ TasksKept /\ PostsKept
  BY <1>2, SameTables
<1>4. Free \in CallRecords /\ Free.step = "free"
  BY DEF CallRecords, Free
<1>5. /\ call' \in [Calls -> CallRecords]
      /\ call'[a] = Free /\ \A b \in Calls \ {a} : call'[b] = call[b]
  BY <1>2, <1>4, CallWritten DEF QInv
<1>6. CallKnows'
  BY <1>3, <1>4, <1>5, CallsKnow DEF QInv
<1>7. QueueType'
  BY <1>1, <1>2, <1>5 DEF QInv, QueueType
<1>8. Claims'
  BY <1>1, <1>2, <1>3 DEF QInv, QueueType, Claims, TasksKept
<1> QED BY <1>3, <1>6, <1>7, <1>8 DEF QInv

(* A new task takes a row that nobody has claimed. *)
LEMMA CreateTaskQInv ==
  ASSUME QInv, NEW a \in Calls, NEW k \in Tasks, CreateTask(a, k)
  PROVE  QInv'
<1> DEFINE x == call[a].new
           w == call[a].who
<1>1. x \in NewTasks /\ w \in Workers
  BY DEF QInv, QueueType, CreateTask, Waiting, CallRecords, Free
<1>2. x \in TaskRows /\ x.status = "OPEN" /\ x.of = None
  BY <1>1, TaskQueueAssumption
<1>3. /\ ~Known(k) /\ tasks' = [tasks EXCEPT ![k] = x]
      /\ assignee' = [assignee EXCEPT ![k] = w] /\ Answer(a)
      /\ UNCHANGED <<stock, txn, cases, draft, handler, plan, made, claimed, reassigned>>
  BY DEF CreateTask, Known
<1>4. tasks \in [Tasks -> TaskRows]
  BY DEF QInv, IInv, TypeOK
<1> HIDE DEF x
<1>5. tasks' \in [Tasks -> TaskRows] /\ TasksKept
  BY <1>2, <1>3, <1>4 DEF TasksKept, Known
<1>6. \A j \in Tasks : ~Known(j) => tasks'[j].of = None
  BY <1>2, <1>3, <1>4 DEF QInv, Work, TaskSource, IsRecount
<1>7. \A j \in Tasks : tasks'[j].type = "SHIP" /\ tasks'[j].status = "COMPLETED"
         => Shipped(j)
  BY <1>2, <1>3, <1>4 DEF QInv, ShippedBeforeCompleted, Shipped
<1>8. /\ IInv' /\ Work' /\ ShippedBeforeCompleted' /\ CallKnows'
      /\ call' \in [Calls -> CallRecords]
  BY <1>3, <1>5, <1>6, <1>7, TasksWritten
<1>9. QueueType'
  BY <1>1, <1>3, <1>8 DEF QInv, QueueType
<1>10. Claims'
  <2>1. claimed[k] = {}
    BY <1>3 DEF QInv, Claims
  <2>2. \A j \in Tasks \ {k} : assignee'[j] = assignee[j]
    BY <1>3 DEF QInv, QueueType
  <2> QED BY <1>3, <1>5, <2>1, <2>2 DEF QInv, Claims, TasksKept
<1> QED BY <1>8, <1>9, <1>10 DEF QInv

(* The planned tasks take rows that are not in use. *)
LEMMA MakePlanQInv ==
  ASSUME QInv, NEW a \in Calls, MakePlan(a)
  PROVE  QInv'
<1> DEFINE p == call[a].plan
           rows == Inserted(p, call[a].todo)
           Row(l) == [status |-> "OPEN", type |-> "CYCLE_COUNT", to |-> None,
                      of |-> None, from |-> l]
<1>1. /\ p \in Plans /\ call[a].who \in Workers /\ rows \subseteq Locations
  <2>1. /\ p \in Plans /\ call[a].who \in Workers /\ call[a].todo \subseteq Locations
    BY DEF QInv, QueueType, MakePlan, Waiting, CallRecords, Free
  <2> QED BY <2>1 DEF Inserted, Uncounted
<1>2. \A l \in Locations : Row(l) \in TaskRows
  BY DEF TaskRows, TaskStatus, TaskTypes, Places
<1>3. PICK new \in [rows -> {k \in Tasks : tasks[k].status = "ABSENT"}] :
        /\ tasks' = [k \in Tasks |->
             IF \E l \in rows : new[l] = k
             THEN Row(CHOOSE l \in rows : new[l] = k) ELSE tasks[k]]
        /\ plan' = [k \in Tasks |-> IF \E l \in rows : new[l] = k THEN p ELSE plan[k]]
        /\ assignee' = [k \in Tasks |->
             IF \E l \in rows : new[l] = k THEN call[a].who ELSE assignee[k]]
  BY DEF MakePlan
<1>4. /\ Answer(a) /\ made' = made \cup {p}
      /\ UNCHANGED <<stock, txn, cases, draft, handler, claimed, reassigned>>
  BY DEF MakePlan, WithPlan
<1>5. tasks \in [Tasks -> TaskRows]
  BY DEF QInv, IInv, TypeOK
<1>6. \A k \in Tasks :
        \/ tasks'[k] = tasks[k] /\ assignee'[k] = assignee[k]
        \/ ~Known(k) /\ \E l \in Locations : tasks'[k] = Row(l)
  <2> SUFFICES ASSUME NEW k \in Tasks
               PROVE  \/ tasks'[k] = tasks[k] /\ assignee'[k] = assignee[k]
                      \/ ~Known(k) /\ \E l \in Locations : tasks'[k] = Row(l)
    OBVIOUS
  <2> HIDE DEF rows, Row
  <2>1. CASE \E l \in rows : new[l] = k
    <3>1. (CHOOSE l \in rows : new[l] = k) \in rows
      BY <2>1
    <3> QED BY <1>1, <1>3, <2>1, <3>1 DEF Known
  <2>2. CASE ~\E l \in rows : new[l] = k
    BY <1>3, <2>2
  <2> QED BY <2>1, <2>2
<1>7. \A l \in Locations : Row(l).status = "OPEN" /\ Row(l).of = None
  OBVIOUS
<1>8. tasks' = [k \in Tasks |-> tasks'[k]]
  BY <1>3
<1>9. /\ plan' \in [Tasks -> made' \cup {None}]
      /\ assignee' \in [Tasks -> Workers \cup {Manager, None}]
  <2> HIDE DEF rows
  <2> QED BY <1>1, <1>3, <1>4 DEF QInv, QueueType
<1> HIDE DEF rows, Row
<1>10. tasks' \in [Tasks -> TaskRows]
  <2>1. \A k \in Tasks : tasks'[k] \in TaskRows
    BY <1>2, <1>5, <1>6
  <2> QED BY <1>8, <2>1
<1>11. TasksKept
  BY <1>6 DEF TasksKept, Known
<1>12. \A j \in Tasks : ~Known(j) => tasks'[j].of = None
  BY <1>6, <1>7 DEF QInv, Work, TaskSource, IsRecount
<1>13. \A j \in Tasks : tasks'[j].type = "SHIP" /\ tasks'[j].status = "COMPLETED"
          => Shipped(j)
  BY <1>6, <1>7 DEF QInv, ShippedBeforeCompleted, Shipped
<1>14. /\ IInv' /\ Work' /\ ShippedBeforeCompleted' /\ CallKnows'
       /\ call' \in [Calls -> CallRecords]
  BY <1>4, <1>10, <1>11, <1>12, <1>13, TasksWritten
<1>15. QueueType'
  BY <1>1, <1>4, <1>9, <1>14 DEF QInv, QueueType
<1>16. Claims'
  <2> SUFFICES ASSUME NEW j \in Tasks
               PROVE  /\ claimed[j] # {} => Known(j)' /\ assignee'[j] # None
                      /\ \A v, u \in claimed[j] : v = u
                      /\ j \notin reassigned => claimed[j] \subseteq {assignee'[j]}
    BY <1>4 DEF Claims, Known
  <2>1. claimed[j] # {} => Known(j) /\ assignee'[j] = assignee[j]
    BY <1>6 DEF QInv, Claims
  <2> QED BY <1>11, <2>1 DEF QInv, Claims, TasksKept
<1> QED BY <1>14, <1>15, <1>16 DEF QInv

(* A cancelled task takes its transaction and its case with it. *)
LEMMA CancelTaskRows ==
  ASSUME QInv, NEW a \in Calls, CancelTask(a)
  PROVE  /\ txn' \in [Txns -> TxnRows] /\ RowsKept /\ PostedNotPending'
         /\ PostsKept /\ (\A t \in Txns : txn[t].status = "ABSENT" => txn'[t] = txn[t])
         /\ \A u \in Txns : txn'[u].posted <=> txn[u].posted
<1> DEFINE t == call[a].row
<1>1. t \in Txns \cup {None} /\ (t # None => txn[t].status # "ABSENT") /\ IInv
  BY DEF QInv, QueueType, CallKnows, CancelTask, Waiting, CallRecords, Free
<1>2. CASE t = None
  <2>1. UNCHANGED txn
    BY <1>2 DEF CancelTask
  <2> QED BY <1>1, <2>1, SameRowsKeep DEF PostsKept
<1>3. CASE t # None
  <2>1. t \in Txns /\ txn' = [txn EXCEPT ![t].status = "CANCELLED"]
    BY <1>1, <1>3 DEF CancelTask
  <2>2. txn' \in [Txns -> TxnRows] /\ RowsKept /\ PostedNotPending'
    BY <1>1, <1>3, <2>1, StatusWriteKeeps
  <2>3. \A u \in Txns : txn'[u].posted <=> txn[u].posted
    BY <1>1, <2>1, PostedRows
  <2>4. RowWritten
    BY <1>1, <1>3, <2>1 DEF RowWritten
  <2> QED BY <1>1, <2>2, <2>3, <2>4, WrittenKeeps DEF IInv
<1> QED BY <1>2, <1>3

(* The cancelled rows keep what everybody relies on. *)
LEMMA CancelTaskQInv ==
  ASSUME QInv, NEW a \in Calls, CancelTask(a)
  PROVE  QInv'
<1> DEFINE t == call[a].row
           k == call[a].task
<1>1. /\ t \in Txns \cup {None} /\ k \in Tasks /\ IInv /\ TypeOK /\ Work
  BY DEF QInv, QueueType, IInv, CancelTask, Waiting, CallRecords, Free
<1>2. /\ Answer(a) /\ UNCHANGED <<stock, draft, handler, assignee, plan, made,
                                 claimed, reassigned>>
      /\ tasks' = [tasks EXCEPT ![k] = [tasks[k] EXCEPT !.status = "CANCELLED"]]
      /\ \/ UNCHANGED cases
         \/ cases' = [cases EXCEPT ![t] = [cases[t] EXCEPT !.status = "CLOSED"]]
  BY DEF CancelTask, SetStatus
<1>3. /\ txn' \in [Txns -> TxnRows] /\ RowsKept /\ PostedNotPending'
      /\ PostsKept /\ (\A u \in Txns : txn[u].status = "ABSENT" => txn'[u] = txn[u])
  BY CancelTaskRows
<1>4. /\ tasks' \in [Tasks -> TaskRows] /\ TasksKept /\ TasksEntered
      /\ \A j \in Tasks : tasks'[j].status = "COMPLETED" => tasks'[j] = tasks[j]
  <2> DEFINE x == [tasks[k] EXCEPT !.status = "CANCELLED"]
  <2>1. tasks \in [Tasks -> TaskRows] /\ tasks[k] \in TaskRows
    BY <1>1 DEF TypeOK
  <2>2. /\ x \in TaskRows /\ x.status = "CANCELLED"
        /\ x.type = tasks[k].type /\ x.of = tasks[k].of
    BY <2>1 DEF TaskRows, TaskStatus
  <2>3. tasks' = [tasks EXCEPT ![k] = x]
    BY <1>2
  <2> HIDE DEF x
  <2>4. /\ tasks'[k] = x /\ \A j \in Tasks \ {k} : tasks'[j] = tasks[j]
    BY <1>1, <2>1, <2>3
  <2>5. tasks' \in [Tasks -> TaskRows]
    BY <2>1, <2>2, <2>3
  <2>6. TasksKept
    BY <2>2, <2>4 DEF TasksKept, Known
  <2>7. TasksEntered
    BY <1>1, <2>2, <2>4 DEF TasksEntered, Work, TaskSource, IsRecount
  <2> QED BY <2>2, <2>4, <2>5, <2>6, <2>7
<1>5. cases' \in [Txns -> CaseRows] /\ CaseLinked
  <2>1. cases \in [Txns -> CaseRows]
    BY <1>1 DEF TypeOK
  <2>2. CASE UNCHANGED cases
    BY <2>1, <2>2 DEF CaseLinked
  <2>3. ASSUME cases' = [cases EXCEPT ![t] = [cases[t] EXCEPT !.status = "CLOSED"]],
               t \in Txns
        PROVE  cases' \in [Txns -> CaseRows] /\ CaseLinked
    <3> DEFINE x == [cases[t] EXCEPT !.status = "CLOSED"]
    <3>1. cases[t] \in CaseRows
      BY <2>1, <2>3
    <3>2. x \in CaseRows /\ x.recountTask = cases[t].recountTask
      BY <3>1 DEF CaseRows, CaseStatus
    <3>3. cases' = [cases EXCEPT ![t] = x]
      BY <2>3
    <3> HIDE DEF x
    <3> QED BY <2>1, <3>2, <3>3 DEF CaseLinked
  <2>4. ASSUME cases' = [cases EXCEPT ![t] = [cases[t] EXCEPT !.status = "CLOSED"]],
               t = None
        PROVE  cases' \in [Txns -> CaseRows] /\ CaseLinked
    <3>1. t \notin Txns
      BY <2>4, EngineAssumption
    <3>2. cases' = cases
      BY <2>1, <2>4, <3>1
    <3> QED BY <2>2, <3>2
  <2> QED BY <1>1, <1>2, <2>2, <2>3, <2>4
<1>6. IInv'
  <2>1. HandlerKnows' /\ RowsPlaced'
    BY <1>1, <1>2, <1>3, KeptRows DEF IInv, HandlerKnows, RowsKept
  <2>2. TypeOK'
    BY <1>1, <1>2, <1>3, <1>4, <1>5 DEF TypeOK
  <2> QED BY <1>3, <2>1, <2>2 DEF IInv
<1>7. Work'
  <2>1. RowsEntered
    BY <1>3 DEF RowsEntered
  <2>2. HandlerMoved
    BY <1>2 DEF HandlerMoved
  <2> QED BY <1>1, <1>3, <1>4, <1>5, <1>6, <2>1, <2>2, KeepsWork
<1>8. ShippedBeforeCompleted'
  <2> SUFFICES ASSUME NEW j \in Tasks, tasks'[j].type = "SHIP",
                      tasks'[j].status = "COMPLETED"
               PROVE  Shipped(j)'
    BY DEF ShippedBeforeCompleted, Shipped
  <2>1. Shipped(j)
    BY <1>4 DEF QInv, ShippedBeforeCompleted, Shipped
  <2> QED BY <1>1, <1>3, <2>1, PostedStay
<1>9. Free \in CallRecords /\ Free.step = "free"
  BY DEF CallRecords, Free
<1>10. /\ call' \in [Calls -> CallRecords]
       /\ call'[a] = Free /\ \A b \in Calls \ {a} : call'[b] = call[b]
  BY <1>2, <1>9, CallWritten DEF QInv, Answer
<1>11. CallKnows'
  BY <1>1, <1>3, <1>4, <1>9, <1>10, CallsKnow DEF QInv
<1>12. QueueType' /\ Claims'
  BY <1>2, <1>4, <1>10, KeepsClaims DEF QInv, QueueType
<1> QED BY <1>6, <1>7, <1>8, <1>11, <1>12 DEF QInv

--------------------------------------------------------------------------------
(* The theorems *)

(* At the start there is nothing to rely on. *)
LEMMA InitQInv == TaskInit => QInv
<1> SUFFICES ASSUME TaskInit PROVE QInv
  OBVIOUS
<1>1. IInv
  BY InitIInv DEF TaskInit
<1>2. /\ \A t \in Txns : txn[t].status = "ABSENT" /\ cases[t].recountTask = None
      /\ tasks = InitialTasks
      /\ \A r \in Requests : handler[r].step = "idle"
  BY DEF TaskInit, Init, NoTxn, NoCase, Idle
<1>3. Work
  BY <1>2, FreshAssumption
     DEF Work, RowsWork, TaskSource, RecountTasks, HandlerWorks
<1>4. ShippedBeforeCompleted
  BY <1>2, FreshAssumption DEF ShippedBeforeCompleted
<1>5. Free \in CallRecords /\ Free.step = "free"
  BY DEF CallRecords, Free
<1>6. QueueType
  <2>1. assignee \in [Tasks -> Workers \cup {None}]
    BY TaskQueueAssumption DEF TaskInit
  <2> QED BY <1>5, <2>1 DEF QueueType, TaskInit
<1>7. CallKnows /\ Claims
  BY <1>5 DEF CallKnows, Claims, TaskInit
<1> QED BY <1>1, <1>3, <1>4, <1>6, <1>7 DEF QInv

(* Every step of the two services keeps the invariant. *)
LEMMA StepQInv == QInv /\ [TaskNext]_taskVars => QInv'
<1> SUFFICES ASSUME QInv, [TaskNext]_taskVars PROVE QInv'
  OBVIOUS
<1>1. CASE (Next /\ UNCHANGED queueVars) \/ UNCHANGED taskVars
  BY <1>1, EngineQInv DEF taskVars
<1>2. ASSUME QueueNext PROVE QInv'
  BY <1>2, QueueReads, ClaimQInv, ChangeStatusQInv, ReassignQInv, CancelTaskQInv,
     CreateTaskQInv, MakePlanQInv DEF QueueNext
<1> QED BY <1>1, <1>2 DEF TaskNext

(* One user at most is told that an unassigned task is theirs now, and it   *)
(* stays theirs until a manager gives it away, however many people start    *)
(* it, and whatever the engine and the other calls do meanwhile.            *)
THEOREM FirstClaimWins == TaskSpec => []ClaimIsKept
<1>1. QInv => ClaimIsKept
  <2> SUFFICES ASSUME QInv, NEW k \in Tasks
               PROVE  /\ Cardinality(claimed[k]) <= 1
                      /\ k \notin reassigned => claimed[k] \subseteq {assignee[k]}
    BY DEF ClaimIsKept
  <2>1. \A v, w \in claimed[k] : v = w
    BY DEF QInv, Claims
  <2>2. CASE claimed[k] = {}
    BY <2>2, FS_EmptySet
  <2>3. ASSUME NEW w \in claimed[k] PROVE Cardinality(claimed[k]) <= 1
    <3>1. claimed[k] = {w}
      BY <2>1, <2>3
    <3>2. Cardinality({w}) = 1
      BY FS_Singleton
    <3> QED BY <3>1, <3>2
  <2> QED BY <2>2, <2>3 DEF QInv, Claims
<1> QED BY InitQInv, StepQInv, <1>1, PTL DEF TaskSpec

(* A completed shipping task has its shipment in the balances, whichever    *)
(* service completed it and whatever was cancelled in between.              *)
THEOREM ShipmentBeforeCompletion == TaskSpec => []ShippedBeforeCompleted
<1>1. QInv => ShippedBeforeCompleted
  BY DEF QInv
<1> QED BY InitQInv, StepQInv, <1>1, PTL DEF TaskSpec

(* Rows, calls and claims keep their shape. *)
THEOREM TasksTypeCorrect == TaskSpec => []TasksTypeOK
<1>1. QInv => TasksTypeOK
  BY DEF QInv, IInv, QueueType, TasksTypeOK
<1> QED BY InitQInv, StepQInv, <1>1, PTL DEF TaskSpec

(* A step of the queue moves no balance, enters no row and posts none. *)
LEMMA QueueStutters ==
  ASSUME QInv, QueueNext
  PROVE  RowsKept /\ UNCHANGED Ledger!ledgerVars
<1>1. ASSUME UNCHANGED <<stock, txn>> PROVE RowsKept /\ UNCHANGED Ledger!ledgerVars
  BY <1>1, SameRowsKeep, RestStutters DEF QInv
<1>2. ASSUME NEW a \in Calls, CancelTask(a)
      PROVE  RowsKept /\ UNCHANGED Ledger!ledgerVars
  <2>1. UNCHANGED stock
    BY <1>2 DEF CancelTask
  <2> QED BY <1>2, <2>1, CancelTaskRows, RestStutters
<1>3. ASSUME NEW a \in Calls, NEW request, Reading(a, request) \/ Drop(a)
      PROVE  UNCHANGED <<stock, txn>>
  BY <1>3 DEF Reading, Drop, vars
<1>4. ASSUME NEW a \in Calls,
             \/ CheckShipped(a) \/ Claim(a) \/ ChangeStatus(a) \/ Reassign(a)
             \/ (\E k \in Tasks : CreateTask(a, k)) \/ MakePlan(a)
      PROVE  UNCHANGED <<stock, txn>>
  <2>1. CASE CheckShipped(a) \/ Reassign(a)
    BY <2>1 DEF CheckShipped, Reassign, vars
  <2>2. CASE Claim(a) \/ ChangeStatus(a) \/ \E k \in Tasks : CreateTask(a, k)
    BY <2>2 DEF Claim, ChangeStatus, CreateTask
  <2>3. CASE MakePlan(a)
    BY <2>3 DEF MakePlan
  <2> QED BY <1>4, <2>1, <2>2, <2>3
<1>5. ASSUME NEW a \in Calls,
             \/ \E k \in Tasks :
                  \/ \E status \in {"IN_PROGRESS", "COMPLETED"},
                        who \in Workers \cup {Manager} : ChangeRead(a, k, status, who)
                  \/ \E w \in Workers : ReassignRead(a, k, w)
                  \/ CancelTaskRead(a, k)
             \/ \E row \in NewTasks, w \in Workers : CreateTaskRead(a, row, w)
             \/ \E p \in Plans, w \in Workers : PlanRead(a, p, w)
      PROVE  UNCHANGED <<stock, txn>>
  BY <1>3, <1>5 DEF ChangeRead, ReassignRead, CancelTaskRead, CreateTaskRead, PlanRead
<1> QED BY <1>1, <1>2, <1>3, <1>4, <1>5 DEF QueueNext

(* The engine implements the ledger also while the task queue writes its    *)
(* rows: a transaction whose status a cancelled task has overwritten does   *)
(* not reach the balances a second time.                                    *)
THEOREM QueueImplementsLedger == TaskSpec => LedgerSpec
<1>1. TaskInit => Ledger!Init /\ RowQuantities
  BY InitLedger DEF TaskInit, Init, RowQuantities, NoTxn
<1>2. ASSUME QInv, RowQuantities, [TaskNext]_taskVars
      PROVE  [Ledger!Next]_(Ledger!ledgerVars) /\ RowQuantities'
  <2>1. CASE [Next]_vars
    BY <1>2, <2>1, StepLedger, StepQuantities DEF QInv
  <2>2. CASE QueueNext
    BY <1>2, <2>2, QueueStutters DEF RowQuantities, RowsKept
  <2> QED BY <1>2, <2>1, <2>2 DEF TaskNext, taskVars
<1>3. QInv /\ RowQuantities /\ [TaskNext]_taskVars
        => [Ledger!Next]_(Ledger!ledgerVars) /\ RowQuantities'
  BY <1>2
<1> QED BY InitQInv, StepQInv, <1>1, <1>3, PTL
        DEF TaskSpec, LedgerSpec, Ledger!Spec

--------------------------------------------------------------------------------
(* Cycle-count plans *)

(* A planned task is in use; a location that a request left out of its plan *)
(* has a counting task in the period.                                       *)
PlanFacts ==
  /\ \A k \in Tasks : plan[k] # None => Known(k)
  /\ \A a \in Calls : call[a].step = "plan" =>
       \A l \in Selected[call[a].plan] \ call[a].todo :
         CountedIn(Period[call[a].plan], l)

(* A task in use stays in use where it is; one in a plan stays in it.       *)
PlansKept ==
  \A k \in Tasks :
    /\ Known(k) => Known(k)' /\ tasks'[k].from = tasks[k].from
    /\ plan[k] # None => plan'[k] = plan[k]

(* What is counted in a period stays counted. *)
LEMMA CountedStays ==
  ASSUME PlanFacts, PlansKept, NEW month, NEW l, CountedIn(month, l)
  PROVE  CountedIn(month, l)'
<1>1. PICK k \in Tasks : plan[k] # None /\ Period[plan[k]] = month /\ tasks[k].from = l
  BY DEF CountedIn
<1>2. plan'[k] = plan[k] /\ tasks'[k].from = l
  BY <1>1 DEF PlanFacts, PlansKept
<1> QED BY <1>1, <1>2 DEF CountedIn

(* A step that makes no plan and no request for one keeps them. *)
LEMMA OldPlans ==
  ASSUME PlanFacts, PlannedIsCounted, PlansKept, UNCHANGED <<plan, made>>,
         \A a \in Calls : call'[a].step = "plan" => call'[a] = call[a]
  PROVE  PlanFacts' /\ PlannedIsCounted'
<1>1. \A month, l : CountedIn(month, l) => CountedIn(month, l)'
  BY CountedStays
<1>2. PlanFacts'
  <2>1. \A k \in Tasks : plan'[k] # None => Known(k)'
    BY DEF PlanFacts, PlansKept
  <2>2. ASSUME NEW a \in Calls, call'[a].step = "plan",
               NEW l \in Selected[call'[a].plan] \ call'[a].todo
        PROVE  CountedIn(Period[call'[a].plan], l)
    BY <2>2 DEF PlanFacts
  <2>3. \A a \in Calls : call'[a].step = "plan" =>
          \A l \in Selected[call'[a].plan] \ call'[a].todo :
            CountedIn(Period[call[a].plan], l)'
    BY <1>1, <2>2 DEF CountedIn
  <2> QED BY <2>1, <2>3 DEF PlanFacts
<1>3. PlannedIsCounted'
  BY <1>1 DEF PlannedIsCounted
<1> QED BY <1>2, <1>3

(* Every write of a task leaves those in use where they are.                *)
LEMMA OneTaskMoves ==
  ASSUME QInv, NEW k \in Tasks, NEW x, tasks' = [tasks EXCEPT ![k] = x],
         Known(k) => x.status # "ABSENT" /\ x.from = tasks[k].from, UNCHANGED plan
  PROVE  PlansKept
<1>1. tasks \in [Tasks -> TaskRows]
  BY DEF QInv, IInv, TypeOK
<1>2. tasks'[k] = x /\ \A j \in Tasks \ {k} : tasks'[j] = tasks[j]
  BY <1>1
<1> SUFFICES ASSUME NEW j \in Tasks
             PROVE  Known(j) => Known(j)' /\ tasks'[j].from = tasks[j].from
  BY DEF PlansKept
<1>3. CASE j = k
  BY <1>2, <1>3 DEF Known
<1>4. CASE j # k
  BY <1>2, <1>4 DEF Known
<1> QED BY <1>3, <1>4

(* So does every write of a status. *)
LEMMA StatusMoves ==
  ASSUME QInv, NEW k \in Tasks, NEW status, status # "ABSENT",
         tasks' = [tasks EXCEPT ![k] = [tasks[k] EXCEPT !.status = status]],
         UNCHANGED plan
  PROVE  PlansKept
<1> DEFINE x == [tasks[k] EXCEPT !.status = status]
<1>1. tasks[k] \in TaskRows
  BY DEF QInv, IInv, TypeOK
<1>2. x.status = status /\ x.from = tasks[k].from
  BY <1>1 DEF TaskRows
<1>3. tasks' = [tasks EXCEPT ![k] = x]
  OBVIOUS
<1> HIDE DEF x
<1> QED BY <1>2, <1>3, OneTaskMoves

(* A plan is made for the locations that are not counted, and the others    *)
(* are counted already.                                                     *)
LEMMA MakePlanPlans ==
  ASSUME QInv, PlanFacts, PlannedIsCounted, NEW a \in Calls, MakePlan(a)
  PROVE  PlanFacts' /\ PlannedIsCounted'
<1>0. PICK p \in Plans, todo \in SUBSET Locations :
        p = call[a].plan /\ todo = call[a].todo
  BY DEF QInv, QueueType, MakePlan, Waiting, CallRecords, Free
<1> DEFINE rows == Inserted(p, todo)
           Row(l) == [status |-> "OPEN", type |-> "CYCLE_COUNT", to |-> None,
                      of |-> None, from |-> l]
<1>1. p # None /\ call[a].step = "plan"
  BY TaskQueueAssumption DEF MakePlan, Waiting
<1>2. PICK new \in [rows -> {k \in Tasks : tasks[k].status = "ABSENT"}] :
        /\ \A l, m \in rows : new[l] = new[m] => l = m
        /\ tasks' = [k \in Tasks |->
             IF \E l \in rows : new[l] = k
             THEN Row(CHOOSE l \in rows : new[l] = k) ELSE tasks[k]]
        /\ plan' = [k \in Tasks |-> IF \E l \in rows : new[l] = k THEN p ELSE plan[k]]
  BY <1>0 DEF MakePlan
<1>3. rows # {} /\ made' = made \cup {p} /\ Answer(a)
  BY <1>0 DEF MakePlan, NothingToCount, WithPlan
<1>4. \A l \in rows : new[l] \in Tasks /\ ~Known(new[l])
  BY <1>2 DEF Known
<1>5. \A l \in rows : Row(l).from = l /\ Row(l).status = "OPEN"
  OBVIOUS
<1>6. \A l \in todo : l \in rows \/ CountedIn(Period[p], l)
  BY DEF Inserted, Uncounted
<1>7. call \in [Calls -> CallRecords]
  BY DEF QInv, QueueType
<1> HIDE DEF Row, rows
<1>8. \A l \in rows : /\ plan'[new[l]] = p
                      /\ tasks'[new[l]].from = l /\ Known(new[l])'
  <2> SUFFICES ASSUME NEW l \in rows
               PROVE  /\ plan'[new[l]] = p /\ tasks'[new[l]].from = l
                      /\ Known(new[l])'
    OBVIOUS
  <2> DEFINE m == CHOOSE n \in rows : new[n] = new[l]
  <2>1. m \in rows /\ new[m] = new[l]
    OBVIOUS
  <2>2. m = l
    BY <1>2, <2>1
  <2>3. new[l] \in Tasks
    BY <1>4
  <2>4. tasks'[new[l]] = Row(m)
    BY <1>2, <2>3
  <2>5. tasks'[new[l]].status = "OPEN"
    BY <1>5, <2>2, <2>4
  <2>6. Known(new[l])'
    BY <2>5 DEF Known
  <2> QED BY <1>2, <1>5, <2>2, <2>3, <2>4, <2>6
<1>9. \A k \in Tasks : \/ \E l \in rows : k = new[l]
                       \/ tasks'[k] = tasks[k] /\ plan'[k] = plan[k]
  BY <1>2
<1>10. PlansKept
  BY <1>4, <1>9 DEF PlansKept, PlanFacts, Known
<1>11. \A month, l : CountedIn(month, l) => CountedIn(month, l)'
  BY <1>10, CountedStays
<1>12. PlanFacts'
  <2>1. \A k \in Tasks : plan'[k] # None => Known(k)'
    BY <1>8, <1>9 DEF PlanFacts, Known
  <2>2. \A b \in Calls : call'[b].step = "plan" => call'[b] = call[b]
    BY <1>3, <1>7 DEF Answer, Free
  <2>3. \A b \in Calls : call'[b].step = "plan" =>
          \A l \in Selected[call'[b].plan] \ call'[b].todo :
            CountedIn(Period[call[b].plan], l)'
    <3>1. ASSUME NEW b \in Calls, call'[b].step = "plan",
                 NEW l \in Selected[call'[b].plan] \ call'[b].todo
          PROVE  CountedIn(Period[call'[b].plan], l)
      BY <2>2, <3>1 DEF PlanFacts
    <3> QED BY <1>11, <3>1 DEF CountedIn
  <2> QED BY <2>1, <2>3 DEF PlanFacts
<1>13. \A l \in Selected[p] : CountedIn(Period[p], l)'
  <2> SUFFICES ASSUME NEW l \in Selected[p] PROVE CountedIn(Period[p], l)'
    OBVIOUS
  <2>1. CASE l \in rows
    BY <1>1, <1>4, <1>8, <2>1 DEF CountedIn
  <2>2. CASE CountedIn(Period[p], l)
    BY <1>11, <2>2
  <2>3. CASE l \notin todo
    BY <1>0, <1>1, <2>2, <2>3 DEF PlanFacts
  <2> QED BY <1>6, <2>1, <2>2, <2>3
<1>14. \E k \in Tasks : plan'[k] = p
  BY <1>3, <1>4, <1>8
<1>15. PlannedIsCounted'
  <2> SUFFICES ASSUME NEW q \in made'
               PROVE  /\ \A l \in Selected[q] : CountedIn(Period[q], l)'
                      /\ \E k \in Tasks : plan'[k] = q
    BY DEF PlannedIsCounted, CountedIn
  <2>1. CASE q = p
    BY <1>13, <1>14, <2>1
  <2>2. CASE q \in made
    <3>1. q # None
      BY <2>2, TaskQueueAssumption DEF QInv, QueueType
    <3>2. PICK k \in Tasks : plan[k] = q
      BY <2>2 DEF PlannedIsCounted
    <3>3. plan'[k] = q
      BY <1>10, <3>1, <3>2 DEF PlansKept
    <3> QED BY <1>11, <2>2, <3>3 DEF PlannedIsCounted
  <2> QED BY <1>3, <2>1, <2>2
<1> QED BY <1>12, <1>15

(* Every other step of the two services leaves plans and places alone. *)
LEMMA EnginePlans ==
  ASSUME QInv, [Next]_vars, UNCHANGED queueVars
  PROVE  PlansKept
<1>1. TaskWritten
  BY EngineTasks DEF QInv
<1>2. UNCHANGED plan
  BY DEF queueVars
<1>3. ASSUME NEW k \in Tasks, Completed(k) PROVE PlansKept
  BY <1>2, <1>3, StatusMoves DEF Completed, CompleteTask
<1>4. ASSUME NEW k \in Tasks, NEW x, ~Known(k), tasks' = [tasks EXCEPT ![k] = x]
      PROVE  PlansKept
  BY <1>2, <1>4, OneTaskMoves
<1>5. CASE UNCHANGED tasks
  BY <1>2, <1>5 DEF PlansKept, Known
<1> QED BY <1>1, <1>3, <1>4, <1>5 DEF TaskWritten

(* Every step keeps the plans there are complete. *)
LEMMA StepPlans ==
  QInv /\ PlanFacts /\ PlannedIsCounted /\ [TaskNext]_taskVars
    => PlanFacts' /\ PlannedIsCounted'
<1> SUFFICES ASSUME QInv, PlanFacts, PlannedIsCounted, [TaskNext]_taskVars
             PROVE  PlanFacts' /\ PlannedIsCounted'
  OBVIOUS
<1>t. call \in [Calls -> CallRecords]
  BY DEF QInv, QueueType
<1>1. CASE (Next /\ UNCHANGED queueVars) \/ UNCHANGED taskVars
  <2>1. PlansKept /\ UNCHANGED <<plan, made, call>>
    BY <1>1, EnginePlans DEF taskVars, queueVars
  <2> QED BY <2>1, OldPlans
<1>2. ASSUME NEW a \in Calls, NEW x, call' = [call EXCEPT ![a] = x], x.step # "plan"
      PROVE  \A b \in Calls : call'[b].step = "plan" => call'[b] = call[b]
  BY <1>t, <1>2
<1>3. Free.step # "plan"
  BY DEF Free
<1>4. ASSUME NEW a \in Calls, NEW x, call' = [call EXCEPT ![a] = x], x.step # "plan",
             UNCHANGED <<vars, plan, made>>
      PROVE  PlanFacts' /\ PlannedIsCounted'
  <2>1. PlansKept
    BY <1>4 DEF PlansKept, Known, vars
  <2> QED BY <1>2, <1>4, <2>1, OldPlans
<1>r. ASSUME NEW a \in Calls, NEW x, Reading(a, x), x.step # "plan"
      PROVE  PlanFacts' /\ PlannedIsCounted'
  BY <1>4, <1>r DEF Reading, Ask
<1>5. ASSUME NEW a \in Calls, NEW k \in Tasks,
             \/ \E status \in {"IN_PROGRESS", "COMPLETED"}, who \in Workers \cup {Manager} :
                  ChangeRead(a, k, status, who)
             \/ \E w \in Workers : ReassignRead(a, k, w)
             \/ CancelTaskRead(a, k)
      PROVE  PlanFacts' /\ PlannedIsCounted'
  <2>1. \E x : Reading(a, x) /\ x.step # "plan"
    <3>1. ASSUME NEW status, NEW who, ChangeRead(a, k, status, who)
          PROVE  \E x : Reading(a, x) /\ x.step # "plan"
      <4> DEFINE x == [step |-> IF tasks[k].type = "SHIP" /\ status = "COMPLETED"
                                THEN "checkShipped" ELSE "change",
                       task |-> k, unassigned |-> assignee[k] = None,
                       status |-> status, who |-> who]
      <4>1. Reading(a, x)
        BY <3>1 DEF ChangeRead
      <4>2. x.step # "plan"
        OBVIOUS
      <4> HIDE DEF x
      <4> QED BY <4>1, <4>2
    <3>2. ASSUME NEW w, ReassignRead(a, k, w)
          PROVE  \E x : Reading(a, x) /\ x.step # "plan"
      <4> DEFINE x == [step |-> "reassign", task |-> k, who |-> w]
      <4>1. Reading(a, x)
        BY <3>2 DEF ReassignRead
      <4>2. x.step # "plan"
        OBVIOUS
      <4> HIDE DEF x
      <4> QED BY <4>1, <4>2
    <3>3. ASSUME CancelTaskRead(a, k)
          PROVE  \E x : Reading(a, x) /\ x.step # "plan"
      <4>1. PICK t \in Txns \cup {None} :
              Reading(a, [step |-> "cancel", task |-> k, row |-> t,
                          hasCase |-> t # None /\ cases[t].status # "ABSENT"])
        BY <3>3 DEF CancelTaskRead
      <4> DEFINE x == [step |-> "cancel", task |-> k, row |-> t,
                       hasCase |-> t # None /\ cases[t].status # "ABSENT"]
      <4>2. x.step # "plan"
        OBVIOUS
      <4>3. Reading(a, x)
        BY <4>1
      <4> HIDE DEF x
      <4> QED BY <4>2, <4>3
    <3> QED BY <1>5, <3>1, <3>2, <3>3
  <2> QED BY <1>r, <2>1
<1>6. ASSUME NEW a \in Calls, NEW row \in NewTasks, NEW w \in Workers,
             CreateTaskRead(a, row, w)
      PROVE  PlanFacts' /\ PlannedIsCounted'
  <2> DEFINE x == [step |-> "create", new |-> row, who |-> w]
  <2>1. Reading(a, x)
    BY <1>6 DEF CreateTaskRead
  <2>2. x.step # "plan"
    OBVIOUS
  <2> HIDE DEF x
  <2> QED BY <1>r, <2>1, <2>2
<1>7. ASSUME NEW a \in Calls, CheckShipped(a) \/ Reassign(a) \/ Drop(a)
      PROVE  PlanFacts' /\ PlannedIsCounted'
  <2>1. CASE CheckShipped(a)
    <3> DEFINE x == [call[a] EXCEPT !.step = "change"]
    <3>1. call[a].step = "checkShipped" /\ call[a] \in CallRecords
      BY <1>t, <2>1 DEF CheckShipped, Waiting
    <3>2. x.step # "plan"
      BY <3>1 DEF CallRecords, Free
    <3>3. call' = [call EXCEPT ![a] = x] /\ UNCHANGED <<vars, plan, made>>
      BY <2>1 DEF CheckShipped
    <3> HIDE DEF x
    <3> QED BY <1>4, <3>2, <3>3
  <2>2. CASE Reassign(a) \/ Drop(a)
    BY <1>3, <1>4, <2>2 DEF Reassign, Drop, Answer
  <2> QED BY <1>7, <2>1, <2>2
<1>8. ASSUME NEW a \in Calls, NEW p \in Plans, NEW w \in Workers, PlanRead(a, p, w)
      PROVE  PlanFacts' /\ PlannedIsCounted'
  <2> DEFINE todo == Uncounted(p, Selected[p])
             x == [step |-> "plan", plan |-> p, who |-> w, todo |-> todo]
  <2>1. call' = [call EXCEPT ![a] = x] /\ UNCHANGED <<vars, plan, made>>
    BY <1>8 DEF PlanRead, Reading, Ask
  <2>2. \A l \in Selected[p] \ todo : CountedIn(Period[p], l)
    BY DEF Uncounted
  <2>3. x.plan = p /\ x.todo = todo
    OBVIOUS
  <2> HIDE DEF x, todo
  <2>4. \A month, l : CountedIn(month, l)' <=> CountedIn(month, l)
    BY <2>1 DEF CountedIn, vars
  <2>5. call'[a] = x /\ \A b \in Calls \ {a} : call'[b] = call[b]
    BY <1>t, <2>1
  <2>6. \A b \in Calls : call'[b].step = "plan" =>
          \A l \in Selected[call'[b].plan] \ call'[b].todo :
            CountedIn(Period[call[b].plan], l)'
    <3>1. ASSUME NEW b \in Calls, call'[b].step = "plan",
                 NEW l \in Selected[call'[b].plan] \ call'[b].todo
          PROVE  CountedIn(Period[call'[b].plan], l)
      BY <2>2, <2>3, <2>5, <3>1 DEF PlanFacts
    <3> QED BY <2>4, <3>1 DEF CountedIn
  <2>7. \A k \in Tasks : plan'[k] # None => Known(k)'
    BY <2>1 DEF PlanFacts, Known, vars
  <2>8. PlannedIsCounted'
    BY <2>1, <2>4 DEF PlannedIsCounted
  <2> QED BY <2>6, <2>7, <2>8 DEF PlanFacts
<1>9. ASSUME NEW a \in Calls, Claim(a) \/ ChangeStatus(a) \/ CancelTask(a)
      PROVE  PlanFacts' /\ PlannedIsCounted'
  <2> DEFINE k == call[a].task
  <2>1. /\ call[a].step \in {"change", "cancel"}
        /\ call[a].step = "change" => call[a].status \in {"IN_PROGRESS", "COMPLETED"}
        /\ k \in Tasks
    BY <1>t, <1>9 DEF Claim, ChangeStatus, CancelTask, Begun, Waiting, CallRecords, Free
  <2>2. /\ \E status : /\ status # "ABSENT"
                       /\ tasks' = [tasks EXCEPT ![k] = [tasks[k] EXCEPT !.status = status]]
        /\ UNCHANGED <<plan, made>> /\ call' = [call EXCEPT ![a] = Free]
    <3>1. CASE CancelTask(a)
      BY <3>1 DEF CancelTask, SetStatus, Answer
    <3>2. CASE Claim(a) \/ ChangeStatus(a)
      <4>1. call[a].step = "change"
        BY <3>2 DEF Claim, ChangeStatus, Begun, Waiting
      <4>2. call[a].status # "ABSENT"
        BY <2>1, <4>1
      <4> QED BY <3>2, <4>2 DEF Claim, ChangeStatus, Begun, SetStatus, Answer
    <3> QED BY <1>9, <3>1, <3>2
  <2>3. PlansKept
    BY <2>1, <2>2, StatusMoves
  <2> QED BY <1>2, <1>3, <2>2, <2>3, OldPlans
<1>10. ASSUME NEW a \in Calls, NEW k \in Tasks, CreateTask(a, k)
       PROVE  PlanFacts' /\ PlannedIsCounted'
  <2>1. /\ ~Known(k) /\ tasks' = [tasks EXCEPT ![k] = call[a].new]
        /\ UNCHANGED <<plan, made>> /\ call' = [call EXCEPT ![a] = Free]
    BY <1>10 DEF CreateTask, Known, Answer
  <2>2. PlansKept
    BY <2>1, OneTaskMoves
  <2> QED BY <1>2, <1>3, <2>1, <2>2, OldPlans
<1>11. ASSUME NEW a \in Calls, MakePlan(a)
       PROVE  PlanFacts' /\ PlannedIsCounted'
  BY <1>11, MakePlanPlans
<1>12. CASE QueueNext
  BY <1>12, <1>5, <1>6, <1>7, <1>8, <1>9, <1>10, <1>11 DEF QueueNext
<1> QED BY <1>1, <1>12 DEF TaskNext

(* A plan that was made has a task for every location it selected, however  *)
(* many plans for the period race it, and one of its own at least.          *)
THEOREM PlansAreComplete == TaskSpec => []PlannedIsCounted
<1>1. TaskInit => PlanFacts /\ PlannedIsCounted
  BY DEF TaskInit, PlanFacts, PlannedIsCounted, Free
<1> QED BY InitQInv, StepQInv, StepPlans, <1>1, PTL DEF TaskSpec

================================================================================
