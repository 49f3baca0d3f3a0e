------------------------ MODULE DiscrepancyReview_proofs ------------------------
(* Theorems about DiscrepancyReview, for every value of its constants. *)
EXTENDS DiscrepancyReview, TransactionEngine_proofs

(* A row that is POSTED was confirmed, also when the case of its count was  *)
(* approved; and nobody confirms a row that is not there.                   *)
RowsConfirmed ==
  \A t \in Txns : /\ txn[t].status = "POSTED" => txn[t].confirmed
                  /\ txn[t].confirmed => txn[t].status # "ABSENT"

(* What a request in flight has read of the cases and relies on: the count  *)
(* it settles is a first count or has a case, and the case it decides is    *)
(* there.  It read the other location and the difference of a transfer.     *)
Knows(r) ==
  /\ handler[r].step = "settleCount" => txn[handler[r].tx].recountTask = None
  /\ handler[r].step = "settleRecount" => cases[handler[r].row].status # "ABSENT"
  /\ handler[r].step \in {"approveCase", "rejectOpenCase", "moveStock"} =>
       cases[handler[r].tx].status # "ABSENT"
  /\ handler[r].step = "moveStock" =>
       /\ handler[r].row \in Locations
       /\ handler[r].row # cases[handler[r].tx].location
       /\ handler[r].seen # 0

RInv ==
  /\ IInv
  /\ RowsConfirmed
  /\ \A r \in Requests : Knows(r)
  /\ CompletedTaskHasConfirmedWork
  /\ CaseBelongsToConfirmedCount
  /\ ResolutionWasPosted

(* sourceTransactionId is unique, and an open recount task has one. *)
OneSource ==
  /\ \A j, k \in Tasks : tasks[j].of # None /\ tasks[j].of = tasks[k].of => j = k
  /\ \A k \in Tasks : OpenTask(k) /\ tasks[k].type = "RECOUNT" => tasks[k].of # None

--------------------------------------------------------------------------------
(* What a step does to each table *)

(* A new row is not POSTED unless it is confirmed at once, as the row of a  *)
(* transfer that resolves a case is.                                        *)
RowsNew ==
  \A t \in Txns : txn[t].status = "ABSENT" =>
    \/ txn'[t] = txn[t]
    \/ /\ txn'[t].status # "ABSENT"
       /\ txn'[t].status = "POSTED" => txn'[t].confirmed

(* A task is completed with the confirmation of its work.                   *)
TasksDone ==
  \A k \in Tasks : tasks'[k].status = "COMPLETED" =>
    \/ tasks[k].status = "COMPLETED"
    \/ \E t \in Txns : k \in {txn'[t].task, txn'[t].recountTask} /\ txn'[t].confirmed

(* A case is opened for a first count that is confirmed with it ...         *)
CaseOpened(c) ==
  /\ cases[c].status = "ABSENT" /\ txn[c].status # "ABSENT"
  /\ txn[c].action = "CYCLE_COUNT" /\ txn[c].recountTask = None /\ txn'[c].confirmed
  /\ cases'[c].status = "AWAITING_REVIEW" /\ cases'[c].resolution = None
  /\ cases'[c].location = txn[c].source /\ cases'[c].counted = txn[c].quantity

(* ... and goes on at its place, with the quantity of a confirmed recount   *)
(* and the resolution of a posted row.                                      *)
CaseMoved(c) ==
  /\ cases[c].status # "ABSENT" /\ cases'[c].status # "ABSENT"
  /\ cases'[c].location = cases[c].location
  /\ \/ cases'[c].counted = cases[c].counted
     \/ \E t \in Txns : /\ txn[t].status # "ABSENT" /\ txn[t].recountTask # None
                        /\ txn'[t].confirmed /\ txn[t].quantity = cases'[c].counted
  /\ \/ cases'[c].resolution = cases[c].resolution
     \/ \E t \in Txns : cases'[c].resolution = t /\ txn'[t].posted
  /\ cases'[c].status = "APPROVED" => cases'[c].resolution # None

CasesMoved == \A c \in Txns : cases'[c] = cases[c] \/ CaseOpened(c) \/ CaseMoved(c)

(* A request that moves on knows what it relies on. *)
RequestsMoved == \A r \in Requests : handler'[r] = handler[r] \/ Knows(r)'

(* No task is opened or given another source, but for a new recount task    *)
(* that takes over a source nobody else holds any more.                     *)
SourcesKept ==
  \A k \in Tasks : /\ tasks'[k].type = tasks[k].type /\ tasks'[k].of = tasks[k].of
                   /\ OpenTask(k)' => OpenTask(k)

SourceTaken ==
  \E k \in Tasks, t \in Txns, l \in Places :
    /\ tasks'[k] = NewRecountTask(t, l)
    /\ \A j \in Tasks \ {k} :
         /\ tasks'[j].of # t
         /\ \/ tasks'[j] = tasks[j]
            \/ ~OpenTask(j)' /\ tasks'[j].of = None

(* Steps that move each table like this keep the invariant.                 *)
LEMMA MovesKeep ==
  ASSUME RInv, IInv', PostsKept, RowsNew, TasksDone, CasesMoved, RequestsMoved
  PROVE  RInv'
<1>t. /\ TypeOK /\ RowsConfirmed /\ CompletedTaskHasConfirmedWork
      /\ CaseBelongsToConfirmedCount /\ ResolutionWasPosted
      /\ HandlerKnows /\ PostedNotPending /\ TypeOK'
  BY DEF RInv, IInv
<1>1. \A t \in Txns : txn[t].confirmed =>
        /\ txn'[t].confirmed /\ txn'[t].action = txn[t].action
        /\ txn'[t].quantity = txn[t].quantity /\ txn'[t].source = txn[t].source
        /\ txn'[t].task = txn[t].task /\ txn'[t].recountTask = txn[t].recountTask
  BY <1>t DEF RowsConfirmed, PostsKept
<1>2. RowsConfirmed'
  BY <1>t DEF RowsConfirmed, PostsKept, RowsNew
<1>3. CompletedTaskHasConfirmedWork'
  BY <1>t, <1>1 DEF CompletedTaskHasConfirmedWork, TasksDone
<1>4. CaseBelongsToConfirmedCount'
  <2> SUFFICES ASSUME NEW c \in Txns, cases'[c].status # "ABSENT"
               PROVE  /\ txn'[c].action = "CYCLE_COUNT" /\ txn'[c].recountTask = None
                      /\ txn'[c].confirmed
                      /\ cases'[c].location = txn'[c].source
                      /\ \E t \in Txns : /\ t = c \/ txn'[t].recountTask # None
                                         /\ txn'[t].confirmed
                                         /\ txn'[t].quantity = cases'[c].counted
    BY DEF CaseBelongsToConfirmedCount
  <2>1. CASE CaseOpened(c)
    BY <2>1 DEF CaseOpened, PostsKept
  <2>2. CASE cases[c].status # "ABSENT"
    <3>1. /\ txn[c].action = "CYCLE_COUNT" /\ txn[c].recountTask = None
          /\ txn[c].confirmed /\ cases[c].location = txn[c].source
      BY <1>t, <2>2 DEF CaseBelongsToConfirmedCount
    <3>2. PICK u \in Txns : /\ u = c \/ txn[u].recountTask # None
                            /\ txn[u].confirmed
                            /\ txn[u].quantity = cases[c].counted
      BY <1>t, <2>2 DEF CaseBelongsToConfirmedCount
    <3>3. cases'[c].location = cases[c].location
      BY <2>2 DEF CasesMoved, CaseOpened, CaseMoved
    <3>4. CASE cases'[c].counted = cases[c].counted
      BY <1>1, <3>1, <3>2, <3>3, <3>4
    <3>5. ASSUME NEW t \in Txns, txn[t].status # "ABSENT", txn[t].recountTask # None,
                 txn'[t].confirmed, txn[t].quantity = cases'[c].counted
          PROVE  \E v \in Txns : /\ v = c \/ txn'[v].recountTask # None
                                 /\ txn'[v].confirmed
                                 /\ txn'[v].quantity = cases'[c].counted
      BY <3>5 DEF PostsKept
    <3>6. CASE cases'[c].counted # cases[c].counted
      BY <1>1, <2>2, <3>1, <3>3, <3>5, <3>6 DEF CasesMoved, CaseOpened, CaseMoved
    <3> QED BY <3>4, <3>6
  <2> QED BY <2>1, <2>2 DEF CasesMoved, CaseMoved
<1>5. ResolutionWasPosted'
  <2> SUFFICES ASSUME NEW c \in Txns
               PROVE  /\ cases'[c].resolution # None =>
                           txn'[cases'[c].resolution].posted
                      /\ cases'[c].status = "APPROVED" => cases'[c].resolution # None
    BY DEF ResolutionWasPosted
  <2>1. cases[c].resolution \in Txns \cup {None}
    BY <1>t DEF TypeOK, CaseRows
  <2>2. cases'[c].resolution = cases[c].resolution /\ cases[c].resolution # None
          => txn'[cases'[c].resolution].posted
    BY <1>t, <2>1 DEF ResolutionWasPosted, PostedNotPending, PostsKept
  <2>3. cases[c].status = "APPROVED" => cases[c].resolution # None
    BY <1>t DEF ResolutionWasPosted
  <2> QED BY <2>2, <2>3 DEF CasesMoved, CaseOpened, CaseMoved
<1>6. ASSUME NEW r \in Requests PROVE Knows(r)'
  <2>1. CASE handler'[r] = handler[r]
    <3>1. \A c \in Txns : cases[c].status # "ABSENT" =>
            /\ cases'[c].status # "ABSENT"
            /\ cases'[c].location = cases[c].location
      BY DEF CasesMoved, CaseOpened, CaseMoved
    <3>2. handler[r].step # "idle" => handler[r].tx \in Txns
                                      /\ txn[handler[r].tx].status # "ABSENT"
      BY <1>t DEF HandlerKnows
    <3>3. handler[r].step = "settleRecount" => handler[r].row \in Txns
      BY <1>t DEF HandlerKnows
    <3> QED BY <2>1, <3>1, <3>2, <3>3 DEF RInv, Knows, PostsKept
  <2> QED BY <2>1 DEF RequestsMoved
<1> QED BY <1>2, <1>3, <1>4, <1>5, <1>6 DEF RInv

(* So do their tasks keep at most one open recount for a count. *)
LEMMA SourcesStay ==
  ASSUME OneSource, SourcesKept \/ SourceTaken
  PROVE  OneSource'
<1>1. CASE SourcesKept
  BY <1>1 DEF OneSource, SourcesKept
<1>2. CASE SourceTaken
  <2>1. PICK k \in Tasks, t \in Txns, l \in Places :
          /\ tasks'[k] = NewRecountTask(t, l)
          /\ \A j \in Tasks \ {k} :
               /\ tasks'[j].of # t
               /\ \/ tasks'[j] = tasks[j]
                  \/ ~OpenTask(j)' /\ tasks'[j].of = None
    BY <1>2 DEF SourceTaken
  <2>2. tasks'[k].of = t /\ t # None
    BY <2>1, EngineAssumption DEF NewRecountTask
  <2>3. \A j \in Tasks \ {k} : tasks'[j].of # None => tasks'[j] = tasks[j]
    BY <2>1
  <2>4. \A j \in Tasks \ {k} : OpenTask(j)' => tasks'[j] = tasks[j]
    BY <2>1
  <2>5. \A i, j \in Tasks : tasks'[i].of # None /\ tasks'[i].of = tasks'[j].of => i = j
    BY <2>1, <2>2, <2>3 DEF OneSource
  <2>6. \A j \in Tasks : OpenTask(j)' /\ tasks'[j].type = "RECOUNT" => tasks'[j].of # None
    BY <2>2, <2>4 DEF OneSource, OpenTask
  <2> QED BY <2>5, <2>6 DEF OneSource
<1> QED BY <1>1, <1>2

--------------------------------------------------------------------------------
(* The steps of the engine *)

(* The engine opens and moves cases in no other way.                        *)
LEMMA EngineCasesMoved ==
  ASSUME RInv, [Next]_vars
  PROVE  CasesMoved
<1>t. IInv /\ TypeOK /\ HandlerKnows /\ cases \in [Txns -> CaseRows]
  BY DEF RInv, IInv, TypeOK
<1>1. ASSUME NEW c \in Txns, NEW x, cases' = [cases EXCEPT ![c] = x],
             CaseOpened(c) \/ CaseMoved(c)
      PROVE  CasesMoved
  <2>1. \A d \in Txns \ {c} : cases'[d] = cases[d]
    BY <1>t, <1>1
  <2> QED BY <1>1, <2>1 DEF CasesMoved
<1>2. ASSUME NEW c \in Txns, NEW status \in CaseStatus \ {"ABSENT", "APPROVED"},
             cases[c].status # "ABSENT",
             cases' = [cases EXCEPT ![c] = [cases[c] EXCEPT !.status = status]]
      PROVE  CasesMoved
  <2> DEFINE x == [cases[c] EXCEPT !.status = status]
  <2>1. cases[c] \in CaseRows
    BY <1>t
  <2>2. /\ x.status = status /\ x.location = cases[c].location
        /\ x.counted = cases[c].counted /\ x.resolution = cases[c].resolution
    BY <2>1 DEF CaseRows
  <2>3. cases' = [cases EXCEPT ![c] = x]
    BY <1>2
  <2> HIDE DEF x
  <2>4. cases'[c] = x
    BY <1>t, <2>3
  <2>5. CaseMoved(c)
    BY <1>2, <2>2, <2>4 DEF CaseMoved
  <2> QED BY <1>1, <2>3, <2>5
<1>3. ASSUME NEW r \in Requests, OpenDiscrepancy(r)
      PROVE  CasesMoved
  <2> DEFINE t == handler[r].tx
             x == NewCase(t, handler[r].seen)
  <2>1. /\ t \in Txns /\ txn[t].status # "ABSENT" /\ txn[t].action = "CYCLE_COUNT"
        /\ txn[t].recountTask = None
    BY <1>t, <1>3 DEF HandlerKnows, RInv, Knows, At, OpenDiscrepancy
  <2>2. txn'[t].confirmed
    <3>1. txn'[t] = [txn[t] EXCEPT !.confirmed = TRUE] /\ txn[t] \in TxnRows
      BY <1>t, <1>3, <2>1 DEF OpenDiscrepancy, MarkConfirmed, TypeOK
    <3> QED BY <3>1 DEF TxnRows
  <2>3. CASE cases[t].status = "ABSENT"
    <3>1. cases' = [cases EXCEPT ![t] = x]
      BY <1>3, <2>3 DEF OpenDiscrepancy
    <3>2. /\ x.status = "AWAITING_REVIEW" /\ x.resolution = None
          /\ x.location = txn[t].source /\ x.counted = txn[t].quantity
      BY DEF NewCase
    <3> HIDE DEF x
    <3>3. cases'[t] = x
      BY <1>t, <2>1, <3>1
    <3>4. CaseOpened(t)
      BY <2>1, <2>2, <2>3, <3>2, <3>3 DEF CaseOpened
    <3> QED BY <1>1, <2>1, <3>1, <3>4
  <2>4. CASE cases[t].status # "ABSENT"
    BY <1>3, <2>4 DEF OpenDiscrepancy, CasesMoved
  <2> QED BY <2>3, <2>4
<1>4. ASSUME NEW r \in Requests, PostMatchingRecount(r) \/ ReturnRecount(r)
      PROVE  CasesMoved
  <2> DEFINE t == handler[r].tx
             c == handler[r].row
  <2>1. /\ t \in Txns /\ txn[t].status # "ABSENT" /\ c \in Txns
        /\ txn[t].recountTask # None /\ cases[c].status # "ABSENT"
    BY <1>t, <1>4, EngineAssumption
       DEF HandlerKnows, RInv, Knows, At, PostMatchingRecount, ReturnRecount
  <2>2. cases[c] \in CaseRows /\ txn[t] \in TxnRows
    BY <1>t, <2>1 DEF TypeOK
  <2>3. ASSUME NEW status \in {"CLOSED", "AWAITING_REVIEW"}, NEW res,
               cases' = RecountedCase(c, t, handler[r].seen, status, res),
               txn'[t].confirmed,
               res = cases[c].resolution \/ (res = t /\ txn'[t].posted)
        PROVE  CasesMoved
    <3> DEFINE x == [cases[c] EXCEPT !.counted = txn[t].quantity,
                                     !.difference = txn[t].quantity - handler[r].seen,
                                     !.status = status, !.resolution = res]
    <3>1. /\ x.status = status /\ x.location = cases[c].location
          /\ x.counted = txn[t].quantity /\ x.resolution = res
      BY <2>2 DEF CaseRows
    <3>2. cases' = [cases EXCEPT ![c] = x]
      BY <2>3 DEF RecountedCase
    <3> HIDE DEF x
    <3>3. cases'[c] = x
      BY <1>t, <2>1, <3>2
    <3>4. CaseMoved(c)
      BY <2>1, <2>3, <3>1, <3>3 DEF CaseMoved
    <3> QED BY <1>1, <2>1, <3>2, <3>4
  <2>4. CASE txn' = MarkPosted(t)
             /\ cases' = RecountedCase(c, t, handler[r].seen, "CLOSED", t)
    <3>1. txn'[t] = [txn[t] EXCEPT !.status = "POSTED", !.posted = TRUE, !.confirmed = TRUE]
      BY <1>t, <2>1, <2>4 DEF MarkPosted, TypeOK
    <3>2. txn'[t].confirmed /\ txn'[t].posted
      BY <2>2, <3>1 DEF TxnRows
    <3> QED BY <2>3, <2>4, <3>2
  <2>5. CASE txn' = MarkConfirmed(t)
             /\ cases' = RecountedCase(c, t, handler[r].seen, "AWAITING_REVIEW",
                                       cases[c].resolution)
    <3>1. txn'[t] = [txn[t] EXCEPT !.confirmed = TRUE]
      BY <1>t, <2>1, <2>5 DEF MarkConfirmed, TypeOK
    <3>2. txn'[t].confirmed
      BY <2>2, <3>1 DEF TxnRows
    <3> QED BY <2>3, <2>5, <3>2
  <2>6. CASE UNCHANGED cases
    BY <2>6 DEF CasesMoved
  <2> QED BY <1>4, <2>4, <2>5, <2>6 DEF PostMatchingRecount, ReturnRecount
<1>5. ASSUME NEW t \in Txns, ApproveTransaction(t)
      PROVE  CasesMoved
  <2> DEFINE x == [cases[t] EXCEPT !.status = "APPROVED", !.resolution = t]
  <2>1. CASE cases[t].status # "ABSENT" /\ cases' = [cases EXCEPT ![t] = x]
    <3>1. cases[t] \in CaseRows /\ t # None
      BY <1>t, EngineAssumption
    <3>2. /\ x.status = "APPROVED" /\ x.location = cases[t].location
          /\ x.counted = cases[t].counted /\ x.resolution = t
      BY <3>1 DEF CaseRows
    <3>3. txn'[t].posted
      <4>1. txn'[t] = [txn[t] EXCEPT !.status = "POSTED", !.posted = TRUE,
                                     !.confirmed = TRUE]
        BY <1>t, <1>5 DEF ApproveTransaction, MarkPosted, TypeOK
      <4> QED BY <1>t, <4>1 DEF TypeOK, TxnRows
    <3> HIDE DEF x
    <3>4. cases'[t] = x
      BY <1>t, <2>1
    <3>5. CaseMoved(t)
      BY <2>1, <3>1, <3>2, <3>3, <3>4 DEF CaseMoved
    <3> QED BY <1>1, <2>1, <3>5
  <2>2. CASE UNCHANGED cases
    BY <2>2 DEF CasesMoved
  <2> QED BY <1>5, <2>1, <2>2 DEF ApproveTransaction
<1>6. ASSUME NEW r \in Requests, CancelCase(r) \/ RejectCase(r)
      PROVE  CasesMoved
  <2> DEFINE t == handler[r].tx
  <2>1. t \in Txns
    BY <1>t, <1>6 DEF HandlerKnows, At, CancelCase, RejectCase
  <2>2. CASE UNCHANGED cases
    BY <2>2 DEF CasesMoved
  <2>3. ASSUME cases' # cases
        PROVE  /\ cases[t].status # "ABSENT"
               /\ \E status \in {"CLOSED", "REJECTED"} :
                    cases' = [cases EXCEPT ![t] = [cases[t] EXCEPT !.status = status]]
    BY <1>6, <2>3 DEF CancelCase, RejectCase, ResolveDiscrepancy
  <2> QED BY <1>2, <2>1, <2>2, <2>3 DEF CaseStatus
<1>7. ASSUME NEW r \in Requests, RequestRecountCase(r)
      PROVE  CasesMoved
  <2> DEFINE t == handler[r].tx
             x == [cases[t] EXCEPT !.status = "RECOUNT_REQUESTED",
                                   !.recountTask = handler[r].row]
  <2>1. t \in Txns /\ cases[t] \in CaseRows
    BY <1>t, <1>7 DEF HandlerKnows, At, RequestRecountCase
  <2>2. /\ x.status = "RECOUNT_REQUESTED" /\ x.location = cases[t].location
        /\ x.counted = cases[t].counted /\ x.resolution = cases[t].resolution
    BY <2>1 DEF CaseRows
  <2>3. UNCHANGED cases \/ (cases[t].status # "ABSENT" /\ cases' = [cases EXCEPT ![t] = x])
    BY <1>7 DEF RequestRecountCase
  <2> HIDE DEF x
  <2>4. CASE cases[t].status # "ABSENT" /\ cases' = [cases EXCEPT ![t] = x]
    <3>1. cases'[t] = x
      BY <1>t, <2>1, <2>4
    <3>2. CaseMoved(t)
      BY <2>2, <2>4, <3>1 DEF CaseMoved
    <3> QED BY <1>1, <2>1, <2>4, <3>2
  <2> QED BY <2>3, <2>4 DEF CasesMoved
<1>8. CASE UNCHANGED cases
  BY <1>8 DEF CasesMoved
<1> QED BY <1>3, <1>4, <1>5, <1>6, <1>7, <1>8
        DEF Next, vars, CreateTransaction, ConfirmMovement, ConfirmDamageRead,
            ConfirmDamageSubmit, ConfirmCountRead, PostMatchingCycleCount,
            ConfirmRecountRead, CancelRead, CancelWrite, RejectRead, RejectWrite,
            RequestRecountRead, RequestRecountWrite, RequestRecountTask, Abandon,
            RefreshReorderDrafts

(* A row that is posted or confirmed keeps its tasks and is confirmed then. *)
LEMMA NowConfirmed ==
  ASSUME IInv, NEW t \in Txns, txn' = MarkPosted(t) \/ txn' = MarkConfirmed(t)
  PROVE  /\ txn'[t].confirmed
         /\ txn'[t].task = txn[t].task /\ txn'[t].recountTask = txn[t].recountTask
<1>1. txn[t] \in TxnRows
  BY DEF IInv, TypeOK
<1>2. \/ txn'[t] = [txn[t] EXCEPT !.status = "POSTED", !.posted = TRUE, !.confirmed = TRUE]
      \/ txn'[t] = [txn[t] EXCEPT !.confirmed = TRUE]
  BY DEF IInv, TypeOK, MarkPosted, MarkConfirmed
<1> QED BY <1>1, <1>2 DEF TxnRows

(* The engine completes a task only with the confirmation of its work.      *)
LEMMA EngineTasksDone ==
  ASSUME RInv, [Next]_vars
  PROVE  TasksDone
<1>t. IInv /\ TypeOK /\ HandlerKnows
  BY DEF RInv, IInv
<1>1. ASSUME NEW t \in Txns, NEW k \in {txn[t].task, txn[t].recountTask},
             \/ txn' = MarkPosted(t) \/ txn' = MarkConfirmed(t)
             \/ UNCHANGED txn /\ txn[t].status = "POSTED",
             UNCHANGED tasks \/ tasks' = CompleteTask(k)
      PROVE  TasksDone
  <2>1. k \in {txn'[t].task, txn'[t].recountTask} /\ txn'[t].confirmed
    BY <1>t, <1>1, NowConfirmed DEF RInv, RowsConfirmed
  <2>2. \A j \in Tasks \ {k} : tasks'[j] = tasks[j]
    BY <1>t, <1>1 DEF CompleteTask, TypeOK
  <2> QED BY <2>1, <2>2 DEF TasksDone
<1>2. ASSUME NEW t \in Txns, ConfirmMovement(t)
      PROVE  TasksDone
  BY <1>1, <1>2 DEF ConfirmMovement, CompleteIfOpen
<1>3. ASSUME NEW r \in Requests,
             ConfirmDamageSubmit(r) \/ PostMatchingCycleCount(r) \/ OpenDiscrepancy(r)
      PROVE  TasksDone
  <2>1. handler[r].tx \in Txns
    BY <1>t, <1>3 DEF HandlerKnows, At, ConfirmDamageSubmit, PostMatchingCycleCount,
                      OpenDiscrepancy
  <2> QED BY <1>1, <1>3, <2>1 DEF ConfirmDamageSubmit, PostMatchingCycleCount,
                                  OpenDiscrepancy, CompleteIfOpen
<1>4. ASSUME NEW r \in Requests, PostMatchingRecount(r) \/ ReturnRecount(r)
      PROVE  TasksDone
  <2>1. handler[r].tx \in Txns
    BY <1>t, <1>4 DEF HandlerKnows, At, PostMatchingRecount, ReturnRecount
  <2> QED BY <1>1, <1>4, <2>1 DEF PostMatchingRecount, ReturnRecount
<1>5. ASSUME NEW r \in Requests, RequestRecountTask(r)
      PROVE  TasksDone
  <2>1. UNCHANGED tasks
        \/ \E k \in Tasks : \E x : x.status = "OPEN" /\ tasks' = [tasks EXCEPT ![k] = x]
    BY <1>5 DEF RequestRecountTask, NewRecountTask
  <2> QED BY <1>t, <2>1 DEF TasksDone, TypeOK
<1>6. CASE UNCHANGED tasks
  BY <1>6 DEF TasksDone
<1> QED BY <1>2, <1>3, <1>4, <1>5, <1>6
        DEF Next, vars, CreateTransaction, ApproveTransaction, ConfirmDamageRead,
            ConfirmCountRead, ConfirmRecountRead, CancelRead, RejectRead,
            RequestRecountRead, CancelWrite, RejectWrite, RequestRecountWrite,
            CancelCase, RejectCase, RequestRecountCase, Abandon, RefreshReorderDrafts

(* It opens a recount task for a count that has none.                       *)
LEMMA EngineSources ==
  ASSUME IInv, [Next]_vars
  PROVE  SourcesKept \/ SourceTaken
<1>t. TypeOK /\ HandlerKnows /\ tasks \in [Tasks -> TaskRows]
  BY DEF IInv, TypeOK
<1>1. ASSUME NEW k, tasks' = CompleteTask(k)
      PROVE  SourcesKept
  <2> SUFFICES ASSUME NEW j \in Tasks
               PROVE  /\ tasks'[j].type = tasks[j].type /\ tasks'[j].of = tasks[j].of
                      /\ OpenTask(j)' => OpenTask(j)
    BY DEF SourcesKept
  <2>1. tasks'[j] = tasks[j] \/ tasks'[j] = [tasks[j] EXCEPT !.status = "COMPLETED"]
    BY <1>t, <1>1 DEF CompleteTask
  <2>2. tasks[j] \in TaskRows
    BY <1>t
  <2> QED BY <2>1, <2>2 DEF TaskRows, OpenTask
<1>2. CASE UNCHANGED tasks
  BY <1>2 DEF SourcesKept, OpenTask
<1>3. ASSUME NEW r \in Requests, RequestRecountTask(r)
      PROVE  SourcesKept \/ SourceTaken
  <2> DEFINE t == handler[r].tx
             l == txn[t].source
  <2>1. t \in Txns /\ l \in Places
    BY <1>t, <1>3 DEF HandlerKnows, At, RequestRecountTask, TypeOK, TxnRows
  <2>2. UNCHANGED tasks
        \/ /\ \A j \in Tasks : tasks[j].of # t
           /\ \E k \in Tasks : tasks' = [tasks EXCEPT ![k] = NewRecountTask(t, l)]
    BY <1>3 DEF RequestRecountTask
  <2>3. ASSUME NEW k \in Tasks, tasks' = [tasks EXCEPT ![k] = NewRecountTask(t, l)],
               \A j \in Tasks : tasks[j].of # t
        PROVE  SourceTaken
    <3>1. tasks'[k] = NewRecountTask(t, l) /\ \A j \in Tasks \ {k} : tasks'[j] = tasks[j]
      BY <1>t, <2>3
    <3> QED BY <2>1, <2>3, <3>1 DEF SourceTaken
  <2> QED BY <1>2, <2>2, <2>3
<1> QED BY <1>1, <1>2, <1>3
        DEF Next, vars, CreateTransaction, ConfirmMovement, ApproveTransaction,
            ConfirmDamageRead, ConfirmDamageSubmit, ConfirmCountRead,
            PostMatchingCycleCount, OpenDiscrepancy, ConfirmRecountRead,
            PostMatchingRecount, ReturnRecount, CancelRead, RejectRead,
            RequestRecountRead, CancelWrite, RejectWrite, RequestRecountWrite,
            CancelCase, RejectCase, RequestRecountCase, Abandon, RefreshReorderDrafts,
            CompleteIfOpen

(* A request that reads knows what it has read, and no other request moves. *)
LEMMA BeginMoves ==
  ASSUME IInv, NEW r \in Requests, NEW step, NEW t, NEW n, NEW row,
         Begin(r, step, t, n, row), UNCHANGED <<txn, cases>>,
         step = "settleCount" => txn[t].recountTask = None,
         step = "settleRecount" => cases[row].status # "ABSENT",
         step \in {"approveCase", "rejectOpenCase", "moveStock"} =>
           cases[t].status # "ABSENT",
         step = "moveStock" => row \in Locations /\ row # cases[t].location /\ n # 0
  PROVE  RequestsMoved
<1>1. \A q \in Requests \ {r} : handler'[q] = handler[q]
  BY DEF Begin, IInv, TypeOK
<1>2. handler'[r] = [step |-> step, tx |-> t, seen |-> n, row |-> row]
  BY DEF Begin, IInv, TypeOK
<1>3. Knows(r)'
  BY <1>2 DEF Knows
<1> QED BY <1>1, <1>3 DEF RequestsMoved

(* A request that ends relies on nothing. *)
LEMMA FinishMoves ==
  ASSUME IInv, NEW r \in Requests, Finish(r)
  PROVE  RequestsMoved
<1>1. \A q \in Requests \ {r} : handler'[q] = handler[q]
  BY DEF Finish, IInv, TypeOK
<1>2. handler'[r].step = "idle"
  BY DEF Finish, Idle, IInv, TypeOK
<1>3. Knows(r)'
  BY <1>2 DEF Knows
<1> QED BY <1>1, <1>3 DEF RequestsMoved

(* No request of the engine moves on without knowing what it relies on.     *)
LEMMA EngineRequestsMoved ==
  ASSUME RInv, [Next]_vars
  PROVE  RequestsMoved
<1>t. IInv /\ handler \in [Requests -> Handlers]
  BY DEF RInv, IInv, TypeOK
<1>1. ASSUME NEW r \in Requests, Finish(r)
      PROVE  RequestsMoved
  BY <1>t, <1>1, FinishMoves
<1>2. ASSUME NEW r \in Requests, NEW step, NEW row, Continue(r, step, row),
             step \in {"closeCase", "rejectCase", "makeRecountTask", "linkRecountTask"}
      PROVE  RequestsMoved
  <2>1. \A q \in Requests \ {r} : handler'[q] = handler[q]
    BY <1>t, <1>2 DEF Continue
  <2>2. handler'[r].step = step
    BY <1>t, <1>2 DEF Continue, Handlers
  <2>3. Knows(r)'
    BY <1>2, <2>2 DEF Knows
  <2> QED BY <2>1, <2>3 DEF RequestsMoved
<1>3. ASSUME NEW r \in Requests, NEW t \in Txns,
             \/ ConfirmDamageRead(r, t) \/ ConfirmCountRead(r, t)
             \/ CancelRead(r, t) \/ RejectRead(r, t) \/ RequestRecountRead(r, t)
      PROVE  RequestsMoved
  <2>1. UNCHANGED <<txn, cases>>
    BY <1>3 DEF ConfirmDamageRead, ConfirmCountRead, CancelRead, RejectRead,
                RequestRecountRead
  <2>2. \E n : \E step \in {"submitDamage", "settleCount", "cancel", "reject", "askRecount",
                            "makeRecountTask"} :
          /\ Begin(r, step, t, n, None)
          /\ step = "settleCount" => txn[t].recountTask = None
    BY <1>3 DEF ConfirmDamageRead, ConfirmCountRead, CancelRead, RejectRead,
                RequestRecountRead
  <2> QED BY <1>t, <2>1, <2>2, BeginMoves
<1>4. ASSUME NEW r \in Requests, NEW t \in Txns, NEW c \in Txns, ConfirmRecountRead(r, t, c)
      PROVE  RequestsMoved
  <2>1. /\ Begin(r, "settleRecount", t, stock[txn[t].source], c)
        /\ UNCHANGED <<txn, cases>> /\ cases[c].status # "ABSENT"
    BY <1>4 DEF ConfirmRecountRead
  <2> QED BY <1>t, <2>1, BeginMoves
<1>5. ASSUME NEW r \in Requests,
             CancelWrite(r) \/ RejectWrite(r) \/ RequestRecountWrite(r)
             \/ RequestRecountTask(r)
      PROVE  RequestsMoved
  BY <1>2, <1>5 DEF CancelWrite, RejectWrite, RequestRecountWrite, RequestRecountTask
<1>6. CASE UNCHANGED handler
  BY <1>6 DEF RequestsMoved
<1> QED BY <1>1, <1>3, <1>4, <1>5, <1>6
        DEF Next, vars, CreateTransaction, ConfirmMovement, ApproveTransaction,
            ConfirmDamageSubmit, PostMatchingCycleCount, OpenDiscrepancy,
            PostMatchingRecount, ReturnRecount, CancelCase, RejectCase,
            RequestRecountCase, Abandon, RefreshReorderDrafts

(* Every step of the engine keeps the invariant. *)
LEMMA EngineRInv ==
  ASSUME RInv, [Next]_vars
  PROVE  RInv'
<1>1. IInv /\ TypeOK /\ IInv'
  BY StepIInv DEF RInv, IInv
<1>2. PostsKept /\ RowsNew
  <2>1. ASSUME NEW t \in Txns, NEW i \in Inputs, NEW k \in Tasks \cup {None},
               NEW rk \in Tasks \cup {None}, CreateTransaction(t, i, k, rk)
        PROVE  PostsKept /\ RowsNew
    <3>1. \A u \in Txns \ {t} : txn'[u] = txn[u]
      BY <1>1, <2>1 DEF CreateTransaction, TypeOK
    <3>2. txn[t].status = "ABSENT" /\ txn'[t].status = "PENDING"
      BY <1>1, <2>1 DEF CreateTransaction, TypeOK
    <3> QED BY <3>1, <3>2 DEF PostsKept, RowsNew
  <2>2. CASE RowWritten
    BY <1>1, <2>2, WrittenKeeps DEF RowsNew
  <2> QED BY <1>1, <2>1, <2>2, EngineRows
<1> QED BY <1>1, <1>2, EngineTasksDone, EngineCasesMoved, EngineRequestsMoved, MovesKeep

--------------------------------------------------------------------------------
(* The steps of the review *)

(* A case there is stands for a confirmed count in use, at a location.      *)
LEMMA CaseCount ==
  ASSUME RInv, NEW c \in Txns, cases[c].status # "ABSENT"
  PROVE  /\ txn[c].status # "ABSENT" /\ txn[c].action = "CYCLE_COUNT" /\ txn[c].confirmed
         /\ cases[c].location \in Locations /\ cases[c].counted \in Nat \ {0}
         /\ cases[c].location = txn[c].source
<1>1. /\ txn[c].action = "CYCLE_COUNT" /\ txn[c].confirmed
      /\ cases[c].location = txn[c].source
  BY DEF RInv, CaseBelongsToConfirmedCount
<1>2. PICK t \in Txns : txn[t].confirmed /\ txn[t].quantity = cases[c].counted
  BY DEF RInv, CaseBelongsToConfirmedCount
<1>3. txn[c].status # "ABSENT" /\ txn[t].status # "ABSENT"
  BY <1>1, <1>2 DEF RInv, RowsConfirmed
<1> QED BY <1>1, <1>2, <1>3, RowPlaces DEF RInv

(* A decision in flight is on a case there is. *)
LEMMA Deciding ==
  ASSUME RInv, NEW r \in Requests,
         handler[r].step \in {"approveCase", "rejectOpenCase", "moveStock"}
  PROVE  /\ handler[r].tx \in Txns /\ cases[handler[r].tx].status # "ABSENT"
         /\ cases[handler[r].tx] \in CaseRows /\ txn[handler[r].tx] \in TxnRows
  BY DEF RInv, IInv, HandlerKnows, Knows, TypeOK

(* What a step that keeps the rows in use leaves the requests to rely on.   *)
LEMMA FinishKept ==
  ASSUME IInv, PostsKept, NEW r \in Requests, Finish(r) \/ UNCHANGED handler
  PROVE  HandlerKnows' /\ handler' \in [Requests -> Handlers]
<1>1. handler' \in [Requests -> Handlers]
  BY DEF IInv, TypeOK, Finish, Idle, Handlers, Steps
<1>2. ASSUME NEW q \in Requests
      PROVE  \/ handler'[q].step = "idle"
             \/ /\ handler'[q] = handler[q] /\ handler[q].tx \in Txns
                /\ txn[handler[q].tx].status # "ABSENT"
  BY DEF IInv, TypeOK, HandlerKnows, Finish, Idle
<1>3. HandlerKnows'
  BY <1>2 DEF IInv, HandlerKnows, PostsKept
<1> QED BY <1>1, <1>3

(* A manager's decision starts on a case that is there. *)
LEMMA DecisionBegins ==
  ASSUME RInv, NEW r \in Requests, NEW c \in Txns,
         NEW step \in {"approveCase", "rejectOpenCase", "moveStock"},
         NEW n \in Int, NEW l \in Locations \cup {None},
         BeginDecision(r, step, c, n, l),
         step = "moveStock" => l \in Locations /\ l # cases[c].location /\ n # 0
  PROVE  RInv' /\ SourcesKept
<1>1. /\ cases[c].status # "ABSENT" /\ Begin(r, step, c, n, l)
      /\ UNCHANGED <<stock, txn, cases, tasks, draft>>
  BY DEF BeginDecision, DecisionAllowed, Decidable, DecidableStatuses
<1>2. txn[c].status # "ABSENT" /\ IInv
  BY <1>1, CaseCount DEF RInv
<1>3. IInv'
  BY <1>1, <1>2, BeginIInv DEF Steps
<1>4. RequestsMoved
  BY <1>1, <1>2, BeginMoves
<1>5. PostsKept /\ RowsNew /\ TasksDone /\ CasesMoved /\ SourcesKept
  BY <1>1 DEF PostsKept, RowsNew, TasksDone, CasesMoved, SourcesKept, OpenTask
<1> QED BY <1>3, <1>4, <1>5, MovesKeep

(* So does the approval of a case: the count, confirmed before, is posted.  *)
LEMMA ApproveCaseRInv ==
  ASSUME RInv, NEW r \in Requests, ApproveCase(r)
  PROVE  RInv' /\ SourcesKept
<1> DEFINE c == handler[r].tx
           x == [txn[c] EXCEPT !.status = "POSTED", !.posted = TRUE]
           y == [cases[c] EXCEPT !.status = "APPROVED", !.resolution = c]
<1>1. /\ c \in Txns /\ cases[c].status # "ABSENT"
      /\ cases[c] \in CaseRows /\ txn[c] \in TxnRows
  BY Deciding DEF ApproveCase, At
<1>2. /\ txn[c].status # "ABSENT" /\ txn[c].confirmed
      /\ cases[c].location \in Locations /\ cases[c].counted \in Nat
  BY <1>1, CaseCount
<1>3. IInv /\ TypeOK /\ txn \in [Txns -> TxnRows] /\ cases \in [Txns -> CaseRows]
      /\ stock \in [Locations -> Nat]
  BY DEF RInv, IInv, TypeOK
<1>4. /\ txn' = [txn EXCEPT ![c] = x] /\ cases' = [cases EXCEPT ![c] = y]
      /\ stock' = [stock EXCEPT ![cases[c].location] = cases[c].counted]
      /\ Finish(r) /\ UNCHANGED <<tasks, draft>>
  BY <1>1, <1>3 DEF ApproveCase, CountedBalance
<1>5. /\ x \in TxnRows /\ x.status = "POSTED" /\ x.posted /\ x.confirmed
      /\ x.action = txn[c].action /\ x.quantity = txn[c].quantity
      /\ x.source = txn[c].source /\ x.destination = txn[c].destination
      /\ x.task = txn[c].task /\ x.recountTask = txn[c].recountTask
  BY <1>1, <1>2 DEF TxnRows, TransactionStatus
<1>6. /\ y \in CaseRows /\ y.status = "APPROVED" /\ y.location = cases[c].location
      /\ y.counted = cases[c].counted /\ y.resolution = c
  BY <1>1 DEF CaseRows, CaseStatus
<1> HIDE DEF x, y
<1>7. txn' \in [Txns -> TxnRows] /\ RowsKept /\ PostedNotPending'
  BY <1>1, <1>2, <1>3, <1>4, <1>5, RowReplaced
<1>8. /\ txn'[c] = x /\ \A u \in Txns \ {c} : txn'[u] = txn[u]
      /\ cases'[c] = y /\ \A u \in Txns \ {c} : cases'[u] = cases[u]
  BY <1>1, <1>3, <1>4
<1>9. PostsKept /\ RowsNew
  BY <1>2, <1>5, <1>8 DEF PostsKept, RowsNew
<1>10. CaseMoved(c)
  BY <1>1, <1>5, <1>6, <1>8, EngineAssumption DEF CaseMoved
<1>11. CasesMoved /\ TasksDone /\ SourcesKept
  BY <1>4, <1>8, <1>10 DEF CasesMoved, TasksDone, SourcesKept, OpenTask
<1>12. HandlerKnows' /\ handler' \in [Requests -> Handlers]
  BY <1>3, <1>4, <1>9, FinishKept
<1>13. TypeOK'
  BY <1>2, <1>3, <1>4, <1>6, <1>7, <1>12 DEF TypeOK
<1>14. IInv'
  BY <1>3, <1>7, <1>12, <1>13, KeptRows DEF IInv
<1>15. RequestsMoved
  BY <1>3, <1>4, FinishMoves
<1> QED BY <1>9, <1>11, <1>14, <1>15, MovesKeep

(* And its rejection, which writes nothing else. *)
LEMMA RejectOpenCaseRInv ==
  ASSUME RInv, NEW r \in Requests, RejectOpenCase(r)
  PROVE  RInv' /\ SourcesKept
<1> DEFINE c == handler[r].tx
           y == [cases[c] EXCEPT !.status = "REJECTED"]
<1>1. /\ c \in Txns /\ cases[c].status # "ABSENT" /\ cases[c] \in CaseRows
  BY Deciding DEF RejectOpenCase, At
<1>2. IInv /\ TypeOK /\ cases \in [Txns -> CaseRows]
  BY DEF RInv, IInv, TypeOK
<1>3. /\ cases' = [cases EXCEPT ![c] = y] /\ Finish(r)
      /\ UNCHANGED <<stock, txn, tasks, draft>>
  BY DEF RejectOpenCase
<1>4. /\ y \in CaseRows /\ y.status = "REJECTED" /\ y.location = cases[c].location
      /\ y.counted = cases[c].counted /\ y.resolution = cases[c].resolution
  BY <1>1 DEF CaseRows, CaseStatus
<1> HIDE DEF y
<1>5. cases'[c] = y /\ \A u \in Txns \ {c} : cases'[u] = cases[u]
  BY <1>1, <1>2, <1>3
<1>6. CaseMoved(c)
  BY <1>1, <1>4, <1>5 DEF CaseMoved
<1>7. CasesMoved /\ TasksDone /\ SourcesKept /\ PostsKept /\ RowsNew
  BY <1>3, <1>5, <1>6
     DEF CasesMoved, TasksDone, SourcesKept, OpenTask, PostsKept, RowsNew
<1>8. HandlerKnows' /\ handler' \in [Requests -> Handlers]
  BY <1>2, <1>3, <1>7, FinishKept
<1>9. TypeOK'
  BY <1>2, <1>3, <1>4, <1>8 DEF TypeOK
<1>10. RowsKept /\ PostedNotPending'
  BY <1>2, <1>3, SameRowsKeep
<1>11. IInv'
  BY <1>2, <1>8, <1>9, <1>10, KeptRows DEF IInv
<1>12. RequestsMoved
  BY <1>2, <1>3, FinishMoves
<1> QED BY <1>7, <1>10, <1>11, <1>12, MovesKeep

(* A recount asked for on the case takes the source over from a recount     *)
(* task that is done.                                                       *)
LEMMA RequestCaseRecountRInv ==
  ASSUME RInv, NEW c \in Txns, NEW k \in Tasks, RequestCaseRecount(c, k)
  PROVE  RInv' /\ SourceTaken
<1> DEFINE old == cases[c].recountTask
           l == cases[c].location
           released == IF old = None THEN tasks ELSE [tasks EXCEPT ![old].of = None]
           y == [cases[c] EXCEPT !.status = "RECOUNT_REQUESTED", !.recountTask = k]
<1>1. IInv /\ TypeOK /\ cases \in [Txns -> CaseRows] /\ tasks \in [Tasks -> TaskRows]
  BY DEF RInv, IInv, TypeOK
<1>2. cases[c].status # "ABSENT" /\ ~OpenTask(old)
  BY DEF RequestCaseRecount, Decidable, DecidableStatuses, RecountDone
<1>3. cases[c] \in CaseRows /\ old \in Tasks \cup {None} /\ l \in Places
  BY <1>1 DEF CaseRows
<1>4. /\ tasks' = [released EXCEPT ![k] = NewRecountTask(c, l)]
      /\ \A j \in Tasks : released[j].of # c
      /\ cases' = [cases EXCEPT ![c] = y]
      /\ UNCHANGED <<stock, txn, draft, handler>>
  BY <1>1 DEF RequestCaseRecount
<1>5. /\ released \in [Tasks -> TaskRows]
      /\ \A j \in Tasks : \/ released[j] = tasks[j]
                          \/ /\ j = old /\ released[j].of = None
                             /\ released[j].status = tasks[j].status
  <2>1. CASE old = None
    BY <1>1, <2>1
  <2>2. ASSUME old # None, old \in Tasks
        PROVE  /\ released \in [Tasks -> TaskRows]
               /\ \A j \in Tasks : \/ released[j] = tasks[j]
                                   \/ /\ j = old /\ released[j].of = None
                                      /\ released[j].status = tasks[j].status
    <3> DEFINE x == [tasks[old] EXCEPT !.of = None]
    <3>1. tasks[old] \in TaskRows
      BY <1>1, <2>2
    <3>2. x \in TaskRows /\ x.of = None /\ x.status = tasks[old].status
      BY <3>1 DEF TaskRows
    <3>3. released = [tasks EXCEPT ![old] = x]
      BY <2>2
    <3> HIDE DEF x, released
    <3> QED BY <1>1, <2>2, <3>2, <3>3
  <2> QED BY <1>3, <2>1, <2>2
<1>6. /\ y \in CaseRows /\ y.status = "RECOUNT_REQUESTED" /\ y.location = l
      /\ y.counted = cases[c].counted /\ y.resolution = cases[c].resolution
  BY <1>3 DEF CaseRows, CaseStatus
<1> HIDE DEF y, released
<1>7. cases'[c] = y /\ \A u \in Txns \ {c} : cases'[u] = cases[u]
  BY <1>1, <1>4
<1>8. /\ tasks'[k] = NewRecountTask(c, l)
      /\ \A j \in Tasks \ {k} : tasks'[j] = released[j]
  BY <1>4, <1>5
<1>9. NewRecountTask(c, l) \in TaskRows
  BY <1>3 DEF NewRecountTask, TaskRows, TaskStatus, TaskTypes, Places
<1>10. SourceTaken
  <2>1. \A j \in Tasks \ {k} :
          /\ tasks'[j].of # c
          /\ tasks'[j] = tasks[j] \/ (~OpenTask(j)' /\ tasks'[j].of = None)
    BY <1>2, <1>4, <1>5, <1>8 DEF OpenTask
  <2> QED BY <1>3, <1>8, <2>1 DEF SourceTaken
<1>11. TasksDone
  BY <1>5, <1>8 DEF TasksDone, NewRecountTask
<1>12. CaseMoved(c)
  BY <1>2, <1>6, <1>7 DEF CaseMoved
<1>13. CasesMoved /\ PostsKept /\ RowsNew /\ RequestsMoved
  BY <1>4, <1>7, <1>12 DEF CasesMoved, PostsKept, RowsNew, RequestsMoved
<1>14. TypeOK'
  BY <1>1, <1>4, <1>5, <1>6, <1>9 DEF TypeOK
<1>15. RowsKept /\ PostedNotPending'
  BY <1>1, <1>4, SameRowsKeep
<1>16. IInv'
  BY <1>1, <1>4, <1>14, <1>15, KeptRows DEF IInv, HandlerKnows
<1> QED BY <1>10, <1>11, <1>13, <1>15, <1>16, MovesKeep

(* What resolving a case as a transfer writes: a posted row between two     *)
(* locations, in place of none, within what is at the first of them.        *)
Transferred(c, t, from, to, q) ==
  /\ q \in Nat \ {0} /\ from \in Locations /\ to \in Locations /\ from # to
  /\ stock[from] >= q
  /\ stock' = Increase(Decrease(stock, from, q), to, q)
  /\ c # t /\ txn[t].status = "ABSENT" /\ txn[c].status # "ABSENT"
  /\ txn'[t] = TransferRow(from, to, q)
  /\ txn'[c] = [txn[c] EXCEPT !.status = "CANCELLED"]
  /\ \A u \in Txns \ {c, t} : txn'[u] = txn[u]
  /\ txn' \in [Txns -> TxnRows]

(* So does moving the difference that was read. *)
LEMMA MoveStockTransfers ==
  ASSUME RInv, NEW r \in Requests, NEW t \in Txns, MoveStock(r, t)
  PROVE  /\ handler[r].tx \in Txns
         /\ \E from, to, q : Transferred(handler[r].tx, t, from, to, q)
<1> DEFINE c == handler[r].tx
           seen == handler[r].seen
           q == IF seen > 0 THEN seen ELSE -seen
           from == IF seen > 0 THEN handler[r].row ELSE cases[c].location
           to == IF seen > 0 THEN cases[c].location ELSE handler[r].row
<1>1. c \in Txns /\ cases[c].status # "ABSENT" /\ handler[r].step = "moveStock"
  BY Deciding DEF MoveStock, At
<1>2. txn[c].status # "ABSENT" /\ cases[c].location \in Locations
  BY <1>1, CaseCount
<1>3. /\ handler[r].row \in Locations /\ handler[r].row # cases[c].location
      /\ seen \in Int /\ seen # 0
  BY <1>1 DEF RInv, Knows, IInv, TypeOK, Handlers
<1>4. q \in Nat \ {0} /\ from \in Locations /\ to \in Locations /\ from # to
  BY <1>2, <1>3
<1>5. /\ txn[t].status = "ABSENT" /\ stock[from] >= q
      /\ stock' = Increase(Decrease(stock, from, q), to, q)
      /\ txn' = [txn EXCEPT ![t] = TransferRow(from, to, q), ![c].status = "CANCELLED"]
  BY DEF MoveStock, EnoughStock
<1> HIDE DEF q, from, to
<1>6. c # t /\ txn \in [Txns -> TxnRows]
  BY <1>2, <1>5 DEF RInv, IInv, TypeOK
<1>7. /\ txn'[t] = TransferRow(from, to, q)
      /\ txn'[c] = [txn[c] EXCEPT !.status = "CANCELLED"]
      /\ \A u \in Txns \ {c, t} : txn'[u] = txn[u]
  BY <1>1, <1>5, <1>6
<1>8. txn' \in [Txns -> TxnRows]
  <2> DEFINE z == [txn[c] EXCEPT !.status = "CANCELLED"]
             row == TransferRow(from, to, q)
  <2>1. txn[c] \in TxnRows
    BY <1>1, <1>6
  <2>2. z \in TxnRows
    BY <2>1 DEF TxnRows, TransactionStatus
  <2>3. row \in TxnRows
    BY <1>4 DEF TransferRow, TxnRows, TransactionStatus, InventoryActions, Places
  <2>4. txn' = [[txn EXCEPT ![t] = row] EXCEPT ![c] = z]
    BY <1>1, <1>5, <1>6
  <2> HIDE DEF z, row
  <2> QED BY <1>6, <2>2, <2>3, <2>4
<1>9. Transferred(c, t, from, to, q)
  BY <1>2, <1>4, <1>5, <1>6, <1>7, <1>8 DEF Transferred
<1> QED BY <1>1, <1>9

(* A transfer keeps the rows in use and adds a confirmed one.               *)
LEMMA TransferKeeps ==
  ASSUME IInv, NEW c \in Txns, NEW t \in Txns, NEW from, NEW to, NEW q,
         Transferred(c, t, from, to, q)
  PROVE  /\ PostsKept /\ RowsNew /\ RowsPlaced' /\ PostedNotPending'
         /\ stock' \in [Locations -> Nat] /\ txn'[t].posted
<1> DEFINE row == TransferRow(from, to, q)
           z == [txn[c] EXCEPT !.status = "CANCELLED"]
<1>1. txn[c] \in TxnRows /\ stock \in [Locations -> Nat] /\ RowsPlaced /\ PostedNotPending
  BY DEF IInv, TypeOK
<1>2. /\ z.status = "CANCELLED" /\ z.posted = txn[c].posted
      /\ z.confirmed = txn[c].confirmed /\ z.task = txn[c].task
      /\ z.recountTask = txn[c].recountTask /\ z.action = txn[c].action
      /\ z.quantity = txn[c].quantity /\ z.source = txn[c].source
      /\ z.destination = txn[c].destination
  BY <1>1 DEF TxnRows
<1>3. row.status = "POSTED" /\ row.confirmed /\ row.posted /\ Placed(row)
  BY DEF TransferRow, Placed, Transferred
<1>4. /\ txn'[t] = row /\ txn'[c] = z /\ \A u \in Txns \ {c, t} : txn'[u] = txn[u]
      /\ txn[t].status = "ABSENT" /\ txn[c].status # "ABSENT"
  BY DEF Transferred
<1> HIDE DEF row, z
<1>5. PostsKept /\ RowsNew
  BY <1>2, <1>3, <1>4 DEF PostsKept, RowsNew
<1>6. Placed(z)
  BY <1>1, <1>2, <1>4 DEF RowsPlaced, Placed
<1>7. RowsPlaced'
  <2>1. \A u \in Txns : txn'[u].status # "ABSENT" => Placed(txn'[u])
    BY <1>1, <1>3, <1>4, <1>6 DEF RowsPlaced
  <2> QED BY <2>1 DEF RowsPlaced, Placed
<1>8. PostedNotPending'
  BY <1>1, <1>2, <1>3, <1>4 DEF PostedNotPending
<1>9. stock' \in [Locations -> Nat]
  BY <1>1 DEF Transferred, Increase, Decrease
<1> QED BY <1>3, <1>4, <1>5, <1>7, <1>8, <1>9

(* So the invariant is kept when a case is resolved as a transfer.          *)
LEMMA MoveStockRInv ==
  ASSUME RInv, NEW r \in Requests, NEW t \in Txns, MoveStock(r, t)
  PROVE  RInv' /\ SourcesKept
<1> DEFINE c == handler[r].tx
           y == [cases[c] EXCEPT !.status = "RESOLVED_AS_TRANSFER", !.resolution = t]
<1>1. /\ c \in Txns /\ cases[c].status # "ABSENT" /\ cases[c] \in CaseRows
  BY Deciding DEF MoveStock, At
<1>2. IInv /\ TypeOK /\ cases \in [Txns -> CaseRows]
  BY DEF RInv, IInv, TypeOK
<1>3. PICK from, to, q : Transferred(c, t, from, to, q)
  BY MoveStockTransfers
<1>4. /\ PostsKept /\ RowsNew /\ RowsPlaced' /\ PostedNotPending'
      /\ stock' \in [Locations -> Nat] /\ txn'[t].posted /\ txn' \in [Txns -> TxnRows]
  <2>1. txn' \in [Txns -> TxnRows]
    BY <1>3 DEF Transferred
  <2> QED BY <1>1, <1>2, <1>3, <2>1, TransferKeeps
<1>5. cases' = [cases EXCEPT ![c] = y] /\ Finish(r) /\ UNCHANGED <<tasks, draft>>
  BY <1>1, <1>2 DEF MoveStock
<1>6. /\ y \in CaseRows /\ y.status = "RESOLVED_AS_TRANSFER"
      /\ y.location = cases[c].location /\ y.counted = cases[c].counted
      /\ y.resolution = t
  BY <1>1 DEF CaseRows, CaseStatus
<1> HIDE DEF y
<1>7. cases'[c] = y /\ \A u \in Txns \ {c} : cases'[u] = cases[u]
  BY <1>1, <1>2, <1>5
<1>8. CaseMoved(c)
  BY <1>1, <1>4, <1>6, <1>7 DEF CaseMoved
<1>9. CasesMoved /\ TasksDone /\ SourcesKept
  BY <1>5, <1>7, <1>8 DEF CasesMoved, TasksDone, SourcesKept, OpenTask
<1>10. HandlerKnows' /\ handler' \in [Requests -> Handlers]
  BY <1>2, <1>4, <1>5, FinishKept
<1>11. TypeOK'
  BY <1>2, <1>4, <1>5, <1>6, <1>10 DEF TypeOK
<1>12. IInv'
  BY <1>4, <1>10, <1>11 DEF IInv
<1>13. RequestsMoved
  BY <1>2, <1>5, FinishMoves
<1> QED BY <1>4, <1>9, <1>12, <1>13, MovesKeep

--------------------------------------------------------------------------------
(* The theorems *)

(* The database starts without transactions, hence without cases. *)
LEMMA InitRInv == Init => RInv
<1> SUFFICES ASSUME Init PROVE RInv
  OBVIOUS
<1>1. /\ \A t \in Txns : /\ txn[t].status = "ABSENT" /\ ~txn[t].confirmed
                         /\ cases[t].status = "ABSENT" /\ cases[t].resolution = None
      /\ \A r \in Requests : handler[r].step = "idle"
      /\ tasks = InitialTasks
  BY DEF Init, NoTxn, NoCase, Idle
<1> QED BY <1>1, InitIInv, FreshAssumption
        DEF RInv, RowsConfirmed, Knows, CompletedTaskHasConfirmedWork,
            CaseBelongsToConfirmedCount, ResolutionWasPosted

(* And without a recount that was asked for. *)
LEMMA InitOneSource == Init => OneSource
  BY FreshAssumption, ReviewAssumption DEF Init, OneSource, OpenTask

(* Every step of the engine and of the review keeps the invariant, and the  *)
(* tasks their sources.                                                     *)
LEMMA StepRInv ==
  ASSUME RInv, [ReviewNext]_vars
  PROVE  RInv' /\ (SourcesKept \/ SourceTaken)
<1>1. CASE [Next]_vars
  BY <1>1, EngineRInv, EngineSources DEF RInv
<1>2. ASSUME NEW r \in Requests, NEW c \in Txns,
             ApproveCaseRead(r, c) \/ RejectCaseRead(r, c)
             \/ \E l \in Locations : MoveStockRead(r, c, l)
      PROVE  RInv' /\ SourcesKept
  <2>1. cases[c].difference \in Int
    BY DEF RInv, IInv, TypeOK, CaseRows
  <2> QED BY <1>2, <2>1, DecisionBegins
          DEF ApproveCaseRead, RejectCaseRead, MoveStockRead
<1> QED BY <1>1, <1>2, ApproveCaseRInv, RejectOpenCaseRInv, RequestCaseRecountRInv,
           MoveStockRInv DEF ReviewNext

(* Rows, cases, tasks and requests keep their shape, and no balance is ever *)
(* negative, whatever is decided on the cases.                              *)
THEOREM ReviewTypeCorrect == ReviewSpec => []TypeOK
<1>1. RInv /\ [ReviewNext]_vars => RInv'
  BY StepRInv
<1>2. RInv => TypeOK
  BY DEF RInv, IInv
<1> QED BY InitRInv, <1>1, <1>2, PTL DEF ReviewSpec

(* A task is completed only together with the confirmation of work entered  *)
(* for it, whichever way its count is decided.                              *)
THEOREM WorkBeforeCompletion == ReviewSpec => []CompletedTaskHasConfirmedWork
<1>1. RInv /\ [ReviewNext]_vars => RInv'
  BY StepRInv
<1>2. RInv => CompletedTaskHasConfirmedWork
  BY DEF RInv
<1> QED BY InitRInv, <1>1, <1>2, PTL DEF ReviewSpec

(* So it is when only the engine decides.                                   *)
THEOREM EngineWorkBeforeCompletion == Spec => []CompletedTaskHasConfirmedWork
<1>1. RInv /\ [Next]_vars => RInv'
  BY EngineRInv
<1>2. RInv => CompletedTaskHasConfirmedWork
  BY DEF RInv
<1> QED BY InitRInv, <1>1, <1>2, PTL DEF Spec

(* A case stands for a confirmed first count at the place counted, and what *)
(* a manager can make the balance is a quantity a worker confirmed.         *)
THEOREM CasesStandForCounts == ReviewSpec => []CaseBelongsToConfirmedCount
<1>1. RInv /\ [ReviewNext]_vars => RInv'
  BY StepRInv
<1>2. RInv => CaseBelongsToConfirmedCount
  BY DEF RInv
<1> QED BY InitRInv, <1>1, <1>2, PTL DEF ReviewSpec

(* What resolved a case has reached the balances, and an approved case has  *)
(* such a resolution, whatever is written over either afterwards.           *)
THEOREM ResolutionsArePosted == ReviewSpec => []ResolutionWasPosted
<1>1. RInv /\ [ReviewNext]_vars => RInv'
  BY StepRInv
<1>2. RInv => ResolutionWasPosted
  BY DEF RInv
<1> QED BY InitRInv, <1>1, <1>2, PTL DEF ReviewSpec

(* A count has one open recount task at most, whether the recount is asked  *)
(* for on the transaction or on the case, again, or at the same time.       *)
THEOREM RecountsAreUnique == ReviewSpec => []OneOpenRecountPerCount
<1>1. RInv /\ OneSource /\ [ReviewNext]_vars => RInv' /\ OneSource'
  BY StepRInv, SourcesStay
<1>2. OneSource => OneOpenRecountPerCount
  BY DEF OneSource, OneOpenRecountPerCount
<1> QED BY InitRInv, InitOneSource, <1>1, <1>2, PTL DEF ReviewSpec

--------------------------------------------------------------------------------
(* The review implements the ledger *)

(* Resolving a case as a transfer is a Move of the ledger. *)
LEMMA TransferMoves ==
  ASSUME Quantities = Nat \ {0}, IInv, NEW c \in Txns, NEW t \in Txns,
         NEW from, NEW to, NEW q, Transferred(c, t, from, to, q),
         txn[c].action = "CYCLE_COUNT"
  PROVE  Ledger!Move(t)
<1> DEFINE m == [action |-> "TRANSFER", quantity |-> q, source |-> from, destination |-> to]
<1>1. /\ stock \in [Locations -> Nat] /\ txn[c] \in TxnRows
      /\ q \in Nat \ {0} /\ from \in Locations /\ to \in Locations /\ from # to
      /\ stock[from] >= q
      /\ stock' = [[stock EXCEPT ![from] = @ - q] EXCEPT ![to] = @ + q]
  BY DEF IInv, TypeOK, Transferred, Increase, Decrease
<1>2. /\ c # t /\ txn[t].status = "ABSENT" /\ txn'[t] = TransferRow(from, to, q)
      /\ txn'[c] = [txn[c] EXCEPT !.status = "CANCELLED"]
      /\ \A u \in Txns \ {c, t} : txn'[u] = txn[u]
  BY DEF Transferred
<1>3. m \in Ledger!Movements
  BY <1>1 DEF Ledger!Movements
<1>4. \A l \in Locations : /\ Ledger!Inflow(m, l) = (IF l = to THEN q ELSE 0)
                           /\ Ledger!Outflow(m, l) = (IF l = from THEN q ELSE 0)
  BY DEF Ledger!Inflow, Ledger!Outflow
<1>5. \A u \in Txns : Moved(u)' <=> (u = t \/ Moved(u))
  <2>1. txn'[c].action = "CYCLE_COUNT"
    BY <1>1, <1>2 DEF TxnRows
  <2>2. txn'[t].posted /\ txn'[t].action # "CYCLE_COUNT"
    BY <1>2 DEF TransferRow
  <2> QED BY <1>2, <2>1, <2>2 DEF Moved
<1>6. Movement(t)' = m /\ \A u \in Txns : Moved(u) => Movement(u)' = Movement(u)
  <2>1. ~Moved(t)
    BY <1>2 DEF IInv, PostedNotPending, Moved
  <2> QED BY <1>2, <2>1 DEF Movement, TransferRow, Moved
<1> HIDE DEF m
<1>7. \A l \in Locations : Ledger!Outflow(m, l) <= stock[l]
  BY <1>1, <1>4
<1>8. stock' = [l \in Locations |->
                  stock[l] + Ledger!Inflow(m, l) - Ledger!Outflow(m, l)]
  <2>1. stock' = [l \in Locations |-> IF l = from THEN stock[l] - q
                                  ELSE IF l = to THEN stock[l] + q ELSE stock[l]]
    <3> DEFINE given == [stock EXCEPT ![from] = @ - q]
    <3>1. given = [l \in Locations |-> IF l = from THEN stock[l] - q ELSE stock[l]]
      BY <1>1
    <3>2. stock' = [given EXCEPT ![to] = given[to] + q]
      BY <1>1
    <3> HIDE DEF given
    <3>3. stock' = [l \in Locations |-> IF l = to THEN given[to] + q ELSE given[l]]
      BY <3>1, <3>2
    <3> QED BY <1>1, <3>1, <3>3
  <2>2. \A l \in Locations :
          stock[l] + Ledger!Inflow(m, l) - Ledger!Outflow(m, l)
            = IF l = from THEN stock[l] - q
              ELSE IF l = to THEN stock[l] + q ELSE stock[l]
    BY <1>1, <1>4
  <2> QED BY <2>1, <2>2
<1>9. MovedRows = [u \in {v \in Txns : Moved(v)} |-> Movement(u)]
  BY DEF MovedRows, Moved, Movement
<1>10. MovedRows' = [u \in {v \in Txns : Moved(v)'} |-> Movement(u)']
  BY DEF MovedRows, Moved, Movement
<1>11. t \notin DOMAIN MovedRows
  BY <1>2, <1>9 DEF IInv, PostedNotPending, Moved
<1>12. MovedRows' = [u \in DOMAIN MovedRows \cup {t} |->
                       IF u = t THEN m ELSE MovedRows[u]]
  <2> HIDE DEF Moved
  <2>1. DOMAIN MovedRows = {v \in Txns : Moved(v)}
    BY <1>9
  <2>2. {v \in Txns : Moved(v)'} = DOMAIN MovedRows \cup {t}
    BY <1>5, <2>1
  <2>3. \A u \in DOMAIN MovedRows : u \in Txns /\ Moved(u) /\ MovedRows[u] = Movement(u)
    BY <1>9
  <2> HIDE DEF Movement
  <2>4. \A u \in DOMAIN MovedRows \cup {t} :
          Movement(u)' = IF u = t THEN m ELSE MovedRows[u]
    BY <1>6, <1>11, <2>3
  <2> QED BY <1>10, <2>2, <2>4
<1> QED BY <1>3, <1>7, <1>8, <1>11, <1>12 DEF Ledger!Move

(* Approving a case is a Count of the ledger: the rows that moved stay.     *)
LEMMA ApprovalCounts ==
  ASSUME Quantities = Nat \ {0}, RInv, NEW r \in Requests, ApproveCase(r)
  PROVE  Ledger!Next
<1> DEFINE c == handler[r].tx
<1>1. /\ c \in Txns /\ cases[c].status # "ABSENT" /\ txn[c] \in TxnRows
      /\ txn \in [Txns -> TxnRows]
  BY Deciding DEF ApproveCase, At, RInv, IInv, TypeOK
<1>2. /\ txn[c].action = "CYCLE_COUNT"
      /\ cases[c].location \in Locations /\ cases[c].counted \in Quantities
  BY <1>1, CaseCount
<1>3. /\ txn'[c] = [txn[c] EXCEPT !.status = "POSTED", !.posted = TRUE]
      /\ \A u \in Txns \ {c} : txn'[u] = txn[u]
      /\ stock' = [stock EXCEPT ![cases[c].location] = cases[c].counted]
  BY <1>1 DEF ApproveCase, CountedBalance
<1>4. txn'[c].action = "CYCLE_COUNT"
  BY <1>1, <1>2, <1>3 DEF TxnRows
<1>5. \A u \in Txns : (Moved(u)' <=> Moved(u)) /\ (Moved(u) => Movement(u)' = Movement(u))
  BY <1>2, <1>3, <1>4 DEF Moved, Movement
<1>6. MovedRows' = MovedRows
  BY <1>5, SameMovedRows
<1>7. Ledger!Count(cases[c].location, cases[c].counted)
  BY <1>3, <1>6 DEF Ledger!Count
<1> QED BY <1>2, <1>7 DEF Ledger!Next

(* The engine and the review implement the ledger together: what an         *)
(* approved case counted, and what a resolved one moved, reaches the        *)
(* balances once, as a whole and within what is there.  The hypothesis is   *)
(* validateTransaction's: every positive integer is a quantity.             *)
THEOREM ReviewImplementsLedger ==
  ASSUME Quantities = Nat \ {0}
  PROVE  ReviewSpec => LedgerSpec
<1>1. RInv /\ [ReviewNext]_vars => RInv'
  BY StepRInv
<1>2. RInv /\ [ReviewNext]_vars => [Ledger!Next]_(Ledger!ledgerVars)
  <2> SUFFICES ASSUME RInv, [ReviewNext]_vars
               PROVE  Ledger!Next \/ UNCHANGED Ledger!ledgerVars
    OBVIOUS
  <2>0. IInv /\ RowQuantities
    BY RowPlaces DEF RInv, RowQuantities
  <2>1. CASE [Next]_vars
    BY <2>0, <2>1, StepLedger
  <2>2. ASSUME UNCHANGED <<stock, txn>> PROVE UNCHANGED Ledger!ledgerVars
    BY <2>0, <2>2, SameRowsKeep, RestStutters
  <2>3. ASSUME NEW r \in Requests, NEW c \in Txns,
               ApproveCaseRead(r, c) \/ RejectCaseRead(r, c)
               \/ \E l \in Locations : MoveStockRead(r, c, l)
        PROVE  UNCHANGED <<stock, txn>>
    BY <2>3 DEF ApproveCaseRead, RejectCaseRead, MoveStockRead, BeginDecision
  <2>4. ASSUME NEW r \in Requests, NEW t \in Txns, MoveStock(r, t)
        PROVE  Ledger!Next
    <3>1. PICK from, to, q : Transferred(handler[r].tx, t, from, to, q)
      BY <2>4, MoveStockTransfers
    <3>2. handler[r].tx \in Txns /\ txn[handler[r].tx].action = "CYCLE_COUNT"
      BY <2>4, Deciding, CaseCount DEF MoveStock, At
    <3>3. Ledger!Move(t)
      BY <2>0, <3>1, <3>2, TransferMoves
    <3> QED BY <3>3 DEF Ledger!Next
  <2>5. ASSUME NEW r \in Requests, ApproveCase(r)
        PROVE  Ledger!Next
    BY <2>5, ApprovalCounts
  <2>6. ASSUME NEW r \in Requests, RejectOpenCase(r)
        PROVE  UNCHANGED <<stock, txn>>
    BY <2>6 DEF RejectOpenCase
  <2>7. ASSUME NEW c \in Txns, NEW k \in Tasks, RequestCaseRecount(c, k)
        PROVE  UNCHANGED <<stock, txn>>
    BY <2>7 DEF RequestCaseRecount
  <2> QED BY <2>1, <2>2, <2>3, <2>4, <2>5, <2>6, <2>7 DEF ReviewNext
<1> QED BY InitRInv, InitLedger, <1>1, <1>2, PTL
        DEF ReviewSpec, LedgerSpec, Ledger!Spec

================================================================================
