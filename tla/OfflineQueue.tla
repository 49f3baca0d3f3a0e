------------------------------ MODULE OfflineQueue ------------------------------
(***************************************************************************)
(* The outbox of the worker's device (offline/offline-queue.ts), the loops *)
(* that empty it, and what the API does with the two calls of each update, *)
(* POST /inventory/transactions and .../confirm.                           *)
(*                                                                         *)
(* Any number of loops may run at once: every tab starts its own, and the  *)
(* `syncing' flag of useOfflineSync is cleared by each early return and    *)
(* forgotten when its effect runs again.  A call may be lost, or its reply *)
(* be lost, before or after the server has done its work; and the server   *)
(* may refuse it, again at every repetition: stock, products, locations    *)
(* and evidence are not state here, so whether it does is left open.  The  *)
(* records of the store belong to one user (ownerId), who stays signed in. *)
(***************************************************************************)
EXTENDS Integers, FiniteSets

CONSTANTS Updates,        \* what a worker may have said, one proposal each
          Reviewed,       \* those that may wait for a manager, as counts and damages do
          MaxRequests,    \* bound on the client request ids given out
          Loops           \* runs of synchronizeOfflineInventoryUpdates

ASSUME QueueAssumption == Reviewed \subseteq Updates /\ MaxRequests \in Nat

VARIABLES rows,           \* InventoryTransaction rows by clientRequestId
          store,          \* the records of the pending-updates object store
          saves,          \* the clock: how many records have been saved
          loops           \* the runs of the loop

queueVars == <<rows, store, saves, loops>>

Requests == 1 .. MaxRequests                \* clientRequestId, by order of creation

(* A row cancelled before it was confirmed is "dropped"; one that was       *)
(* cancelled, rejected or sent to a recount after that is "closed".         *)
Statuses == {"none", "draft", "waiting", "posted", "closed", "dropped"}
Rows == [status : Statuses, updates : SUBSET Updates]  \* what the row was created for

Records == [id : Requests, update : Updates, queuedAt : Nat]

(* Refused: createTransaction answered with an error; conflict: it was      *)
(* confirmTransaction; failed: no answer.                                   *)
LoopSteps == {"idle", "create", "confirm", "remove", "failed", "refused", "conflict"}

QueueTypeOK ==
  /\ rows \in [Requests -> Rows]
  /\ store \subseteq Records
  /\ \A x \in store, y \in store : x.id = y.id => x = y          \* keyPath: id
  /\ saves \in Nat
  /\ loops \in [Loops -> [step : LoopSteps, todo : SUBSET Records]]

QueueInit ==
  /\ rows = [id \in Requests |-> [status |-> "none", updates |-> {}]]
  /\ store = {}
  /\ saves = 0
  /\ loops = [l \in Loops |-> [step |-> "idle", todo |-> {}]]

--------------------------------------------------------------------------------
(* The server *)

(* An accepted createTransaction: the row of this request if there is one,  *)
(* or a draft.                                                              *)
Created(id, update) ==
  IF rows[id].status # "none" THEN rows
  ELSE [rows EXCEPT ![id] = [status |-> "draft", updates |-> {update}]]

(* An accepted confirmTransaction: nothing is left to do for a posted row,  *)
(* and a reviewed action waits for the manager unless a count now matches.  *)
ConfirmRow(id) ==
  /\ rows[id].status \in {"draft", "waiting", "posted"}
  /\ \E next \in IF rows[id].status = "posted" \/ rows[id].updates \cap Reviewed = {}
                 THEN {"posted"} ELSE {"posted", "waiting"} :
       rows' = [rows EXCEPT ![id].status = next]

SetStatus(id, next) == rows' = [rows EXCEPT ![id].status = next]

(* A manager's approval, rejection, cancellation or recount, the worker's   *)
(* own cancellation, and the posting of a recounted case: a cancellation    *)
(* that read the row before it was posted closes a posted row, and one that *)
(* read it before it was confirmed looks like one that came later.          *)
Decide(id) ==
  /\ \/ rows[id].status = "draft" /\ SetStatus(id, "dropped")
     \/ rows[id].status = "waiting" /\ \E next \in {"posted", "closed"} : SetStatus(id, next)
     \/ rows[id].status = "posted" /\ SetStatus(id, "closed")
     \/ /\ rows[id].status = "closed" /\ rows[id].updates \cap Reviewed # {}
        /\ SetStatus(id, "posted")
  /\ UNCHANGED <<store, saves, loops>>

--------------------------------------------------------------------------------
(* The object store *)

PutBlind(record) == store \cup {record}          \* mutant: no key path
Put(record) == {x \in store : x.id # record.id} \cup {record}
Without(id) == {x \in store : x.id # id}

(* enqueueOfflineInventoryUpdate *)
Enqueue(id, update) ==
  /\ store' = Put([id |-> id, update |-> update, queuedAt |-> saves + 1])
  /\ saves' = saves + 1

--------------------------------------------------------------------------------
(* synchronizeOfflineInventoryUpdates *)

First(records) == CHOOSE x \in records : \A y \in records : x.queuedAt <= y.queuedAt

At(l, step) == loops[l].step = step
Goto(l, step) == loops' = [loops EXCEPT ![l].step = step]

(* A change of the queue, the 30-second timer or a start of the app finds   *)
(* records waiting; the loop takes a copy of all of them.                   *)
StartLoop(l) ==
  /\ At(l, "idle")
  /\ store # {}
  /\ loops' = [loops EXCEPT ![l] = [step |-> "create", todo |-> store]]
  /\ UNCHANGED <<rows, store, saves>>

LoopCreate(l) ==
  LET record == First(loops[l].todo) IN
  /\ At(l, "create")
  /\ rows' = Created(record.id, record.update)
  /\ Goto(l, "confirm")
  /\ UNCHANGED <<store, saves>>

LoopConfirm(l) ==
  /\ At(l, "confirm")
  /\ ConfirmRow(First(loops[l].todo).id)
  /\ Goto(l, "remove")
  /\ UNCHANGED <<store, saves>>

(* Mutant: a failure is swallowed. *)
CallFailsUnnoticed(l) ==
  LET record == First(loops[l].todo) IN
  /\ At(l, "create") \/ At(l, "confirm")
  /\ Goto(l, "remove")
  /\ UNCHANGED <<rows, store, saves>>

(* A call or its reply is lost, or the session is not valid just now; the   *)
(* server may have done its work.                                           *)
CallFails(l) ==
  LET record == First(loops[l].todo) IN
  /\ \/ /\ At(l, "create")
        /\ rows' \in {rows, Created(record.id, record.update)}
     \/ /\ At(l, "confirm")
        /\ UNCHANGED rows \/ ConfirmRow(record.id)
  /\ Goto(l, "failed")
  /\ UNCHANGED <<store, saves>>

(* createTransaction may refuse any update: the product or a location is    *)
(* not active any more, which it asks before it looks for the row of the    *)
(* request, or the evidence is not this user's or has been used.            *)
CreateRefused(l) ==
  /\ At(l, "create")
  /\ Goto(l, "refused")
  /\ UNCHANGED <<rows, store, saves>>

(* Mutant: a confirmation may be refused because it is a repeated one. *)
RepetitionRefused(l) ==
  /\ At(l, "confirm")
  /\ Goto(l, "conflict")
  /\ UNCHANGED <<rows, store, saves>>

(* confirmTransaction accepts a posted row whatever else is the case, and   *)
(* may refuse any other: the stock is missing or was changed by another     *)
(* transaction; a row that was cancelled, rejected or sent to a recount is  *)
(* a conflict.                                                              *)
ConfirmRefused(l) ==
  /\ At(l, "confirm")
  /\ rows[First(loops[l].todo).id].status # "posted"
  /\ Goto(l, "conflict")
  /\ UNCHANGED <<rows, store, saves>>

Caught(l) == At(l, "failed") \/ At(l, "refused") \/ At(l, "conflict")

(* The record is deleted and the loop goes on to the next one. *)
LoopRemove(l) ==
  LET record == First(loops[l].todo)
      rest == loops[l].todo \ {record}
  IN
  /\ At(l, "remove")
  /\ store' = Without(record.id)
  /\ loops' = [loops EXCEPT ![l] =
       [step |-> IF rest = {} THEN "idle" ELSE "create", todo |-> rest]]
  /\ UNCHANGED <<rows, saves>>

(* Mutant: `continue' for `break'. *)
LoopSkips(l) ==
  LET record == First(loops[l].todo)
      rest == loops[l].todo \ {record}
  IN
  /\ Caught(l)
  /\ store' = Put(record)
  /\ loops' = [loops EXCEPT ![l] =
       [step |-> IF rest = {} THEN "idle" ELSE "create", todo |-> rest]]
  /\ UNCHANGED <<rows, saves>>

(* recordOfflineSyncFailure puts back the copy the loop has, even when      *)
(* another tab has removed the record meanwhile; the loop breaks off.       *)
LoopFails(l) ==
  /\ Caught(l)
  /\ store' = Put(First(loops[l].todo))
  /\ loops' = [loops EXCEPT ![l] = [step |-> "idle", todo |-> {}]]
  /\ UNCHANGED <<rows, saves>>

(* The tab is closed or reloaded. *)
LoopDies(l) ==
  /\ ~At(l, "idle")
  /\ loops' = [loops EXCEPT ![l] = [step |-> "idle", todo |-> {}]]
  /\ UNCHANGED <<rows, store, saves>>

QueueNext ==
  \/ \E l \in Loops : \/ StartLoop(l) \/ LoopCreate(l) \/ LoopConfirm(l)
                      \/ CreateRefused(l) \/ ConfirmRefused(l) \/ CallFails(l)
                      \/ LoopRemove(l) \/ LoopFails(l) \/ LoopDies(l)
  \/ \E id \in Requests : Decide(id)

Waits(id) == \E x \in store : x.id = id

(* The screen saves an update after a call of it has got no reply: the      *)
(* server may know nothing of the request, or have done either call.        *)
Save(id, update) ==
  /\ rows[id].status = "none" /\ ~Waits(id)
  /\ \E status \in {"none", "draft", "posted"} \cup
                    IF update \in Reviewed THEN {"waiting"} ELSE {} :
       rows' = [rows EXCEPT ![id] =
                  [status |-> status, updates |-> IF status = "none" THEN {} ELSE {update}]]
  /\ Enqueue(id, update)
  /\ UNCHANGED loops

(* The timer runs for ever; an app that is opened again and again stays     *)
(* open long enough once; and a call that is repeated for ever is answered  *)
(* some time, in one tab or another.  What the answer is, an acceptance or  *)
(* a refusal, is not assumed.  A loop that has caught an error writes it    *)
(* down, unless its tab is closed.                                          *)
CreateAnswered(l) == LoopCreate(l) \/ CreateRefused(l)
ConfirmAnswered(l) == LoopConfirm(l) \/ ConfirmRefused(l)

SomeLoop(id, Do(_)) ==
  \E l \in Loops : loops[l].todo # {} /\ First(loops[l].todo).id = id /\ Do(l)

QueueFairness ==
  /\ WF_queueVars(\E l \in Loops : StartLoop(l))
  /\ \A l \in Loops : WF_queueVars(LoopFails(l))
  /\ \A id \in Requests : /\ SF_queueVars(SomeLoop(id, CreateAnswered))
                          /\ SF_queueVars(SomeLoop(id, ConfirmAnswered))
                          /\ SF_queueVars(SomeLoop(id, LoopRemove))

QueueSpec ==
  /\ QueueInit
  /\ [][QueueNext \/ \E id \in Requests, u \in Updates : Save(id, u)]_queueVars
  /\ QueueFairness

--------------------------------------------------------------------------------
(* Properties of the queue *)

(* No update is lost on the way: a record leaves the store only when the    *)
(* transaction of its request has been confirmed, whichever tabs removed it *)
(* and put it back ("Confirm once and remove from device queue",            *)
(* docs/OFFLINE_PWA.md).                                                    *)
RemovedWasConfirmed ==
  [][\A x \in store :
       (\A y \in store' : y.id # x.id) => rows[x.id].status \in {"waiting", "posted", "closed"}]_store

(* Updates reach the server in the order they were saved, whichever tab    *)
(* sends them: the row of a record is confirmed by the queue when those of  *)
(* all records saved before it have been (`break' at the first failure).    *)
Unsent(id) == rows[id].status \in {"none", "draft", "dropped"}

SentInOrder ==
  [][\A x \in store, y \in store :
       (x.queuedAt < y.queuedAt /\ Unsent(y.id) /\ rows'[y.id].status \in {"waiting", "posted"})
         => ~Unsent(x.id)]_rows

(* A record that is saved leaves the device, again each time another tab    *)
(* puts it back, unless the server refuses it, or one saved before it,      *)
(* again and again: a refused record holds back those behind it for ever    *)
(* (`break').  Nothing else does: no lost call or reply, no row that is     *)
(* there already, and no confirmation that repeats one that was posted.     *)
RefusedNow(l) ==
  \/ At(l, "refused")
  \/ At(l, "conflict") /\ rows[First(loops[l].todo).id].status # "posted"

Blocked(id) ==
  \E l \in Loops, y \in store :
    RefusedNow(l) /\ y.id = id /\ First(loops[l].todo).queuedAt <= y.queuedAt

SavedIsDelivered == \A id \in Requests : []<>~Waits(id) \/ []<>Blocked(id)

(* "It will synchronize automatically when the connection returns." (the    *)
(* message of confirmProposal): what is not itself refused again and again  *)
(* leaves the device.  It does not hold: a refused record before it stops   *)
(* the loop.                                                                *)
RefusedItself(id) ==
  \E l \in Loops : RefusedNow(l) /\ First(loops[l].todo).id = id

SavedIsSynchronized == \A id \in Requests : []<>~Waits(id) \/ []<>RefusedItself(id)

================================================================================
