--------------------------- MODULE OfflineQueue_proofs ---------------------------
(***************************************************************************)
(* Theorems about OfflineQueue, for any updates and any number of requests *)
(* and of synchronizing loops.                                             *)
(*                                                                         *)
(* The loops work on copies of the queue, so the store alone says little.  *)
(* The invariant compares the copies with it: a record that a copy has and *)
(* the store has not was confirmed (Kept), and what was saved before a     *)
(* record of a copy is in that copy too or was confirmed (InOrder).        *)
(***************************************************************************)
EXTENDS OfflineQueue, WellFoundedInduction, TLAPS

Copies == UNION {loops[l].todo : l \in Loops}

Sent(id) == rows[id].status \in {"waiting", "posted", "closed"}

Busy == \A l \in Loops : loops[l].step # "idle" => loops[l].todo # {}

Clocked == \A x \in store \cup Copies : x.queuedAt <= saves

Acknowledged == \A l \in Loops : At(l, "remove") => Sent(First(loops[l].todo).id)

Kept == \A x \in Copies : x \in store \/ Sent(x.id)

OneRecord == \A x \in store \cup Copies : \A y \in store \cup Copies : x.id = y.id => x = y

InOrder ==
  \A l \in Loops : \A r \in loops[l].todo : \A x \in store :
    x.queuedAt < r.queuedAt => x \in loops[l].todo \/ Sent(x.id)

IInv == /\ QueueTypeOK /\ Busy /\ Clocked
        /\ Acknowledged /\ Kept /\ OneRecord /\ InOrder

Env == \E id \in Requests, u \in Updates : Save(id, u)

QueueStep == QueueNext \/ Env

--------------------------------------------------------------------------------
(* The records *)

(* A copy that is not empty has a first record, and First is it. *)
LEMMA FirstExists ==
  ASSUME NEW S, S \subseteq Records, S # {}
  PROVE  /\ First(S) \in S
         /\ \A y \in S : First(S).queuedAt <= y.queuedAt
<1> DEFINE Times == {x.queuedAt : x \in S}
<1>1. Times \subseteq Nat /\ Times # {} BY DEF Records
<1> HIDE DEF Times
<1>2. PICK t \in Times : \A u \in Times : t <= u
  <2> DEFINE Less == {ss \in Nat \X Nat : ss[1] < ss[2]}
  <2>1. IsWellFoundedOn(Less, Nat) BY NatLessThanWellFounded DEF OpToRel
  <2>2. \A x, y \in Nat : x < y => <<x, y>> \in Less OBVIOUS
  <2> HIDE DEF Less
  <2>3. \E t \in Times : \A u \in Times : ~ (<<u, t>> \in Less) BY <1>1, <2>1, WFMin
  <2>4. PICK t \in Times : \A u \in Times : ~ (<<u, t>> \in Less) BY <2>3
  <2>5. \A u \in Times : ~(u < t) BY <1>1, <2>2, <2>4
  <2> QED BY <1>1, <2>4, <2>5
<1> USE DEF Times
<1>3. PICK x \in S : x.queuedAt = t BY <1>2
<1>4. \A y \in S : x.queuedAt <= y.queuedAt BY <1>2, <1>3
<1>5. \E z \in S : \A y \in S : z.queuedAt <= y.queuedAt BY <1>4
<1> HIDE DEF Times
<1> QED BY <1>5 DEF First

LEMMA FirstOfCopy ==
  ASSUME QueueTypeOK, Busy, NEW l \in Loops, loops[l].step # "idle"
  PROVE  /\ First(loops[l].todo) \in loops[l].todo
         /\ First(loops[l].todo) \in Records
         /\ \A y \in loops[l].todo : First(loops[l].todo).queuedAt <= y.queuedAt
<1>1. loops[l].todo \subseteq Records /\ loops[l].todo # {} BY DEF QueueTypeOK, Busy
<1> QED BY <1>1, FirstExists

--------------------------------------------------------------------------------
(* The rows of the server only grow *)

RowsGrow == /\ rows' \in [Requests -> Rows]
            /\ \A id \in Requests : Sent(id) => Sent(id)'

LEMMA CreatedGrows ==
  ASSUME QueueTypeOK, NEW id \in Requests, NEW u \in Updates, rows' = Created(id, u)
  PROVE  RowsGrow
  BY DEF QueueTypeOK, RowsGrow, Created, Rows, Statuses, Sent

LEMMA ConfirmedGrows ==
  ASSUME QueueTypeOK, NEW id \in Requests, ConfirmRow(id)
  PROVE  RowsGrow /\ Sent(id)'
<1>1. PICK next \in {"posted", "waiting"} : rows' = [rows EXCEPT ![id].status = next]
  BY DEF ConfirmRow
<1> QED BY <1>1 DEF QueueTypeOK, RowsGrow, Rows, Statuses, Sent

LEMMA SameRows ==
  ASSUME QueueTypeOK, UNCHANGED rows
  PROVE  RowsGrow
  BY DEF QueueTypeOK, RowsGrow, Sent

LEMMA SentStays ==
  ASSUME QueueTypeOK, RowsGrow, NEW x \in Records, Sent(x.id)
  PROVE  Sent(x.id)'
  BY DEF RowsGrow, Records

--------------------------------------------------------------------------------
(* The steps that move no record *)

LEMMA NothingMoves ==
  ASSUME IInv, RowsGrow, UNCHANGED <<store, saves>>,
         loops' \in [Loops -> [step : LoopSteps, todo : SUBSET Records]],
         \A l \in Loops : /\ loops'[l].todo = loops[l].todo
                          /\ loops'[l].step # "idle" => loops[l].step # "idle",
         Acknowledged'
  PROVE  IInv'
<1>1. QueueTypeOK' BY DEF IInv, QueueTypeOK, RowsGrow
<1>2. Copies' = Copies BY DEF Copies
<1>3. Copies \subseteq Records /\ store \subseteq Records BY DEF IInv, QueueTypeOK, Copies
<1>4. Busy' BY DEF IInv, Busy
<1>5. Clocked' BY <1>2 DEF IInv, Clocked
<1>6. Kept' BY <1>2, <1>3, SentStays DEF IInv, Kept
<1>7. OneRecord' BY <1>2 DEF IInv, OneRecord
<1>8. InOrder' BY <1>3, SentStays DEF IInv, InOrder
<1> QED BY <1>1, <1>4, <1>5, <1>6, <1>7, <1>8 DEF IInv

LEMMA GotoTyped ==
  ASSUME QueueTypeOK, NEW l \in Loops,
         NEW step \in LoopSteps, Goto(l, step)
  PROVE  /\ loops' \in [Loops -> [step : LoopSteps, todo : SUBSET Records]]
         /\ \A k \in Loops : loops'[k].todo = loops[k].todo
         /\ \A k \in Loops : k # l => loops'[k] = loops[k]
         /\ loops'[l].step = step
  BY DEF QueueTypeOK, Goto

(* The first records of the other loops stay confirmed. *)
LEMMA OthersAcknowledged ==
  ASSUME IInv, RowsGrow, NEW k \in Loops, loops'[k] = loops[k], At(k, "remove")'
  PROVE  Sent(First(loops[k].todo).id)'
<1>1. At(k, "remove") BY DEF At
<1>2. First(loops[k].todo) \in Records BY <1>1, FirstOfCopy DEF IInv, At
<1>3. PICK r \in Records : r = First(loops[k].todo) BY <1>2
<1>4. Sent(r.id) BY <1>1, <1>3 DEF IInv, Acknowledged
<1>5. Sent(r.id)' BY <1>4, SentStays DEF IInv
<1> QED BY <1>3, <1>5 DEF Sent

LEMMA CreateKeeps == ASSUME IInv, NEW l \in Loops, LoopCreate(l) PROVE IInv'
<1> DEFINE record == First(loops[l].todo)
<1>1. record \in Records BY FirstOfCopy DEF IInv, LoopCreate, At
<1>2. RowsGrow BY <1>1, CreatedGrows DEF IInv, LoopCreate, Records
<1>3. Goto(l, "confirm") /\ UNCHANGED <<store, saves>> /\ At(l, "create") BY DEF LoopCreate
<1>4. Acknowledged'
  BY <1>2, <1>3, GotoTyped, OthersAcknowledged DEF IInv, Acknowledged, At, LoopSteps
<1> QED BY <1>2, <1>3, <1>4, GotoTyped, NothingMoves DEF IInv, At, LoopSteps

LEMMA ConfirmKeeps == ASSUME IInv, NEW l \in Loops, LoopConfirm(l) PROVE IInv'
<1> DEFINE record == First(loops[l].todo)
<1>1. record \in Records BY FirstOfCopy DEF IInv, LoopConfirm, At
<1>2. PICK id \in Requests : id = record.id BY <1>1 DEF Records
<1>3. RowsGrow /\ Sent(id)' BY <1>2, ConfirmedGrows DEF IInv, LoopConfirm
<1>4. Goto(l, "remove") /\ UNCHANGED <<store, saves>> /\ At(l, "confirm") BY DEF LoopConfirm
<1>5. Acknowledged'
  <2>1. \A k \in Loops : k # l /\ At(k, "remove")' => Sent(First(loops[k].todo).id)'
    BY <1>3, <1>4, GotoTyped, OthersAcknowledged DEF IInv, LoopSteps
  <2>2. First(loops'[l].todo).id = id BY <1>2, <1>4, GotoTyped DEF IInv, LoopSteps
  <2> QED BY <1>3, <2>1, <2>2 DEF Acknowledged, Sent
<1> QED BY <1>3, <1>4, <1>5, GotoTyped, NothingMoves DEF IInv, At, LoopSteps

LEMMA FailureKeeps == ASSUME IInv, NEW l \in Loops, CallFails(l) PROVE IInv'
<1> DEFINE record == First(loops[l].todo)
<1>1. /\ At(l, "create") \/ At(l, "confirm")
      /\ Goto(l, "failed") /\ UNCHANGED <<store, saves>>
      /\ UNCHANGED rows \/ rows' = Created(record.id, record.update) \/ ConfirmRow(record.id)
  BY DEF CallFails
<1>2. record \in Records BY <1>1, FirstOfCopy DEF IInv, At
<1>3. RowsGrow BY <1>1, <1>2, SameRows, CreatedGrows, ConfirmedGrows DEF IInv, Records
<1>4. Acknowledged'
  BY <1>1, <1>3, GotoTyped, OthersAcknowledged DEF IInv, Acknowledged, At, LoopSteps
<1> QED BY <1>1, <1>3, <1>4, GotoTyped, NothingMoves DEF IInv, At, LoopSteps

LEMMA RefusalKeeps ==
  ASSUME IInv, NEW l \in Loops, CreateRefused(l) \/ ConfirmRefused(l)
  PROVE  IInv'
<1>1. PICK step \in {"refused", "conflict"} : Goto(l, step) BY DEF CreateRefused, ConfirmRefused
<1>2. UNCHANGED <<rows, store, saves>> /\ (At(l, "create") \/ At(l, "confirm"))
  BY DEF CreateRefused, ConfirmRefused
<1>3. RowsGrow BY <1>2, SameRows DEF IInv
<1>4. Acknowledged'
  BY <1>1, <1>2, <1>3, GotoTyped, OthersAcknowledged DEF IInv, Acknowledged, At, LoopSteps
<1> QED BY <1>1, <1>2, <1>3, <1>4, GotoTyped, NothingMoves DEF IInv, At, LoopSteps

(* A decision drops a draft, or gives a confirmed row another status. *)
LEMMA DecisionIs ==
  ASSUME NEW id \in Requests, Decide(id)
  PROVE  \E next \in {"posted", "closed", "dropped"} :
           /\ rows' = [rows EXCEPT ![id].status = next]
           /\ Sent(id) => next # "dropped"
           /\ Unsent(id) => next = "dropped"
  BY DEF Decide, SetStatus, Sent, Unsent

LEMMA DecisionKeeps == ASSUME IInv, NEW id \in Requests, Decide(id) PROVE IInv'
<1>1. PICK next \in {"posted", "closed", "dropped"} :
        rows' = [rows EXCEPT ![id].status = next] /\ (Sent(id) => next # "dropped")
  BY DecisionIs
<1>2. RowsGrow BY <1>1 DEF IInv, QueueTypeOK, RowsGrow, Rows, Statuses, Sent
<1>3. UNCHANGED <<store, saves, loops>> BY DEF Decide
<1>4. Acknowledged' BY <1>2, <1>3, OthersAcknowledged DEF Acknowledged
<1> QED BY <1>2, <1>3, <1>4, NothingMoves DEF IInv, QueueTypeOK

--------------------------------------------------------------------------------
(* The steps that move records *)

LEMMA StartKeeps == ASSUME IInv, NEW l \in Loops, StartLoop(l) PROVE IInv'
<1>1. /\ UNCHANGED <<rows, store, saves>> /\ store # {}
      /\ loops' = [loops EXCEPT ![l] = [step |-> "create", todo |-> store]]
  BY DEF StartLoop
<1>2. QueueTypeOK' BY <1>1 DEF IInv, QueueTypeOK, LoopSteps
<1>3. /\ loops'[l] = [step |-> "create", todo |-> store]
      /\ \A k \in Loops : k # l => loops'[k] = loops[k]
  BY <1>1 DEF IInv, QueueTypeOK
<1>4. Copies' \subseteq Copies \cup store BY <1>3 DEF Copies
<1>5. RowsGrow BY <1>1, SameRows DEF IInv
<1>6. Busy' BY <1>1, <1>3 DEF IInv, Busy
<1>7. Clocked' BY <1>1, <1>4 DEF IInv, Clocked
<1>8. Acknowledged' BY <1>3, <1>5, OthersAcknowledged DEF Acknowledged, At
<1>9. Kept' BY <1>1, <1>4 DEF IInv, Kept, Sent
<1>10. OneRecord' BY <1>1, <1>4 DEF IInv, OneRecord
<1>11. InOrder' BY <1>1, <1>3 DEF IInv, InOrder, Sent
<1> QED BY <1>2, <1>6, <1>7, <1>8, <1>9, <1>10, <1>11 DEF IInv

LEMMA DeathKeeps == ASSUME IInv, NEW l \in Loops, LoopDies(l) PROVE IInv'
<1>1. /\ UNCHANGED <<rows, store, saves>>
      /\ loops' = [loops EXCEPT ![l] = [step |-> "idle", todo |-> {}]]
  BY DEF LoopDies
<1>2. QueueTypeOK' BY <1>1 DEF IInv, QueueTypeOK, LoopSteps
<1>3. /\ loops'[l] = [step |-> "idle", todo |-> {}]
      /\ \A k \in Loops : k # l => loops'[k] = loops[k]
  BY <1>1 DEF IInv, QueueTypeOK
<1>4. Copies' \subseteq Copies BY <1>3 DEF Copies
<1>5. RowsGrow BY <1>1, SameRows DEF IInv
<1>6. Busy' BY <1>3 DEF IInv, Busy
<1>7. Clocked' BY <1>1, <1>4 DEF IInv, Clocked
<1>8. Acknowledged' BY <1>3, <1>5, OthersAcknowledged DEF Acknowledged, At
<1>9. Kept' BY <1>1, <1>4 DEF IInv, Kept, Sent
<1>10. OneRecord' BY <1>1, <1>4 DEF IInv, OneRecord
<1>11. InOrder' BY <1>1, <1>3 DEF IInv, InOrder, Sent
<1> QED BY <1>2, <1>6, <1>7, <1>8, <1>9, <1>10, <1>11 DEF IInv

LEMMA RemovalKeeps == ASSUME IInv, NEW l \in Loops, LoopRemove(l) PROVE IInv'
<1> DEFINE record == First(loops[l].todo)
           rest == loops[l].todo \ {record}
<1>1. /\ UNCHANGED <<rows, saves>> /\ At(l, "remove")
      /\ store' = Without(record.id)
      /\ loops' = [loops EXCEPT ![l] =
           [step |-> IF rest = {} THEN "idle" ELSE "create", todo |-> rest]]
  BY DEF LoopRemove
<1>2. record \in Copies /\ record \in Records BY <1>1, FirstOfCopy DEF IInv, At, Copies
<1>3. Sent(record.id) BY <1>1 DEF IInv, Acknowledged
<1> HIDE DEF record
<1>4. QueueTypeOK' BY <1>1 DEF IInv, QueueTypeOK, LoopSteps, Without
<1>5. /\ loops'[l].todo = rest /\ loops'[l].step \in {"idle", "create"}
      /\ loops'[l].step = "create" => rest # {}
      /\ \A k \in Loops : k # l => loops'[k] = loops[k]
  BY <1>1 DEF IInv, QueueTypeOK
<1>6. Copies' \subseteq Copies /\ store' \subseteq store BY <1>1, <1>5 DEF Copies, Without
<1>7. RowsGrow BY <1>1, SameRows DEF IInv
<1>8. Busy' BY <1>5 DEF IInv, Busy
<1>9. Clocked' BY <1>1, <1>6 DEF IInv, Clocked
<1>10. Acknowledged' BY <1>5, <1>7, OthersAcknowledged DEF Acknowledged, At
<1>11. Kept' BY <1>1, <1>3, <1>6 DEF IInv, Kept, Sent, Without
<1>12. OneRecord' BY <1>6 DEF IInv, OneRecord
<1>13. InOrder'
  <2> SUFFICES ASSUME NEW k \in Loops, NEW r \in loops'[k].todo, NEW x \in store',
                      x.queuedAt < r.queuedAt
               PROVE  x \in loops'[k].todo \/ Sent(x.id)
    BY <1>1 DEF InOrder, Sent
  <2>1. r \in loops[k].todo /\ x \in store BY <1>5, <1>6
  <2>2. x \in loops[k].todo \/ Sent(x.id) BY <2>1 DEF IInv, InOrder
  <2> QED BY <1>3, <1>5, <2>2
<1> QED BY <1>4, <1>8, <1>9, <1>10, <1>11, <1>12, <1>13 DEF IInv

(* A record put back is in the store already or was confirmed (Kept). *)
LEMMA PutBackKeeps == ASSUME IInv, NEW l \in Loops, LoopFails(l) PROVE IInv'
<1> DEFINE record == First(loops[l].todo)
<1>1. /\ UNCHANGED <<rows, saves>> /\ loops[l].step # "idle"
      /\ store' = Put(record)
      /\ loops' = [loops EXCEPT ![l] = [step |-> "idle", todo |-> {}]]
  BY DEF LoopFails, Caught, At
<1>2. record \in Copies /\ record \in Records BY <1>1, FirstOfCopy DEF IInv, At, Copies
<1> HIDE DEF record
<1>3. store' = store \cup {record}
  BY <1>1, <1>2 DEF IInv, OneRecord, Put
<1>4. QueueTypeOK'
  BY <1>1, <1>2, <1>3 DEF IInv, QueueTypeOK, LoopSteps, OneRecord
<1>5. /\ loops'[l] = [step |-> "idle", todo |-> {}]
      /\ \A k \in Loops : k # l => loops'[k] = loops[k]
  BY <1>1 DEF IInv, QueueTypeOK
<1>6. Copies' \subseteq Copies BY <1>5 DEF Copies
<1>7. RowsGrow BY <1>1, SameRows DEF IInv
<1>8. Busy' BY <1>5 DEF IInv, Busy
<1>9. Clocked' BY <1>1, <1>2, <1>3, <1>6 DEF IInv, Clocked
<1>10. Acknowledged' BY <1>5, <1>7, OthersAcknowledged DEF Acknowledged, At
<1>11. Kept' BY <1>1, <1>3, <1>6 DEF IInv, Kept, Sent
<1>12. OneRecord' BY <1>2, <1>3, <1>6 DEF IInv, OneRecord
<1>13. InOrder' BY <1>1, <1>2, <1>3, <1>5 DEF IInv, InOrder, Kept, Sent
<1> QED BY <1>4, <1>8, <1>9, <1>10, <1>11, <1>12, <1>13 DEF IInv

(* A record that is saved is later than everything the copies have. *)
LEMMA SaveKeeps ==
  ASSUME IInv, NEW id \in Requests, NEW u \in Updates, Save(id, u)
  PROVE  IInv'
<1> DEFINE record == [id |-> id, update |-> u, queuedAt |-> saves + 1]
<1>1. /\ rows[id].status = "none" /\ ~Waits(id) /\ UNCHANGED loops
      /\ store' = Put(record) /\ saves' = saves + 1
  BY DEF Save, Enqueue
<1>2. PICK status \in {"none", "draft", "posted", "waiting"} :
        rows' = [rows EXCEPT ![id] =
                   [status |-> status, updates |-> IF status = "none" THEN {} ELSE {u}]]
  BY DEF Save
<1>3. RowsGrow BY <1>1, <1>2 DEF IInv, QueueTypeOK, RowsGrow, Rows, Statuses, Sent
<1>4. record \in Records BY DEF IInv, QueueTypeOK, Records
<1>5. store' = store \cup {record} BY <1>1 DEF Put, Waits
<1>6. Copies' = Copies /\ Copies \subseteq Records /\ store \subseteq Records
  BY <1>1 DEF IInv, QueueTypeOK, Copies
<1>7. \A x \in store \cup Copies : x.id # id
  BY <1>1 DEF IInv, Waits, Kept, Sent
<1>8. record.id = id /\ record.queuedAt = saves + 1 OBVIOUS
<1> HIDE DEF record
<1>9. QueueTypeOK'
  BY <1>1, <1>3, <1>4, <1>5, <1>7, <1>8 DEF IInv, QueueTypeOK, RowsGrow
<1>10. Busy' BY <1>1 DEF IInv, Busy
<1>11. Clocked'
  BY <1>1, <1>5, <1>6, <1>8 DEF IInv, QueueTypeOK, Clocked, Records
<1>12. Acknowledged' BY <1>1, <1>3, OthersAcknowledged DEF Acknowledged
<1>13. Kept' BY <1>3, <1>5, <1>6, SentStays DEF IInv, Kept
<1>14. OneRecord' BY <1>5, <1>6, <1>7, <1>8 DEF IInv, OneRecord
<1>15. InOrder'
  <2> SUFFICES ASSUME NEW k \in Loops, NEW r \in loops[k].todo, NEW x \in store',
                      x.queuedAt < r.queuedAt
               PROVE  x \in loops[k].todo \/ Sent(x.id)'
    BY <1>1 DEF InOrder, Sent
  <2>1. r \in Copies BY DEF Copies
  <2>2. r.queuedAt <= saves /\ r.queuedAt \in Nat /\ saves \in Nat
    BY <1>6, <2>1 DEF IInv, Clocked, QueueTypeOK, Records
  <2>3. x # record BY <1>8, <2>2
  <2>4. x \in store BY <1>5, <2>3
  <2> QED BY <1>3, <1>6, <2>4, SentStays DEF IInv, InOrder
<1> QED BY <1>9, <1>10, <1>11, <1>12, <1>13, <1>14, <1>15 DEF IInv

--------------------------------------------------------------------------------
(* The theorems *)

LEMMA InitHolds == QueueInit => IInv
<1> SUFFICES ASSUME QueueInit PROVE IInv OBVIOUS
<1>1. QueueTypeOK BY DEF QueueInit, QueueTypeOK, LoopSteps, Rows, Statuses
<1>2. store = {} /\ Copies = {} /\ \A l \in Loops : loops[l] = [step |-> "idle", todo |-> {}]
  BY DEF QueueInit, Copies
<1> QED BY <1>1, <1>2
        DEF IInv, Busy, Clocked, Acknowledged, Kept, OneRecord, InOrder, At

LEMMA NextKeeps == IInv /\ [QueueStep]_queueVars => IInv'
<1> SUFFICES ASSUME IInv, [QueueStep]_queueVars PROVE IInv' OBVIOUS
<1>1. CASE UNCHANGED queueVars
  BY <1>1 DEF queueVars, IInv, QueueTypeOK, Busy, Clocked, Acknowledged, Kept,
              OneRecord, InOrder, Copies, Sent, At
<1>2. CASE Env BY <1>2, SaveKeeps DEF Env
<1>3. CASE QueueNext
  BY <1>3, StartKeeps, CreateKeeps, ConfirmKeeps, RefusalKeeps, FailureKeeps, RemovalKeeps,
     PutBackKeeps, DeathKeeps, DecisionKeeps DEF QueueNext
<1> QED BY <1>1, <1>2, <1>3 DEF QueueStep

LEMMA InvariantHolds == QueueSpec => []IInv
<1> QED BY InitHolds, NextKeeps, PTL DEF QueueSpec, QueueStep, Env

(* The queue is well formed, and a record is one record wherever it is. *)
THEOREM QueueTypeCorrect == QueueSpec => []QueueTypeOK
<1>1. IInv => QueueTypeOK BY DEF IInv
<1> QED BY <1>1, InvariantHolds, PTL

(* No update is lost on the device, however many tabs synchronize: what     *)
(* leaves the store has been confirmed.                                     *)
THEOREM NothingIsLost == QueueSpec => RemovedWasConfirmed
<1> DEFINE Leaves ==
      \A x \in store : (\A y \in store' : y.id # x.id)
                         => rows[x.id].status \in {"waiting", "posted", "closed"}
<1>1. IInv /\ [QueueStep]_queueVars => [Leaves]_store
  <2> SUFFICES ASSUME IInv, QueueStep, store' # store PROVE Leaves BY DEF queueVars
  <2>1. CASE \E l \in Loops : LoopRemove(l)
    BY <2>1 DEF LoopRemove, Without, IInv, Acknowledged, Sent
  <2>2. CASE \E l \in Loops : LoopFails(l)
    BY <2>2 DEF LoopFails, Put
  <2>3. CASE Env BY <2>3 DEF Env, Save, Enqueue, Put
  <2> QED BY <2>1, <2>2, <2>3
          DEF QueueStep, QueueNext, StartLoop, LoopCreate, LoopConfirm, CreateRefused,
              ConfirmRefused, CallFails, LoopDies, Decide
<1> QED BY <1>1, InvariantHolds, PTL DEF QueueSpec, QueueStep, Env, RemovedWasConfirmed

(* The queue keeps its order on the way to the server, whichever tabs send  *)
(* its records, fail, put them back and are closed meanwhile.               *)
THEOREM OrderIsKept == QueueSpec => SentInOrder
<1> DEFINE Order ==
      \A x \in store, y \in store :
        (x.queuedAt < y.queuedAt /\ Unsent(y.id) /\ rows'[y.id].status \in {"waiting", "posted"})
          => ~Unsent(x.id)
<1>1. IInv /\ [QueueStep]_queueVars => [Order]_rows
  <2> SUFFICES ASSUME IInv, QueueStep, rows' # rows,
                      NEW x \in store, NEW y \in store, x.queuedAt < y.queuedAt,
                      Unsent(y.id), rows'[y.id].status \in {"waiting", "posted"}
               PROVE  ~Unsent(x.id)
    BY DEF queueVars
  <2>1. x \in Records /\ y \in Records BY DEF IInv, QueueTypeOK
  <2>2. ASSUME NEW l \in Loops, LoopConfirm(l) \/ (CallFails(l) /\ At(l, "confirm"))
        PROVE  ~Unsent(x.id)
    <3> DEFINE record == First(loops[l].todo)
    <3>1. /\ record \in loops[l].todo /\ record \in Records
          /\ \A z \in loops[l].todo : record.queuedAt <= z.queuedAt
      BY <2>2, FirstOfCopy DEF IInv, LoopConfirm, At
    <3> HIDE DEF record
    <3>2. ConfirmRow(record.id)
      BY <2>2 DEF LoopConfirm, CallFails, At, record
    <3>3. y.id = record.id
      BY <2>1, <3>1, <3>2 DEF ConfirmRow, Unsent, IInv, QueueTypeOK, Rows, Records
    <3>4. y = record BY <3>1, <3>3 DEF IInv, OneRecord, Copies
    <3>5. x \notin loops[l].todo BY <2>1, <3>1, <3>4 DEF Records
    <3> QED BY <3>1, <3>4, <3>5 DEF IInv, InOrder, Sent, Unsent
  <2>3. ASSUME NEW l \in Loops, LoopCreate(l) \/ (CallFails(l) /\ At(l, "create"))
        PROVE  FALSE
    <3> DEFINE record == First(loops[l].todo)
    <3>1. record \in Records BY <2>3, FirstOfCopy DEF IInv, LoopCreate, At
    <3> HIDE DEF record
    <3>2. rows' = Created(record.id, record.update)
      BY <2>3 DEF LoopCreate, CallFails, At, record
    <3> QED BY <2>1, <3>1, <3>2 DEF Created, Unsent, IInv, QueueTypeOK, Rows, Records
  <2>4. ASSUME NEW id \in Requests, Decide(id) PROVE FALSE
    <3>1. PICK next \in {"posted", "closed", "dropped"} :
            rows' = [rows EXCEPT ![id].status = next] /\ (Unsent(id) => next = "dropped")
      BY <2>4, DecisionIs
    <3> QED BY <2>1, <3>1 DEF Unsent, IInv, QueueTypeOK, Rows, Records
  <2>5. CASE Env
    BY <2>1, <2>5 DEF Env, Save, Waits, IInv, QueueTypeOK, Rows, Records, Unsent
  <2> QED BY <2>2, <2>3, <2>4, <2>5
          DEF QueueStep, QueueNext, StartLoop, CreateRefused, ConfirmRefused, CallFails,
              LoopRemove, LoopFails, LoopDies
<1> QED BY <1>1, InvariantHolds, PTL DEF QueueSpec, QueueStep, Env, SentInOrder

================================================================================
