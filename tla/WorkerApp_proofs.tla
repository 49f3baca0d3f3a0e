---------------------------- MODULE WorkerApp_proofs ----------------------------
(***************************************************************************)
(* Theorems about WorkerApp, for any updates, any bound on the request ids *)
(* and any number of synchronizing loops.                                  *)
(*                                                                         *)
(* An update is named under a request id by the row the request created,   *)
(* by a record on the device and by the copies the loops have of it.  As   *)
(* long as the worker waits for the answers, these names and the screen    *)
(* agree on one id for each update: from the moment the id is given out,   *)
(* through the calls of the handlers, to the last loop that removes the    *)
(* record or puts it back.                                                 *)
(***************************************************************************)
EXTENDS WorkerApp, OfflineQueue_proofs, FiniteSetTheorems

(* A row was created for an update, one that is not there for none. *)
RowNamed == \A i \in Requests : rows[i].status = "none" <=> rows[i].updates = {}

(* The queue, whatever the screen does with it. *)
Sound == QueueTypeOK /\ Busy /\ Acknowledged /\ RowNamed

--------------------------------------------------------------------------------
(* What a step does to the rows of the server *)

RowsStay ==
  /\ RowsGrow /\ RowNamed'
  /\ \A i \in Requests : /\ rows[i].status # "none" => rows'[i].status # "none"
                         /\ rows[i].updates \subseteq rows'[i].updates

(* A creation makes one row in use, for one update. *)
LEMMA CreationStays ==
  ASSUME Sound, NEW id \in Requests, NEW u \in Updates, rows' = Created(id, u)
  PROVE  /\ RowsStay /\ rows'[id].status # "none"
         /\ \A i \in Requests, v \in Updates :
              v \in rows'[i].updates => v \in rows[i].updates \/ (i = id /\ v = u)
<1>1. RowsGrow
  BY CreatedGrows DEF Sound
<1>2. CASE rows[id].status # "none"
  BY <1>1, <1>2 DEF Sound, RowNamed, RowsStay, Created
<1>3. CASE rows[id].status = "none"
  <2>1. \A i \in Requests : rows'[i] = IF i = id THEN [status |-> "draft", updates |-> {u}]
                                                ELSE rows[i]
    BY <1>3 DEF Sound, QueueTypeOK, Created
  <2>2. rows[id].updates \subseteq rows'[id].updates
    BY <1>3 DEF Sound, RowNamed
  <2> QED BY <1>1, <1>3, <2>1 DEF Sound, RowNamed, RowsStay
<1> QED BY <1>2, <1>3

(* A confirmation keeps what each row was created for. *)
LEMMA ConfirmationStays ==
  ASSUME Sound, NEW id \in Requests, ConfirmRow(id)
  PROVE  /\ RowsStay /\ Sent(id)'
         /\ \A i \in Requests : rows'[i].updates = rows[i].updates
<1>1. RowsGrow /\ Sent(id)'
  BY ConfirmedGrows DEF Sound
<1>2. PICK next \in {"posted", "waiting"} : rows' = [rows EXCEPT ![id].status = next]
  BY DEF ConfirmRow
<1>3. rows[id].status # "none"
  BY DEF ConfirmRow
<1>4. \A i \in Requests : /\ rows'[i].updates = rows[i].updates
                          /\ rows'[i].status = IF i = id THEN next ELSE rows[i].status
  BY <1>2 DEF Sound, QueueTypeOK, Rows
<1> QED BY <1>1, <1>3, <1>4 DEF Sound, RowNamed, RowsStay

(* So does a decision of the manager. *)
LEMMA DecisionStays ==
  ASSUME Sound, NEW id \in Requests, Decide(id)
  PROVE  RowsStay /\ \A i \in Requests : rows'[i].updates = rows[i].updates
<1>1. PICK next \in {"posted", "closed", "dropped"} :
        /\ rows' = [rows EXCEPT ![id].status = next]
        /\ Sent(id) => next # "dropped"
  BY DecisionIs
<1>2. rows[id].status # "none"
  BY DEF Decide
<1>3. \A i \in Requests : /\ rows'[i].updates = rows[i].updates
                          /\ rows'[i].status = IF i = id THEN next ELSE rows[i].status
  BY <1>1 DEF Sound, QueueTypeOK, Rows
<1>4. RowsGrow
  BY <1>1, <1>3 DEF Sound, QueueTypeOK, Rows, Statuses, RowsGrow, Sent
<1> QED BY <1>2, <1>3, <1>4 DEF Sound, RowNamed, RowsStay

(* And a step that is none of the server's. *)
LEMMA SameRowsStay ==
  ASSUME Sound, UNCHANGED rows
  PROVE  RowsStay
  BY SameRows DEF Sound, RowNamed, RowsStay

(* A loop that does not move has its first record confirmed as before. *)
LEMMA StillAcknowledged ==
  ASSUME Sound, RowsGrow, NEW k \in Loops, loops'[k] = loops[k], At(k, "remove")'
  PROVE  Sent(First(loops[k].todo).id)'
<1>1. At(k, "remove")
  BY DEF At
<1>2. First(loops[k].todo) \in Records
  BY <1>1, FirstOfCopy DEF Sound, At
<1>3. PICK r \in Records : r = First(loops[k].todo)
  BY <1>2
<1>4. Sent(r.id)
  BY <1>1, <1>3 DEF Sound, Acknowledged
<1>5. Sent(r.id)'
  BY <1>4, SentStays DEF Sound
<1> QED BY <1>3, <1>5 DEF Sent

(* A step of the screen leaves the loops where they are. *)
LEMMA StillSound ==
  ASSUME Sound, RowsStay, UNCHANGED loops,
         store' \subseteq Records, \A x, y \in store' : x.id = y.id => x = y, saves' \in Nat
  PROVE  Sound'
<1>1. QueueTypeOK' /\ Busy' /\ RowNamed'
  BY DEF Sound, RowsStay, RowsGrow, QueueTypeOK, Busy
<1>2. Acknowledged'
  BY StillAcknowledged DEF Acknowledged, RowsStay
<1> QED BY <1>1, <1>2 DEF Sound

--------------------------------------------------------------------------------
(* What a step of the queue does: the records move between the store and    *)
(* the copies, the rows are written for records of the copies, and a record *)
(* leaves the store for a copy of the same request or when it was confirmed.*)
RecordsMove ==
  /\ Copies' \subseteq Copies \cup store
  /\ store' \subseteq store \cup Copies
  /\ \A i \in Requests, v \in Updates : v \in rows'[i].updates =>
       v \in rows[i].updates \/ \E x \in Copies : x.id = i /\ x.update = v
  /\ \A x \in store : \/ \E y \in store' : y.id = x.id
                      \/ Sent(x.id)

(* The first of a loop's records, for a loop that is at work. *)
LEMMA FirstAtWork ==
  ASSUME Sound, NEW l \in Loops, ~At(l, "idle")
  PROVE  /\ First(loops[l].todo) \in loops[l].todo
         /\ First(loops[l].todo) \in Copies
         /\ First(loops[l].todo) \in Records
  BY FirstOfCopy DEF Sound, At, Copies

(* A call of a loop writes the row of its first record, or none. *)
LEMMA LoopCalls ==
  ASSUME Sound, NEW l \in Loops,
         LoopCreate(l) \/ LoopConfirm(l) \/ CreateRefused(l) \/ ConfirmRefused(l) \/ CallFails(l)
  PROVE  Sound' /\ RowsStay /\ RecordsMove
<1>0. ~At(l, "idle") /\ UNCHANGED <<store, saves>>
  BY DEF LoopCreate, LoopConfirm, CreateRefused, ConfirmRefused, CallFails, At
<1>1. PICK x \in Records : x = First(loops[l].todo) /\ x \in Copies
  BY <1>0, FirstAtWork
<1>2. x.id \in Requests /\ x.update \in Updates
  BY DEF Records
<1>3. PICK step \in LoopSteps \ {"idle"} :
        /\ Goto(l, step)
        /\ step = "remove" => ConfirmRow(x.id)
        /\ UNCHANGED rows \/ rows' = Created(x.id, x.update) \/ ConfirmRow(x.id)
  BY <1>1 DEF LoopCreate, LoopConfirm, CreateRefused, ConfirmRefused, CallFails, LoopSteps
<1>4. /\ RowsStay
      /\ \A i \in Requests, v \in Updates : v \in rows'[i].updates =>
           v \in rows[i].updates \/ (i = x.id /\ v = x.update)
  BY <1>2, <1>3, CreationStays, ConfirmationStays, SameRowsStay
<1>5. /\ loops' \in [Loops -> [step : LoopSteps, todo : SUBSET Records]]
      /\ \A k \in Loops : loops'[k].todo = loops[k].todo
      /\ \A k \in Loops : k # l => loops'[k] = loops[k]
      /\ loops'[l].step = step
  BY <1>3, GotoTyped DEF Sound
<1>6. QueueTypeOK' /\ RowNamed'
  BY <1>0, <1>4, <1>5 DEF Sound, QueueTypeOK, RowsStay, RowsGrow
<1>7. Busy'
  BY <1>0, <1>5 DEF Sound, Busy, At
<1>8. Acknowledged'
  <2> SUFFICES ASSUME NEW k \in Loops, At(k, "remove")'
               PROVE  Sent(First(loops[k].todo).id)'
    BY DEF Acknowledged
  <2>0. First(loops'[k].todo) = First(loops[k].todo)
    BY <1>5
  <2>1. CASE k = l
    <3>1. Sent(x.id)'
      BY <1>2, <1>3, <1>5, <2>1, ConfirmationStays DEF At
    <3>2. First(loops'[k].todo) = x
      BY <1>1, <2>0, <2>1
    <3> QED BY <3>1, <3>2 DEF Sent
  <2>2. CASE k # l
    <3>1. loops'[k] = loops[k]
      BY <1>5, <2>2
    <3>2. RowsGrow
      BY <1>4 DEF RowsStay
    <3> QED BY <3>1, <3>2, StillAcknowledged DEF Sent
  <2> QED BY <2>1, <2>2
<1>9. RecordsMove
  BY <1>0, <1>1, <1>4, <1>5 DEF RecordsMove, Copies
<1> QED BY <1>4, <1>6, <1>7, <1>8, <1>9 DEF Sound

(* A loop that starts copies the store, one that dies forgets its copy. *)
LEMMA LoopTurns ==
  ASSUME Sound, NEW l \in Loops, StartLoop(l) \/ LoopDies(l)
  PROVE  Sound' /\ RowsStay /\ RecordsMove
<1>1. RowsStay /\ UNCHANGED <<rows, store, saves>>
  BY SameRowsStay DEF StartLoop, LoopDies
<1>2. PICK x \in [step : {"idle", "create"}, todo : {{}, store}] :
        /\ loops' = [loops EXCEPT ![l] = x]
        /\ x.step # "idle" => x.todo # {}
  <2>1. CASE StartLoop(l)
    <3> DEFINE x == [step |-> "create", todo |-> store]
    <3>1. /\ x \in [step : {"idle", "create"}, todo : {{}, store}]
          /\ x.todo # {}
          /\ loops' = [loops EXCEPT ![l] = x]
      BY <2>1 DEF StartLoop
    <3> HIDE DEF x
    <3> QED BY <3>1
  <2>2. CASE LoopDies(l)
    <3> DEFINE x == [step |-> "idle", todo |-> {}]
    <3>1. /\ x \in [step : {"idle", "create"}, todo : {{}, store}]
          /\ x.step = "idle"
          /\ loops' = [loops EXCEPT ![l] = x]
      BY <2>2 DEF LoopDies
    <3> HIDE DEF x
    <3> QED BY <3>1
  <2> QED BY <2>1, <2>2
<1>3. \A k \in Loops : loops'[k] = IF k = l THEN x ELSE loops[k]
  BY <1>2 DEF Sound, QueueTypeOK
<1>4. QueueTypeOK' /\ RowNamed' /\ Busy'
  <2>1. x \in [step : LoopSteps, todo : SUBSET Records]
    BY DEF Sound, QueueTypeOK, LoopSteps
  <2>2. QueueTypeOK'
    BY <1>1, <1>2, <2>1 DEF Sound, QueueTypeOK
  <2> QED BY <1>1, <1>2, <1>3, <2>2 DEF Sound, RowsStay, Busy
<1>5. Acknowledged'
  BY <1>1, <1>3, StillAcknowledged DEF Acknowledged, RowsStay, At
<1>6. RecordsMove
  BY <1>1, <1>3 DEF RecordsMove, Copies
<1> QED BY <1>1, <1>4, <1>5, <1>6 DEF Sound

(* A loop removes the record of a confirmed row. *)
LEMMA LoopRemoves ==
  ASSUME Sound, NEW l \in Loops, LoopRemove(l)
  PROVE  Sound' /\ RowsStay /\ RecordsMove
<1> DEFINE record == First(loops[l].todo)
           rest == loops[l].todo \ {record}
           x == [step |-> IF rest = {} THEN "idle" ELSE "create", todo |-> rest]
<1>1. /\ RowsStay /\ UNCHANGED <<rows, saves>> /\ At(l, "remove")
      /\ store' = Without(record.id)
      /\ loops' = [loops EXCEPT ![l] = x]
  BY SameRowsStay DEF LoopRemove
<1>2. record \in Copies /\ record \in Records /\ Sent(record.id)
  BY <1>1, FirstAtWork DEF Sound, Acknowledged, At
<1>3. rest \subseteq loops[l].todo /\ loops[l].todo \subseteq Records
  BY DEF Sound, QueueTypeOK
<1> HIDE DEF record, rest
<1>4. /\ x \in [step : {"idle", "create"}, todo : SUBSET Records]
      /\ x.todo = rest
      /\ x.step # "idle" => x.todo # {}
  BY <1>3
<1> HIDE DEF x
<1>5. \A k \in Loops : loops'[k] = IF k = l THEN x ELSE loops[k]
  BY <1>1 DEF Sound, QueueTypeOK
<1>6. QueueTypeOK' /\ RowNamed' /\ Busy'
  <2>1. QueueTypeOK'
    BY <1>1, <1>4 DEF Sound, QueueTypeOK, LoopSteps, Without
  <2> QED BY <1>1, <1>4, <1>5, <2>1 DEF Sound, RowsStay, Busy
<1>7. Acknowledged'
  BY <1>1, <1>4, <1>5, StillAcknowledged DEF Acknowledged, RowsStay, At
<1>8. RecordsMove
  BY <1>1, <1>2, <1>3, <1>4, <1>5 DEF RecordsMove, Copies, Without
<1> QED BY <1>1, <1>6, <1>7, <1>8 DEF Sound

(* A loop that fails puts its copy back, in place of the record there is. *)
LEMMA LoopPutsBack ==
  ASSUME Sound, NEW l \in Loops, LoopFails(l)
  PROVE  Sound' /\ RowsStay /\ RecordsMove
<1> DEFINE record == First(loops[l].todo)
           x == [step |-> "idle", todo |-> {}]
<1>1. /\ RowsStay /\ UNCHANGED <<rows, saves>> /\ ~At(l, "idle")
      /\ store' = Put(record)
      /\ loops' = [loops EXCEPT ![l] = x]
  BY SameRowsStay DEF LoopFails, Caught, At
<1>2. record \in Copies /\ record \in Records
  BY <1>1, FirstAtWork
<1> HIDE DEF record
<1>3. \A k \in Loops : loops'[k] = IF k = l THEN x ELSE loops[k]
  BY <1>1 DEF Sound, QueueTypeOK
<1>4. QueueTypeOK' /\ RowNamed' /\ Busy'
  <2>1. QueueTypeOK'
    BY <1>1, <1>2 DEF Sound, QueueTypeOK, LoopSteps, Put
  <2> QED BY <1>1, <1>3, <2>1 DEF Sound, RowsStay, Busy
<1>5. Acknowledged'
  BY <1>1, <1>3, StillAcknowledged DEF Acknowledged, RowsStay, At
<1>6. RecordsMove
  BY <1>1, <1>2, <1>3 DEF RecordsMove, Copies, Put
<1> QED BY <1>1, <1>4, <1>5, <1>6 DEF Sound

(* So the queue does, whatever loop runs and whatever a manager decides. *)
LEMMA QueueMoves ==
  ASSUME Sound, QueueNext
  PROVE  Sound' /\ RowsStay /\ RecordsMove
<1>1. ASSUME NEW id \in Requests, Decide(id)
      PROVE  Sound' /\ RowsStay /\ RecordsMove
  <2>1. RowsStay /\ \A i \in Requests : rows'[i].updates = rows[i].updates
    BY <1>1, DecisionStays
  <2>2. UNCHANGED <<store, saves, loops>>
    BY <1>1 DEF Decide
  <2>3. Sound'
    BY <2>1, <2>2, StillSound DEF Sound, QueueTypeOK
  <2> QED BY <2>1, <2>2, <2>3 DEF RecordsMove, Copies
<1> QED BY <1>1, LoopCalls, LoopTurns, LoopRemoves, LoopPutsBack DEF QueueNext

(* No update that has been saved on the device is lost there, also when the *)
(* worker leaves proposals while their calls are out and saves one under    *)
(* the id of another: a record leaves the store only when its row has been  *)
(* confirmed, or for another record of the same request.                    *)
LEMMA ScreenSaves ==
  ASSUME Sound, ScreenNext
  PROVE  \A x \in store : \E y \in store' : y.id = x.id
<1>1. CASE \E u \in Updates : SaveOnDevice(u)
  BY <1>1 DEF SaveOnDevice, Enqueue, Put
<1>2. CASE UNCHANGED store
  BY <1>2
<1> QED BY <1>1, <1>2
        DEF ScreenNext, Dictate, Retype, Extracted, ExtractionFails, ConfirmProposal,
            UploadPhoto, ServerCreates, DraftArrives, PhotoStored, PhotoFails,
            ServerConfirms, Complete, Refused, NetworkFails, StartAnother,
            CorrectDetails, Reload, queueVars

--------------------------------------------------------------------------------
(* The names of the updates *)

(* A row, a record or a copy names update u under request i. *)
Names(i, u) == \/ u \in rows[i].updates
               \/ \E x \in store \cup Copies : x.id = i /\ x.update = u

(* An update has one request id, and a request id one update. *)
OneName == \A i, j \in Requests, u, v \in Updates :
             Names(i, u) /\ Names(j, v) => (i = j <=> u = v)

(* The ids have been given out, the updates have been dictated and shown.   *)
NamedBefore == \A i \in Requests, u \in Updates :
                 Names(i, u) => i <= minted /\ u \in said \ asked

(* One update is extracted at a time, and the screen waits for it. *)
Asking == /\ \A u, v \in asked : u = v
          /\ asked # {} => screen.stage = "busy"
          /\ asked \subseteq said

(* The screen has the request id of the update it shows, if that one has    *)
(* one, and its row if it has a transaction.                                *)
Shown ==
  /\ screen.stage # "extracted" => screen.ref = None
  /\ screen.stage = "extracted" => screen.extraction \in said
  /\ screen.stage = "extracted" /\ screen.ref = None =>
       \A i \in Requests : ~Names(i, screen.extraction)
  /\ screen.ref # None =>
       /\ screen.ref <= minted
       /\ \A i \in Requests, u \in Updates :
            Names(i, u) => (i = screen.ref <=> u = screen.extraction)
  /\ screen.submitted \in {None, screen.ref}
  /\ screen.submitted # None => rows[screen.submitted].status # "none"

(* A handler at work is the one of the update shown, and has its id. *)
Flowing ==
  \A u \in Updates : flow[u].step # "none" =>
    /\ screen.stage = "extracted" /\ screen.extraction = u
    /\ screen.ref # None /\ flow[u].id = screen.ref
    /\ flow[u].step \in {"created", "confirm", "confirmed", "upload"} =>
         rows[flow[u].id].status # "none"
    /\ flow[u].step = "confirmed" => Sent(flow[u].id)

(* What the worker was told is done or safe has a row or a record, and each *)
(* request that names it waits on the device or is with the server.         *)
Safe ==
  \A u \in told :
    /\ \E i \in Requests : \/ u \in rows[i].updates
                           \/ \E x \in store : x.id = i /\ x.update = u
    /\ \A i \in Requests : Names(i, u) => Waits(i) \/ Sent(i)

Orderly == OneName /\ NamedBefore /\ Asking /\ Shown /\ Flowing /\ Safe

(* A handler at work has a request id, hurried or not. *)
FlowIds == \A u \in Updates : flow[u].step # "none" => flow[u].id \in Requests

WInv == TypeOK /\ Sound /\ FlowIds /\ (~hurried => Orderly)

(* Records that move name nothing anew. *)
LEMMA MovesName ==
  ASSUME Sound, RecordsMove, NEW i \in Requests, NEW u \in Updates, Names(i, u)'
  PROVE  Names(i, u)
  BY DEF RecordsMove, Names

(* They leave what was told safe, under the one name it has. *)
LEMMA MovesKeepTables ==
  ASSUME Sound, OneName, NamedBefore, Safe, RowsStay, RecordsMove, QueueTypeOK',
         told \subseteq Updates, UNCHANGED told, minted \in Nat, minted' \in Nat,
         minted <= minted', said \ asked \subseteq said' \ asked'
  PROVE  OneName' /\ NamedBefore' /\ Safe'
<1>1. OneName'
  BY MovesName DEF OneName
<1>2. NamedBefore'
  <2> SUFFICES ASSUME NEW i \in Requests, NEW u \in Updates, Names(i, u)'
               PROVE  i <= minted' /\ u \in said' \ asked'
    BY DEF NamedBefore
  <2>1. i <= minted /\ u \in said \ asked
    BY MovesName DEF NamedBefore
  <2> QED BY <2>1 DEF Requests
<1>3. ASSUME NEW i \in Requests, Waits(i) \/ Sent(i)
      PROVE  Waits(i)' \/ Sent(i)'
  <2>1. CASE Sent(i)
    BY <2>1 DEF RowsStay, RowsGrow
  <2>2. CASE Waits(i)
    <3>1. PICK x \in store : x.id = i
      BY <2>2 DEF Waits
    <3>2. (\E y \in store' : y.id = i) \/ Sent(i)
      BY <3>1 DEF RecordsMove
    <3> QED BY <2>1, <3>2 DEF Waits
  <2> QED BY <1>3, <2>1, <2>2
<1>4. ASSUME NEW u \in told, NEW i \in Requests, NEW x \in store, x.id = i, x.update = u
      PROVE  \/ u \in rows'[i].updates
             \/ \E y \in store' : y.id = i /\ y.update = u
  <2>1. Names(i, u) /\ u \in Updates
    BY <1>4 DEF Names
  <2>2. CASE Sent(i)
    <3>1. rows[i].updates # {} /\ rows[i].updates \subseteq Updates
      BY <2>2 DEF Sound, QueueTypeOK, Rows, RowNamed, Sent
    <3>2. PICK v \in Updates : v \in rows[i].updates
      BY <3>1
    <3>3. u = v
      BY <2>1, <3>2 DEF OneName, Names
    <3> QED BY <3>2, <3>3 DEF RowsStay
  <2>3. CASE \E y \in store' : y.id = i
    <3>1. PICK y \in store' : y.id = i
      BY <2>3
    <3>2. y.update \in Updates /\ y \in store \cup Copies
      BY DEF QueueTypeOK, Records, RecordsMove
    <3>3. Names(i, y.update)
      BY <3>1, <3>2 DEF Names
    <3>4. y.update = u
      BY <2>1, <3>2, <3>3 DEF OneName
    <3> QED BY <3>1, <3>4
  <2> QED BY <1>4, <2>2, <2>3 DEF RecordsMove
<1>5. Safe'
  <2> SUFFICES ASSUME NEW u \in told
               PROVE  /\ \E i \in Requests :
                           \/ u \in rows'[i].updates
                           \/ \E x \in store' : x.id = i /\ x.update = u
                      /\ \A i \in Requests : Names(i, u)' => Waits(i)' \/ Sent(i)'
    BY DEF Safe
  <2>1. PICK i \in Requests : \/ u \in rows[i].updates
                              \/ \E x \in store : x.id = i /\ x.update = u
    BY DEF Safe
  <2>2. \/ u \in rows'[i].updates
        \/ \E x \in store' : x.id = i /\ x.update = u
    BY <1>4, <2>1 DEF RowsStay
  <2>3. \A j \in Requests : Names(j, u)' => Waits(j)' \/ Sent(j)'
    BY <1>3, MovesName DEF Safe
  <2> QED BY <2>2, <2>3
<1> QED BY <1>1, <1>2, <1>5

(* A step that leaves the queue alone moves nothing. *)
LEMMA StillMoves ==
  ASSUME Sound, UNCHANGED queueVars
  PROVE  Sound' /\ RowsStay /\ RecordsMove
<1>1. UNCHANGED <<rows, store, saves, loops>>
  BY DEF queueVars
<1>2. RowsStay
  BY <1>1, SameRowsStay
<1>3. Sound'
  BY <1>1, <1>2, StillSound DEF Sound, QueueTypeOK
<1> QED BY <1>1, <1>2, <1>3 DEF RecordsMove, Copies

(* The screen shows the same update under the same request. *)
SameProposal == /\ screen'.stage = screen.stage /\ screen'.extraction = screen.extraction
                /\ screen'.ref = screen.ref /\ screen'.submitted = screen.submitted

(* Then it agrees with the names, if there are none anew. *)
LEMMA ShownKept ==
  ASSUME Sound, screen \in Screens, Shown, SameProposal, RowsStay,
         \A i \in Requests, u \in Updates : Names(i, u)' => Names(i, u),
         said \subseteq Updates, said \subseteq said',
         minted \in Nat, minted' \in Nat, minted <= minted'
  PROVE  Shown'
<1>1. /\ screen'.stage # "extracted" => screen'.ref = None
      /\ screen'.stage = "extracted" => screen'.extraction \in said'
      /\ screen'.submitted \in {None, screen'.ref}
  BY DEF Shown, SameProposal
<1>2. ASSUME screen'.stage = "extracted", screen'.ref = None
      PROVE  \A i \in Requests : ~Names(i, screen.extraction)'
  BY <1>2 DEF Shown, SameProposal
<1>3. ASSUME screen'.ref # None
      PROVE  /\ screen'.ref <= minted'
             /\ \A i \in Requests, u \in Updates :
                  Names(i, u)' => (i = screen.ref <=> u = screen.extraction)
  <2>1. screen.ref \in Requests /\ screen.ref <= minted
    BY <1>3 DEF Shown, SameProposal, Screens
  <2>2. screen'.ref <= minted'
    BY <2>1 DEF SameProposal, Requests
  <2> QED BY <1>3, <2>2 DEF Shown, SameProposal
<1>4. ASSUME screen'.submitted # None
      PROVE  rows'[screen'.submitted].status # "none"
  BY <1>4 DEF Shown, SameProposal, RowsStay, Screens
<1> QED BY <1>1, <1>2, <1>3, <1>4 DEF Shown, SameProposal, Names

(* A handler goes on as it was, ends, or is about to save. *)
FlowsGoOn ==
  \A v \in Updates :
    \/ flow'[v] = flow[v]
    \/ flow'[v].step = "none"
    \/ flow'[v].step = "save" /\ flow[v].step # "none" /\ flow'[v].id = flow[v].id

(* Then it is still the one of the update shown. *)
LEMMA FlowingKept ==
  ASSUME Flowing, FlowIds, SameProposal, RowsStay, FlowsGoOn
  PROVE  Flowing' /\ FlowIds'
<1>1. FlowIds'
  BY DEF FlowIds, FlowsGoOn
<1>2. ASSUME NEW v \in Updates, flow'[v].step # "none"
      PROVE  /\ screen'.stage = "extracted" /\ screen'.extraction = v
             /\ screen'.ref # None /\ flow'[v].id = screen'.ref
             /\ flow'[v].step \in {"created", "confirm", "confirmed", "upload"} =>
                  rows'[flow'[v].id].status # "none"
             /\ flow'[v].step = "confirmed" => Sent(flow[v].id)'
  <2>1. /\ flow[v].step # "none" /\ flow'[v].id = flow[v].id
        /\ flow'[v] = flow[v] \/ flow'[v].step = "save"
    BY <1>2 DEF FlowsGoOn
  <2> QED BY <2>1 DEF Flowing, FlowIds, SameProposal, RowsStay, RowsGrow
<1>3. Flowing'
  BY <1>1, <1>2 DEF Flowing, FlowsGoOn, Sent
<1> QED BY <1>1, <1>3

(* The bound on the request ids. *)
LEMMA MintedNat ==
  ASSUME TypeOK
  PROVE  minted \in Nat
  BY QueueAssumption DEF TypeOK

(* While the queue works, the screen stays as it is. *)
LEMMA QueueKeepsOrder ==
  ASSUME WInv, QueueNext, UNCHANGED screenVars
  PROVE  WInv'
<1>1. Sound' /\ RowsStay /\ RecordsMove
  BY QueueMoves DEF WInv
<1>2. UNCHANGED <<screen, asked, said, flow, minted, told, hurried>>
  BY DEF screenVars
<1>3. TypeOK' /\ FlowIds'
  BY <1>1, <1>2 DEF WInv, TypeOK, Sound, FlowIds
<1>4. ASSUME ~hurried
      PROVE  Orderly'
  <2>1. Orderly
    BY <1>4 DEF WInv
  <2>2. OneName' /\ NamedBefore' /\ Safe'
    BY <1>1, <1>2, <2>1, MovesKeepTables, MintedNat DEF WInv, Orderly, TypeOK, Sound
  <2>3. Shown'
    <3>1. SameProposal
      BY <1>2 DEF SameProposal
    <3> QED BY <1>1, <1>2, <2>1, <3>1, ShownKept, MovesName, MintedNat
            DEF WInv, Orderly, TypeOK
  <2>4. Flowing'
    BY <1>1, <1>2, <2>1, FlowingKept DEF WInv, Orderly, SameProposal, FlowsGoOn
  <2>5. Asking'
    BY <1>2, <2>1 DEF Orderly, Asking
  <2> QED BY <2>2, <2>3, <2>4, <2>5 DEF Orderly
<1> QED BY <1>1, <1>2, <1>3, <1>4 DEF WInv

--------------------------------------------------------------------------------
(* The steps of the screen that leave the queue alone *)

(* They keep the names, and need only keep the screen in agreement. *)
LEMMA StillKeeps ==
  ASSUME WInv, UNCHANGED <<queueVars, told>>,
         screen' \in Screens, asked' \subseteq Updates, said' \subseteq Updates,
         flow' \in [Updates -> Flows], minted' \in 0 .. MaxRequests, hurried' \in BOOLEAN,
         FlowIds', minted <= minted', said \ asked \subseteq said' \ asked',
         hurried => hurried',
         ~hurried' /\ Orderly => Asking' /\ Shown' /\ Flowing'
  PROVE  WInv'
<1>1. Sound' /\ RowsStay /\ RecordsMove
  BY StillMoves DEF WInv
<1>2. TypeOK'
  BY <1>1 DEF WInv, TypeOK, Sound
<1>3. ASSUME ~hurried'
      PROVE  Orderly'
  <2>1. Orderly
    BY <1>3 DEF WInv
  <2>2. OneName' /\ NamedBefore' /\ Safe'
    BY <1>1, <1>2, <2>1, MovesKeepTables, MintedNat DEF WInv, Orderly, TypeOK, Sound
  <2> QED BY <1>3, <2>1, <2>2 DEF Orderly
<1> QED BY <1>1, <1>2, <1>3 DEF WInv

(* What is dictated has no name yet, and the screen forgets what it showed. *)
LEMMA AskingKeeps ==
  ASSUME WInv, NEW u \in Updates, Dictate(u) \/ Retype(u)
  PROVE  WInv'
<1>1. /\ u \notin said /\ screen.stage \in {"idle", "review"}
      /\ asked' = asked \cup {u} /\ said' = said \cup {u}
      /\ UNCHANGED <<queueVars, flow, minted, told, hurried>>
  BY DEF Dictate, Retype
<1>2. /\ screen' \in Screens /\ screen'.stage = "busy"
      /\ \/ screen'.ref = None /\ screen'.submitted = None
         \/ screen'.ref = screen.ref /\ screen'.submitted = screen.submitted
  BY DEF Dictate, Retype, Blank, Screens, WInv, TypeOK
<1>3. TypeOK /\ minted \in Nat
  BY MintedNat DEF WInv
<1>4. FlowIds'
  BY <1>1 DEF WInv, FlowIds
<1>5. ASSUME ~hurried', Orderly
      PROVE  Asking' /\ Shown' /\ Flowing'
  <2>1. screen.ref = None /\ screen.submitted = None /\ asked = {}
    BY <1>1, <1>5 DEF Orderly, Shown, Asking
  <2>2. Asking'
    BY <1>1, <1>2, <1>5, <2>1 DEF Orderly, Asking
  <2>3. Shown'
    BY <1>2, <2>1 DEF Shown
  <2>4. Flowing'
    BY <1>1, <1>5 DEF Orderly, Flowing
  <2> QED BY <2>2, <2>3, <2>4
<1>6. said \ asked \subseteq said' \ asked'
  BY <1>1
<1> QED BY <1>1, <1>2, <1>3, <1>4, <1>5, <1>6, StillKeeps DEF TypeOK

(* An answer shows its update on a screen that has no id yet. *)
LEMMA AnswerKeeps ==
  ASSUME WInv, NEW u \in Updates, Extracted(u) \/ ExtractionFails(u)
  PROVE  WInv'
<1>1. /\ u \in asked /\ asked' = asked \ {u}
      /\ UNCHANGED <<queueVars, said, flow, minted, told, hurried>>
  BY DEF Extracted, ExtractionFails
<1>2. /\ screen' \in Screens
      /\ screen'.ref = screen.ref /\ screen'.submitted = screen.submitted
      /\ \/ screen'.stage \in {"idle", "review"}
         \/ screen'.stage = "extracted" /\ screen'.extraction = u
  BY DEF Extracted, ExtractionFails, Screens, WInv, TypeOK
<1>3. TypeOK /\ minted \in Nat
  BY MintedNat DEF WInv
<1>4. FlowIds'
  BY <1>1 DEF WInv, FlowIds
<1>5. ASSUME ~hurried', Orderly
      PROVE  Asking' /\ Shown' /\ Flowing'
  <2>1. /\ screen.stage = "busy" /\ screen.ref = None /\ screen.submitted = None
        /\ u \in said /\ asked' = {}
    BY <1>1, <1>5 DEF Orderly, Shown, Asking
  <2>2. Asking'
    BY <2>1 DEF Asking
  <2>3. \A i \in Requests : ~Names(i, u)'
    <3>1. \A i \in Requests : ~Names(i, u)
      BY <1>1, <1>5 DEF Orderly, NamedBefore
    <3> QED BY <1>1, <3>1 DEF Names, queueVars, Copies
  <2>4. Shown'
    BY <1>1, <1>2, <2>1, <2>3 DEF Shown, Names
  <2>5. Flowing'
    BY <1>1, <1>5, <2>1 DEF Orderly, Flowing
  <2> QED BY <2>2, <2>4, <2>5
<1>6. said \ asked \subseteq said' \ asked'
  BY <1>1
<1> QED BY <1>1, <1>2, <1>3, <1>4, <1>5, <1>6, StillKeeps DEF TypeOK

(* The worker leaves a proposal nothing is out for, or with its tab. *)
LEMMA LeavingKeeps ==
  ASSUME WInv, StartAnother \/ CorrectDetails \/ Reload
  PROVE  WInv'
<1>1. /\ screen' \in Screens /\ screen'.stage \in {"idle", "review"}
      /\ screen'.ref = None /\ screen'.submitted = None
  <2>1. CASE screen' = Blank
    BY <2>1 DEF Blank, Screens
  <2>2. CASE CorrectDetails
    BY <2>2 DEF CorrectDetails, Blank, Screens, WInv, TypeOK
  <2> QED BY <2>1, <2>2 DEF StartAnother, Reload
<1>2. UNCHANGED <<queueVars, said, minted, told>>
  BY DEF StartAnother, CorrectDetails, Reload
<1>3. /\ asked' \subseteq asked
      /\ flow' \in [Updates -> Flows]
      /\ \A v \in Updates : flow'[v] = flow[v] \/ flow'[v].step = "none"
      /\ hurried' \in BOOLEAN /\ (hurried => hurried')
      /\ ~hurried' => /\ asked' = {}
                      /\ \A v \in Updates : flow'[v].step = "none"
  <2>1. CASE StartAnother \/ CorrectDetails
    BY <2>1 DEF StartAnother, CorrectDetails, Calling, WInv, TypeOK
  <2>2. CASE Reload
    <3>1. NoFlow \in Flows /\ NoFlow.step = "none"
      BY DEF NoFlow, Flows
    <3> HIDE DEF NoFlow
    <3> QED BY <2>2, <3>1 DEF Reload, WInv, TypeOK
  <2> QED BY <2>1, <2>2
<1>4. TypeOK /\ minted \in Nat
  BY MintedNat DEF WInv
<1>5. FlowIds'
  BY <1>3 DEF WInv, FlowIds
<1>6. ASSUME ~hurried', Orderly
      PROVE  Asking' /\ Shown' /\ Flowing'
  BY <1>1, <1>3, <1>6 DEF Asking, Shown, Flowing
<1>7. said \ asked \subseteq said' \ asked'
  BY <1>2, <1>3
<1> QED BY <1>1, <1>2, <1>3, <1>4, <1>5, <1>6, <1>7, StillKeeps DEF TypeOK

(* A handler starts for the update shown, and no other is at work; it takes *)
(* the request id the screen has, or the next one, which names nothing.     *)
LEMMA ProposalKeeps ==
  ASSUME WInv, NEW u \in Updates, ConfirmProposal(u) \/ UploadPhoto(u)
  PROVE  WInv'
<1>1. PICK photo \in BOOLEAN, ready \in {"confirm", "upload"} : StartFlow(u, photo, ready)
  BY DEF ConfirmProposal, UploadPhoto
<1>2. /\ screen.stage = "extracted" /\ screen.extraction = u /\ flow[u].step = "none"
      /\ UNCHANGED <<queueVars, asked, said, told, hurried>>
  BY DEF ConfirmProposal, UploadPhoto, Showing
<1>3. TypeOK /\ minted \in Nat /\ None \notin Requests
  BY MintedNat, ScreenAssumption DEF WInv
<1> DEFINE id == IF screen.submitted = None THEN Ref ELSE screen.submitted
<1>4. /\ id \in Requests
      /\ minted' \in 0 .. MaxRequests /\ minted <= minted'
      /\ screen.submitted = None /\ screen.ref = None => id = minted + 1 /\ minted' = id
      /\ screen.submitted = None /\ screen.ref # None => id = screen.ref /\ minted' = minted
      /\ screen.submitted # None => id = screen.submitted /\ minted' = minted
  BY <1>1, <1>3, QueueAssumption
     DEF StartFlow, MintRef, Ref, Requests, TypeOK, Screens
<1>5. /\ screen' \in Screens
      /\ screen'.stage = "extracted" /\ screen'.extraction = u
      /\ screen'.submitted = screen.submitted
      /\ screen'.ref = IF screen.submitted = None THEN id ELSE screen.ref
  <2>1. CASE screen.submitted = None
    BY <1>1, <1>2, <1>3, <1>4, <2>1 DEF StartFlow, TypeOK, Screens
  <2>2. CASE screen.submitted # None
    BY <1>1, <1>2, <1>3, <1>4, <2>2 DEF StartFlow, TypeOK, Screens
  <2> QED BY <2>1, <2>2
<1>6. PICK x \in Flows :
        /\ flow' = [flow EXCEPT ![u] = x]
        /\ x.id = id
        /\ x.step # "none"
        /\ x.step \in {"create"} \/ (x.step \in {"confirm", "upload"} /\ screen.submitted # None)
  <2>1. CASE screen.submitted = None
    <3> DEFINE y == [step |-> "create", id |-> Ref, photo |-> photo]
    <3>1. y \in Flows /\ y.step = "create" /\ y.id = id
      BY <1>4, <2>1 DEF Flows
    <3>2. flow' = [flow EXCEPT ![u] = y]
      BY <1>1, <2>1 DEF StartFlow
    <3> HIDE DEF y
    <3> QED BY <3>1, <3>2
  <2>2. CASE screen.submitted # None
    <3> DEFINE y == [step |-> ready, id |-> screen.submitted, photo |-> photo]
    <3>1. y \in Flows /\ y.step \in {"confirm", "upload"} /\ y.id = id
      BY <1>4, <2>2 DEF Flows
    <3>2. flow' = [flow EXCEPT ![u] = y]
      BY <1>1, <2>2 DEF StartFlow
    <3> HIDE DEF y
    <3> QED BY <2>2, <3>1, <3>2
  <2> QED BY <2>1, <2>2
<1>7. /\ flow' \in [Updates -> Flows]
      /\ \A v \in Updates : flow'[v] = IF v = u THEN x ELSE flow[v]
  BY <1>3, <1>6 DEF TypeOK
<1> HIDE DEF id
<1>8. FlowIds'
  BY <1>4, <1>6, <1>7 DEF WInv, FlowIds
<1>9. \A i \in Requests, v \in Updates : Names(i, v)' <=> Names(i, v)
  BY <1>2 DEF Names, Copies, queueVars
<1>10. ASSUME ~hurried', Orderly
       PROVE  Asking' /\ Shown' /\ Flowing'
  <2>1. Asking'
    BY <1>2, <1>5, <1>10 DEF Orderly, Asking
  <2>2. screen'.ref = id /\ id <= minted' /\ screen.submitted \in {None, screen.ref}
    BY <1>2, <1>3, <1>4, <1>5, <1>10 DEF Orderly, Shown, TypeOK, Requests
  <2>3. \A i \in Requests, v \in Updates : Names(i, v) => (i = id <=> v = u)
    <3>1. CASE screen.ref = None
      <4>1. id = minted + 1
        BY <1>4, <2>2, <3>1
      <4>2. \A i \in Requests, v \in Updates : Names(i, v) => i # id
        BY <1>3, <1>10, <4>1 DEF Orderly, NamedBefore, Requests
      <4>3. \A i \in Requests : ~Names(i, u)
        BY <1>2, <1>10, <3>1 DEF Orderly, Shown
      <4> QED BY <4>2, <4>3
    <3>2. CASE screen.ref # None
      <4>1. id = screen.ref
        BY <1>4, <2>2, <3>2
      <4> QED BY <1>2, <1>10, <3>2, <4>1 DEF Orderly, Shown
    <3> QED BY <3>1, <3>2
  <2>4. screen.submitted # None => rows'[screen.submitted].status # "none"
    BY <1>2, <1>10 DEF Orderly, Shown, queueVars
  <2>5. Shown'
    <3>1. screen'.ref # None /\ screen'.submitted \in {None, screen'.ref}
      BY <1>3, <1>4, <1>5, <2>2
    <3>2. screen'.extraction \in said'
      BY <1>2, <1>5, <1>10 DEF Orderly, Shown
    <3>3. \A i \in Requests, v \in Updates :
            Names(i, v)' => (i = screen'.ref <=> v = screen'.extraction)
      BY <1>5, <1>9, <2>2, <2>3
    <3> QED BY <1>5, <2>2, <2>4, <3>1, <3>2, <3>3 DEF Shown, Names
  <2>6. Flowing'
    <3> SUFFICES ASSUME NEW v \in Updates, flow'[v].step # "none"
                 PROVE  /\ screen'.stage = "extracted" /\ screen'.extraction = v
                        /\ screen'.ref # None /\ flow'[v].id = screen'.ref
                        /\ flow'[v].step \in {"created", "confirm", "confirmed", "upload"} =>
                             rows'[flow'[v].id].status # "none"
                        /\ flow'[v].step = "confirmed" => rows'[flow'[v].id].status
                                                    \in {"waiting", "posted", "closed"}
      BY DEF Flowing, Sent
    <3>1. v = u
      BY <1>2, <1>7, <1>10 DEF Orderly, Flowing
    <3> QED BY <1>3, <1>4, <1>5, <1>6, <1>7, <2>2, <2>4, <3>1
  <2> QED BY <2>1, <2>5, <2>6
<1>11. said \ asked \subseteq said' \ asked'
  BY <1>2
<1> QED BY <1>2, <1>3, <1>4, <1>5, <1>7, <1>8, <1>10, <1>11, StillKeeps DEF TypeOK

(* A handler goes to its next step, or ends; the others are left alone. *)
LEMMA FlowMoves ==
  ASSUME TypeOK, NEW u \in Updates
  PROVE  /\ \A step \in {"none", "create", "created", "confirm", "confirmed", "save", "upload"} :
              Step(u, step) =>
                /\ flow' \in [Updates -> Flows]
                /\ flow'[u].step = step /\ flow'[u].id = flow[u].id
                /\ \A v \in Updates : v # u => flow'[v] = flow[v]
         /\ EndFlow(u) =>
                /\ flow' \in [Updates -> Flows]
                /\ flow'[u].step = "none"
                /\ \A v \in Updates : v # u => flow'[v] = flow[v]
<1>1. ASSUME NEW step \in {"none", "create", "created", "confirm", "confirmed", "save",
                           "upload"},
             Step(u, step)
      PROVE  /\ flow' \in [Updates -> Flows]
             /\ flow'[u].step = step /\ flow'[u].id = flow[u].id
             /\ \A v \in Updates : v # u => flow'[v] = flow[v]
  <2> DEFINE x == [flow[u] EXCEPT !.step = step]
  <2>1. flow[u] \in Flows
    BY DEF TypeOK
  <2>2. x \in Flows /\ x.step = step /\ x.id = flow[u].id
    BY <2>1 DEF Flows
  <2>3. flow' = [flow EXCEPT ![u] = x]
    BY <1>1 DEF Step
  <2> HIDE DEF x
  <2> QED BY <2>2, <2>3 DEF TypeOK
<1>2. ASSUME EndFlow(u)
      PROVE  /\ flow' \in [Updates -> Flows]
             /\ flow'[u].step = "none"
             /\ \A v \in Updates : v # u => flow'[v] = flow[v]
  <2>1. NoFlow \in Flows /\ NoFlow.step = "none"
    BY DEF NoFlow, Flows
  <2> HIDE DEF NoFlow
  <2> QED BY <1>2, <2>1 DEF EndFlow, TypeOK
<1> QED BY <1>1, <1>2

(* A call is answered or fails: the handler ends, or is about to save, and  *)
(* the screen shows the proposal as before.                                 *)
LEMMA EndingKeeps ==
  ASSUME WInv, NEW u \in Updates,
         PhotoStored(u) \/ PhotoFails(u) \/ Refused(u) \/ NetworkFails(u)
  PROVE  WInv'
<1>1. TypeOK /\ minted \in Nat
  BY MintedNat DEF WInv
<1>2. UNCHANGED <<queueVars, asked, said, minted, told, hurried>>
  BY DEF PhotoStored, PhotoFails, Refused, NetworkFails
<1>3. screen' \in Screens /\ SameProposal
  BY <1>1 DEF PhotoStored, PhotoFails, Refused, NetworkFails, TypeOK, Screens, SameProposal
<1>4. /\ flow' \in [Updates -> Flows]
      /\ FlowsGoOn
  <2>1. CASE EndFlow(u)
    BY <1>1, <2>1, FlowMoves DEF FlowsGoOn
  <2>2. CASE Step(u, "save") /\ flow[u].step # "none"
    BY <1>1, <2>2, FlowMoves DEF FlowsGoOn
  <2> QED BY <2>1, <2>2 DEF PhotoStored, PhotoFails, Refused, NetworkFails, OutOrBack
<1>5. FlowIds'
  BY <1>4 DEF WInv, FlowIds, FlowsGoOn
<1>6. Sound' /\ RowsStay /\ RecordsMove
  BY <1>2, StillMoves DEF WInv
<1>7. ASSUME ~hurried', Orderly
      PROVE  Asking' /\ Shown' /\ Flowing'
  <2>1. Asking'
    BY <1>2, <1>3, <1>7 DEF Orderly, Asking, SameProposal
  <2>2. Shown'
    BY <1>1, <1>2, <1>3, <1>6, <1>7, ShownKept, MovesName DEF WInv, Orderly, TypeOK
  <2>3. Flowing'
    BY <1>3, <1>4, <1>6, <1>7, FlowingKept DEF WInv, Orderly
  <2> QED BY <2>1, <2>2, <2>3
<1> QED BY <1>1, <1>2, <1>3, <1>4, <1>5, <1>7, StillKeeps DEF TypeOK

(* The draft a handler has made becomes the transaction of the screen. *)
LEMMA DraftKeeps ==
  ASSUME WInv, NEW u \in Updates, DraftArrives(u)
  PROVE  WInv'
<1>1. TypeOK /\ minted \in Nat /\ None \notin Requests
  BY MintedNat, ScreenAssumption DEF WInv
<1>2. UNCHANGED <<queueVars, asked, said, minted, told, hurried>> /\ flow[u].step = "created"
  BY DEF DraftArrives
<1>3. flow[u].id \in Requests
  BY <1>2 DEF WInv, FlowIds
<1>4. /\ screen' \in Screens
      /\ screen'.stage = screen.stage /\ screen'.extraction = screen.extraction
      /\ screen'.ref = screen.ref /\ screen'.submitted = flow[u].id
  BY <1>1, <1>3 DEF DraftArrives, TypeOK, Screens
<1>5. PICK step \in {"upload", "confirm"} : Step(u, step)
  BY DEF DraftArrives
<1>6. /\ flow' \in [Updates -> Flows]
      /\ flow'[u].step = step /\ flow'[u].id = flow[u].id
      /\ \A v \in Updates : v # u => flow'[v] = flow[v]
  BY <1>1, <1>5, FlowMoves
<1>7. FlowIds'
  BY <1>3, <1>6 DEF WInv, FlowIds
<1>8. \A i \in Requests, v \in Updates : Names(i, v)' <=> Names(i, v)
  BY <1>2 DEF Names, Copies, queueVars
<1>9. ASSUME ~hurried', Orderly
      PROVE  Asking' /\ Shown' /\ Flowing'
  <2>1. Asking'
    BY <1>2, <1>4, <1>9 DEF Orderly, Asking
  <2>2. /\ screen.stage = "extracted" /\ screen.extraction = u
        /\ screen.ref # None /\ flow[u].id = screen.ref
        /\ rows[flow[u].id].status # "none"
    BY <1>2, <1>9 DEF Orderly, Flowing
  <2>3. UNCHANGED rows
    BY <1>2 DEF queueVars
  <2>4. Shown'
    <3>1. /\ screen.extraction \in said /\ screen.ref <= minted
          /\ \A i \in Requests, v \in Updates :
               Names(i, v) => (i = screen.ref <=> v = screen.extraction)
      BY <1>9, <2>2 DEF Orderly, Shown
    <3>2. \A i \in Requests, v \in Updates :
            Names(i, v)' => (i = screen'.ref <=> v = screen'.extraction)
      BY <1>4, <1>8, <3>1
    <3> QED BY <1>2, <1>4, <2>2, <2>3, <3>1, <3>2 DEF Shown, Names
  <2>5. Flowing'
    <3> SUFFICES ASSUME NEW v \in Updates, flow'[v].step # "none"
                 PROVE  /\ screen'.stage = "extracted" /\ screen'.extraction = v
                        /\ screen'.ref # None /\ flow'[v].id = screen'.ref
                        /\ flow'[v].step \in {"created", "confirm", "confirmed", "upload"} =>
                             rows'[flow'[v].id].status # "none"
                        /\ flow'[v].step = "confirmed" => rows'[flow'[v].id].status
                                                    \in {"waiting", "posted", "closed"}
      BY DEF Flowing, Sent
    <3>1. v = u
      BY <1>6, <1>9, <2>2 DEF Orderly, Flowing
    <3> QED BY <1>4, <1>6, <2>2, <2>3, <3>1
  <2> QED BY <2>1, <2>4, <2>5
<1> QED BY <1>1, <1>2, <1>4, <1>6, <1>7, <1>9, StillKeeps DEF TypeOK

--------------------------------------------------------------------------------
(* The steps of the screen that reach the server or the device *)

(* A name that is new is the one of the proposal on the screen. *)
LEMMA NamedAnew ==
  ASSUME OneName, NamedBefore, NEW id \in Requests, NEW u \in Updates,
         \A i \in Requests, v \in Updates : Names(i, v)' => Names(i, v) \/ (i = id /\ v = u),
         \A i \in Requests, v \in Updates : Names(i, v) => (i = id <=> v = u),
         id <= minted, u \in said \ asked, UNCHANGED <<minted, said, asked>>
  PROVE  /\ OneName' /\ NamedBefore'
         /\ \A i \in Requests, v \in Updates : Names(i, v)' => (i = id <=> v = u)
<1>1. \A i \in Requests, v \in Updates : Names(i, v)' => (i = id <=> v = u)
  OBVIOUS
<1>2. NamedBefore'
  BY DEF NamedBefore
<1>3. OneName'
  <2> SUFFICES ASSUME NEW i \in Requests, NEW j \in Requests,
                      NEW v \in Updates, NEW w \in Updates, Names(i, v)', Names(j, w)'
               PROVE  i = j <=> v = w
    BY DEF OneName
  <2>1. CASE i = id \/ j = id \/ v = u \/ w = u
    BY <1>1, <2>1
  <2>2. CASE i # id /\ j # id
    <3>1. Names(i, v) /\ Names(j, w)
      BY <2>2
    <3> QED BY <3>1 DEF OneName
  <2> QED BY <2>1, <2>2
<1> QED BY <1>1, <1>2, <1>3

(* The screen and its handlers, after a step that leaves the screen as it   *)
(* is and moves the handler of one update to a next step of its own.        *)
LEMMA NextOfFlow ==
  ASSUME WInv, Orderly, NEW u \in Updates, flow[u].step # "none",
         NEW id \in Requests, id = flow[u].id, NEW step \in {"created", "confirmed"}, Step(u, step),
         UNCHANGED <<screen, said, minted>>, RowsStay,
         rows'[id].status # "none", step = "confirmed" => Sent(id)',
         \A i \in Requests, v \in Updates : Names(i, v)' =>
           (i = screen.ref <=> v = screen.extraction)
  PROVE  Shown' /\ Flowing'
<1>1. TypeOK /\ FlowIds
  BY DEF WInv
<1>2. /\ screen.stage = "extracted" /\ screen.extraction = u
      /\ screen.ref # None /\ flow[u].id = screen.ref
  BY DEF Orderly, Flowing
<1>3. /\ flow'[u].step = step /\ flow'[u].id = flow[u].id
      /\ \A v \in Updates : v # u => flow'[v] = flow[v]
  BY <1>1, FlowMoves
<1>4. Shown'
  <2>1. screen.submitted # None => rows'[screen.submitted].status # "none"
    BY <1>1 DEF Orderly, Shown, RowsStay, TypeOK, Screens
  <2> QED BY <1>2, <2>1 DEF Orderly, Shown, Names
<1>5. Flowing'
  <2> SUFFICES ASSUME NEW v \in Updates, flow'[v].step # "none"
               PROVE  /\ screen'.stage = "extracted" /\ screen'.extraction = v
                      /\ screen'.ref # None /\ flow'[v].id = screen'.ref
                      /\ flow'[v].step \in {"created", "confirm", "confirmed", "upload"} =>
                           rows'[flow'[v].id].status # "none"
                      /\ flow'[v].step = "confirmed" => rows'[flow'[v].id].status
                                                  \in {"waiting", "posted", "closed"}
    BY DEF Flowing, Sent
  <2>1. v = u
    BY <1>2, <1>3 DEF Orderly, Flowing
  <2>2. step = "confirmed" => rows'[id].status \in {"waiting", "posted", "closed"}
    BY DEF Sent
  <2> QED BY <1>2, <1>3, <2>1, <2>2
<1> QED BY <1>4, <1>5

(* The server makes the row of the proposal, or finds it. *)
LEMMA ServerCreatesKeeps ==
  ASSUME WInv, NEW u \in Updates, ServerCreates(u)
  PROVE  WInv'
<1>1. TypeOK /\ minted \in Nat /\ Sound
  BY MintedNat DEF WInv
<1>2. /\ UNCHANGED <<store, saves, loops, screen, asked, said, minted, told, hurried>>
      /\ flow[u].step = "create" /\ Step(u, "created")
  BY DEF ServerCreates
<1>3. PICK id \in Requests : id = flow[u].id
  BY <1>2 DEF WInv, FlowIds
<1>4. /\ RowsStay /\ rows'[id].status # "none"
      /\ \A i \in Requests, v \in Updates :
           v \in rows'[i].updates => v \in rows[i].updates \/ (i = id /\ v = u)
  BY <1>1, <1>3, CreationStays DEF ServerCreates
<1>5. Sound'
  BY <1>1, <1>2, <1>4, StillSound DEF Sound, QueueTypeOK
<1>6. /\ flow' \in [Updates -> Flows]
      /\ flow'[u].id = flow[u].id
      /\ \A v \in Updates : v # u => flow'[v] = flow[v]
  BY <1>1, <1>2, FlowMoves
<1>7. TypeOK' /\ FlowIds'
  BY <1>1, <1>2, <1>3, <1>5, <1>6 DEF TypeOK, Sound, WInv, FlowIds
<1>8. ASSUME ~hurried'
      PROVE  Orderly'
  <2>0. Orderly
    BY <1>2, <1>8 DEF WInv
  <2>1. /\ screen.extraction = u /\ screen.ref = id /\ screen.ref # None
        /\ screen.stage = "extracted"
    BY <1>2, <1>3, <2>0 DEF Orderly, Flowing
  <2>2. /\ id <= minted /\ u \in said \ asked
        /\ \A i \in Requests, v \in Updates : Names(i, v) => (i = id <=> v = u)
    BY <2>0, <2>1 DEF Orderly, Shown, Asking
  <2>3. \A i \in Requests, v \in Updates : Names(i, v)' => Names(i, v) \/ (i = id /\ v = u)
    BY <1>2, <1>4 DEF Names, Copies
  <2>4. /\ OneName' /\ NamedBefore'
        /\ \A i \in Requests, v \in Updates : Names(i, v)' => (i = id <=> v = u)
    BY <1>2, <2>0, <2>2, <2>3, NamedAnew DEF Orderly
  <2>5. Shown' /\ Flowing'
    BY <1>2, <1>3, <1>4, <2>0, <2>1, <2>4, NextOfFlow
  <2>6. Asking'
    BY <1>2, <2>0 DEF Orderly, Asking
  <2>7. Safe'
    <3> SUFFICES ASSUME NEW v \in told
                 PROVE  /\ \E i \in Requests :
                             \/ v \in rows'[i].updates
                             \/ \E x \in store : x.id = i /\ x.update = v
                        /\ \A i \in Requests : Names(i, v)' => Waits(i)' \/ Sent(i)'
      BY <1>2 DEF Safe
    <3>0. v \in Updates
      BY <1>1 DEF TypeOK
    <3>1. PICK j \in Requests : \/ v \in rows[j].updates
                                \/ \E x \in store : x.id = j /\ x.update = v
      BY <2>0 DEF Orderly, Safe
    <3>2. v \in rows'[j].updates \/ \E x \in store : x.id = j /\ x.update = v
      BY <1>4, <3>1 DEF RowsStay
    <3>3. Names(j, v)
      BY <3>1 DEF Names
    <3>4. ASSUME NEW i \in Requests, Names(i, v)'
          PROVE  Waits(i)' \/ Sent(i)'
      <4>1. Names(i, v)
        <5>1. CASE v = u
          BY <2>2, <2>4, <3>0, <3>3, <3>4, <5>1
        <5>2. CASE v # u
          BY <2>3, <3>0, <3>4, <5>2
        <5> QED BY <5>1, <5>2
      <4>2. Waits(i) \/ Sent(i)
        BY <2>0, <4>1 DEF Orderly, Safe
      <4> QED BY <1>2, <1>4, <4>2 DEF RowsStay, RowsGrow, Waits
    <3> QED BY <3>2, <3>4
  <2> QED BY <2>4, <2>5, <2>6, <2>7 DEF Orderly
<1> QED BY <1>5, <1>7, <1>8 DEF WInv

(* The server confirms the row of the proposal. *)
LEMMA ServerConfirmsKeeps ==
  ASSUME WInv, NEW u \in Updates, ServerConfirms(u)
  PROVE  WInv'
<1>1. TypeOK /\ minted \in Nat /\ Sound
  BY MintedNat DEF WInv
<1>2. /\ UNCHANGED <<store, saves, loops, screen, asked, said, minted, told, hurried>>
      /\ flow[u].step = "confirm" /\ Step(u, "confirmed")
  BY DEF ServerConfirms
<1>3. PICK id \in Requests : id = flow[u].id
  BY <1>2 DEF WInv, FlowIds
<1>4. /\ RowsStay /\ Sent(id)'
      /\ \A i \in Requests : rows'[i].updates = rows[i].updates
  BY <1>1, <1>3, ConfirmationStays DEF ServerConfirms
<1>5. RecordsMove
  BY <1>2, <1>4 DEF RecordsMove, Copies
<1>6. Sound'
  BY <1>1, <1>2, <1>4, StillSound DEF Sound, QueueTypeOK
<1>7. /\ flow' \in [Updates -> Flows]
      /\ flow'[u].id = flow[u].id
      /\ \A v \in Updates : v # u => flow'[v] = flow[v]
  BY <1>1, <1>2, FlowMoves
<1>8. TypeOK' /\ FlowIds'
  BY <1>1, <1>2, <1>3, <1>6, <1>7 DEF TypeOK, Sound, WInv, FlowIds
<1>9. ASSUME ~hurried'
      PROVE  Orderly'
  <2>0. Orderly
    BY <1>2, <1>9 DEF WInv
  <2>1. OneName' /\ NamedBefore' /\ Safe'
    BY <1>1, <1>2, <1>4, <1>5, <1>6, <2>0, MovesKeepTables DEF Orderly, TypeOK, Sound
  <2>2. screen.ref # None
    BY <1>2, <2>0 DEF Orderly, Flowing
  <2>3. \A i \in Requests, v \in Updates :
          Names(i, v)' => (i = screen.ref <=> v = screen.extraction)
    BY <1>1, <1>5, <2>0, <2>2, MovesName DEF Orderly, Shown
  <2>4. rows'[id].status # "none"
    BY <1>4 DEF Sent
  <2>5. Shown' /\ Flowing'
    BY <1>2, <1>3, <1>4, <2>0, <2>3, <2>4, NextOfFlow
  <2>6. Asking'
    BY <1>2, <2>0 DEF Orderly, Asking
  <2> QED BY <2>1, <2>5, <2>6 DEF Orderly
<1> QED BY <1>6, <1>8, <1>9 DEF WInv

(* An update the screen calls done has its row, confirmed. *)
LEMMA CompleteKeeps ==
  ASSUME WInv, NEW u \in Updates, Complete(u)
  PROVE  WInv'
<1>1. TypeOK /\ minted \in Nat /\ Sound
  BY MintedNat DEF WInv
<1>2. /\ UNCHANGED <<rows, store, saves, loops, asked, said, minted, hurried>>
      /\ flow[u].step = "confirmed" /\ EndFlow(u)
      /\ screen' = Blank /\ told' = told \cup {u}
  BY DEF Complete, queueVars
<1>3. PICK id \in Requests : id = flow[u].id
  BY <1>2 DEF WInv, FlowIds
<1>4. Sound'
  BY <1>1, <1>2, StillMoves DEF queueVars
<1>5. /\ flow' \in [Updates -> Flows] /\ flow'[u].step = "none"
      /\ \A v \in Updates : v # u => flow'[v] = flow[v]
  BY <1>1, <1>2, FlowMoves
<1>6. /\ screen' \in Screens /\ screen'.stage = "idle"
      /\ screen'.ref = None /\ screen'.submitted = None
  BY <1>2 DEF Blank, Screens
<1>7. TypeOK' /\ FlowIds'
  BY <1>1, <1>2, <1>4, <1>5, <1>6 DEF TypeOK, Sound, WInv, FlowIds
<1>8. ASSUME ~hurried'
      PROVE  Orderly'
  <2>0. Orderly
    BY <1>2, <1>8 DEF WInv
  <2>1. \A i \in Requests, v \in Updates : Names(i, v)' <=> Names(i, v)
    BY <1>2 DEF Names, Copies
  <2>2. OneName' /\ NamedBefore'
    BY <1>2, <2>0, <2>1 DEF Orderly, OneName, NamedBefore
  <2>3. /\ screen.stage = "extracted" /\ screen.extraction = u
        /\ screen.ref = id /\ screen.ref # None /\ Sent(id)
    BY <1>2, <1>3, <2>0 DEF Orderly, Flowing
  <2>4. Asking' /\ Shown'
    BY <1>2, <1>6, <2>0, <2>3 DEF Orderly, Asking, Shown
  <2>5. Flowing'
    BY <1>5, <2>0, <2>3 DEF Orderly, Flowing
  <2>6. \A i \in Requests, v \in Updates : Names(i, v) => (i = id <=> v = u)
    BY <2>0, <2>3 DEF Orderly, Shown
  <2>7. u \in rows[id].updates
    <3>1. rows[id].updates # {} /\ rows[id].updates \subseteq Updates
      BY <1>1, <2>3 DEF Sound, QueueTypeOK, Rows, RowNamed, Sent
    <3>2. PICK v \in Updates : v \in rows[id].updates
      BY <3>1
    <3>3. v = u
      BY <2>6, <3>2 DEF Names
    <3> QED BY <3>2, <3>3
  <2>8. Safe'
    <3> SUFFICES ASSUME NEW v \in told'
                 PROVE  /\ \E i \in Requests :
                             \/ v \in rows[i].updates
                             \/ \E x \in store : x.id = i /\ x.update = v
                        /\ \A i \in Requests : Names(i, v) => Waits(i) \/ Sent(i)
      BY <1>2 DEF Safe, Names, Copies, Waits, Sent
    <3>1. CASE v = u
      BY <2>3, <2>6, <2>7, <3>1
    <3>2. CASE v \in told
      BY <2>0, <3>2 DEF Orderly, Safe
    <3> QED BY <1>2, <3>1, <3>2
  <2> QED BY <2>2, <2>4, <2>5, <2>8 DEF Orderly
<1> QED BY <1>4, <1>7, <1>8 DEF WInv

(* A record that is put replaces the one of its request. *)
LEMMA PutReplaces ==
  ASSUME Sound, NEW record \in Records
  PROVE  /\ Put(record) \subseteq Records /\ record \in Put(record)
         /\ \A x, y \in Put(record) : x.id = y.id => x = y
         /\ \A x \in Put(record) : x = record \/ x \in store
         /\ \A x \in store : x.id # record.id => x \in Put(record)
  BY DEF Sound, QueueTypeOK, Put

(* A proposal whose call has got no answer is saved under the request id it *)
(* was sent with, which the screen still has unless the worker has left it. *)
LEMMA SaveOnDeviceKeeps ==
  ASSUME WInv, NEW u \in Updates, SaveOnDevice(u)
  PROVE  WInv'
<1>1. TypeOK /\ minted \in Nat /\ Sound /\ None \notin Requests
  BY MintedNat, ScreenAssumption DEF WInv
<1>2. /\ UNCHANGED <<rows, loops, asked, said, hurried>>
      /\ flow[u].step = "save" /\ EndFlow(u) /\ MintRef
      /\ \/ Enqueue(Ref, u) /\ told' = told \cup {u}
         \/ UNCHANGED <<store, saves, told>>
  BY DEF SaveOnDevice
<1>3. PICK id \in Requests : id = Ref
  BY <1>1, <1>2, QueueAssumption DEF MintRef, Ref, Requests, TypeOK, Screens
<1>4. /\ minted' \in 0 .. MaxRequests /\ minted <= minted'
      /\ screen.ref # None => id = screen.ref /\ minted' = minted
  BY <1>1, <1>2, <1>3, QueueAssumption DEF MintRef, Ref, Requests, TypeOK
<1>5. /\ screen' \in Screens
      /\ screen'.stage = screen.stage /\ screen'.extraction = screen.extraction
      /\ screen'.ref = id /\ screen'.submitted = screen.submitted
  BY <1>1, <1>3 DEF SaveOnDevice, TypeOK, Screens
<1>6. /\ flow' \in [Updates -> Flows] /\ flow'[u].step = "none"
      /\ \A v \in Updates : v # u => flow'[v] = flow[v]
  BY <1>1, <1>2, FlowMoves
<1> DEFINE record == [id |-> id, update |-> u, queuedAt |-> saves + 1]
<1>7. record \in Records /\ record.id = id /\ record.update = u /\ saves + 1 \in Nat
  BY <1>1 DEF Records, Sound, QueueTypeOK
<1>8. \/ store' = Put(record) /\ saves' = saves + 1 /\ told' = told \cup {u}
      \/ UNCHANGED <<store, saves, told>>
  BY <1>2, <1>3 DEF Enqueue
<1> HIDE DEF record
<1>9. RowsStay
  BY <1>1, <1>2, SameRowsStay
<1>10. Sound'
  <2>1. CASE store' = Put(record) /\ saves' = saves + 1
    BY <1>1, <1>2, <1>7, <1>9, <2>1, PutReplaces, StillSound
  <2>2. CASE UNCHANGED <<store, saves>>
    BY <1>1, <1>2, <1>9, <2>2, StillSound DEF Sound, QueueTypeOK
  <2> QED BY <1>8, <2>1, <2>2
<1>11. TypeOK' /\ FlowIds'
  BY <1>1, <1>2, <1>4, <1>5, <1>6, <1>8, <1>10 DEF TypeOK, Sound, WInv, FlowIds
<1>12. ASSUME ~hurried'
       PROVE  Orderly'
  <2>0. Orderly
    BY <1>2, <1>12 DEF WInv
  <2>1. /\ screen.stage = "extracted" /\ screen.extraction = u
        /\ screen.ref = id /\ screen.ref # None /\ UNCHANGED minted
    BY <1>2, <1>4, <2>0 DEF Orderly, Flowing
  <2>2. /\ id <= minted /\ u \in said \ asked
        /\ \A i \in Requests, v \in Updates : Names(i, v) => (i = id <=> v = u)
    BY <2>0, <2>1 DEF Orderly, Shown, Asking
  <2>3. \A i \in Requests, v \in Updates : Names(i, v)' => Names(i, v) \/ (i = id /\ v = u)
    <3>1. \A x \in store' : x \in store \/ x = record
      BY <1>1, <1>7, <1>8, PutReplaces
    <3> QED BY <1>2, <1>7, <3>1 DEF Names, Copies
  <2>4. /\ OneName' /\ NamedBefore'
        /\ \A i \in Requests, v \in Updates : Names(i, v)' => (i = id <=> v = u)
    BY <1>2, <2>0, <2>1, <2>2, <2>3, NamedAnew DEF Orderly
  <2>5. Asking'
    BY <1>2, <1>5, <2>0 DEF Orderly, Asking
  <2>6. Shown'
    <3>1. screen.submitted # None => rows'[screen.submitted].status # "none"
      BY <1>2, <2>0 DEF Orderly, Shown
    <3>2. \A i \in Requests, v \in Updates :
            Names(i, v)' => (i = screen'.ref <=> v = screen'.extraction)
      BY <1>5, <2>1, <2>4
    <3> QED BY <1>2, <1>5, <2>0, <2>1, <2>2, <3>1, <3>2 DEF Orderly, Shown, Names
  <2>7. Flowing'
    BY <1>6, <2>0, <2>1 DEF Orderly, Flowing
  <2>8. Safe'
    <3>1. CASE UNCHANGED <<store, told>>
      BY <1>2, <2>0, <3>1 DEF Orderly, Safe, Names, Copies, Waits, Sent
    <3>2. CASE store' = Put(record) /\ told' = told \cup {u}
      <4>1. record \in store'
        BY <1>1, <1>7, <3>2, PutReplaces
      <4> SUFFICES ASSUME NEW v \in told'
                   PROVE  /\ \E i \in Requests :
                               \/ v \in rows'[i].updates
                               \/ \E x \in store' : x.id = i /\ x.update = v
                          /\ \A i \in Requests : Names(i, v)' => Waits(i)' \/ Sent(i)'
        BY DEF Safe
      <4>2. CASE v = u
        <5>1. \A i \in Requests : Names(i, v)' => i = id
          BY <2>4, <4>2
        <5>2. Waits(id)'
          BY <1>7, <4>1 DEF Waits
        <5> QED BY <1>7, <4>1, <4>2, <5>1, <5>2
      <4>3. CASE v # u
        <5>1. v \in told /\ v \in Updates
          BY <1>1, <3>2, <4>3 DEF TypeOK
        <5>2. PICK j \in Requests : \/ v \in rows[j].updates
                                    \/ \E x \in store : x.id = j /\ x.update = v
          BY <2>0, <5>1 DEF Orderly, Safe
        <5>3. Names(j, v)
          BY <5>2 DEF Names
        <5>4. j # id
          BY <2>2, <4>3, <5>1, <5>3
        <5>5. \/ v \in rows'[j].updates
              \/ \E x \in store' : x.id = j /\ x.update = v
          BY <1>1, <1>2, <1>7, <3>2, <5>2, <5>4, PutReplaces
        <5>6. ASSUME NEW i \in Requests, Names(i, v)'
              PROVE  Waits(i)' \/ Sent(i)'
          <6>1. Names(i, v) /\ i # id
            BY <2>2, <2>3, <4>3, <5>1, <5>6
          <6>2. Waits(i) \/ Sent(i)
            BY <2>0, <5>1, <6>1 DEF Orderly, Safe
          <6>3. Waits(i) => Waits(i)'
            BY <1>1, <1>7, <3>2, <6>1, PutReplaces DEF Waits
          <6> QED BY <1>2, <6>2, <6>3 DEF Sent
        <5> QED BY <5>5, <5>6
      <4> QED BY <4>2, <4>3
    <3> QED BY <1>8, <3>1, <3>2
  <2> QED BY <2>4, <2>5, <2>6, <2>7, <2>8 DEF Orderly
<1> QED BY <1>10, <1>11, <1>12 DEF WInv

--------------------------------------------------------------------------------
(* What the screen and the queue keep together *)

(* An app nobody has spoken to names nothing. *)
LEMMA AppStart == Init => WInv
<1> SUFFICES ASSUME Init
             PROVE  WInv
  OBVIOUS
<1>1. /\ rows = [i \in Requests |-> [status |-> "none", updates |-> {}]]
      /\ store = {} /\ saves = 0
      /\ loops = [l \in Loops |-> [step |-> "idle", todo |-> {}]]
      /\ screen = Blank /\ asked = {} /\ said = {} /\ told = {}
      /\ flow = [u \in Updates |-> NoFlow] /\ minted = 0 /\ hurried = FALSE
  BY DEF Init, QueueInit
<1>2. Sound
  <2>1. IInv
    BY InitHolds DEF Init
  <2> QED BY <1>1, <2>1 DEF IInv, Sound, RowNamed
<1>3. Blank \in Screens /\ NoFlow \in Flows /\ NoFlow.step = "none"
  BY DEF Blank, Screens, NoFlow, Flows
<1>4. TypeOK /\ FlowIds
  <2>1. 0 \in 0 .. MaxRequests
    BY QueueAssumption
  <2>2. flow \in [Updates -> Flows] /\ \A u \in Updates : flow[u] = NoFlow
    BY <1>1, <1>3
  <2>3. hurried \in BOOLEAN
    BY <1>1
  <2>4. screen \in Screens
    BY <1>1, <1>3
  <2> QED BY <1>1, <1>2, <1>3, <2>1, <2>2, <2>3, <2>4 DEF Sound, TypeOK, FlowIds
<1>5. \A i \in Requests, u \in Updates : ~Names(i, u)
  BY <1>1 DEF Names, Copies
<1>6. OneName /\ NamedBefore /\ Asking /\ Safe
  BY <1>1, <1>5 DEF OneName, NamedBefore, Asking, Safe
<1>7. Shown
  BY <1>1 DEF Shown, Blank
<1>8. Flowing
  BY <1>1, <1>3 DEF Flowing
<1> QED BY <1>2, <1>4, <1>6, <1>7, <1>8 DEF WInv, Orderly

(* Every step of the screen and of the queue keeps the invariant. *)
LEMMA AppStep == WInv /\ [Next]_vars => WInv'
<1> SUFFICES ASSUME WInv, [Next]_vars
             PROVE  WInv'
  OBVIOUS
<1>1. ASSUME NEW u \in Updates,
             \/ Dictate(u) \/ Retype(u) \/ Extracted(u) \/ ExtractionFails(u)
             \/ ConfirmProposal(u) \/ UploadPhoto(u)
      PROVE  WInv'
  BY <1>1, AskingKeeps, AnswerKeeps, ProposalKeeps
<1>2. ASSUME NEW u \in Updates,
             \/ ServerCreates(u) \/ DraftArrives(u) \/ PhotoStored(u) \/ PhotoFails(u)
             \/ ServerConfirms(u) \/ Complete(u) \/ Refused(u) \/ NetworkFails(u)
             \/ SaveOnDevice(u)
      PROVE  WInv'
  BY <1>2, ServerCreatesKeeps, DraftKeeps, EndingKeeps, ServerConfirmsKeeps, CompleteKeeps,
     SaveOnDeviceKeeps
<1>3. CASE StartAnother \/ CorrectDetails \/ Reload
  BY <1>3, LeavingKeeps
<1>4. CASE QueueNext /\ UNCHANGED screenVars
  BY <1>4, QueueKeepsOrder
<1>5. CASE UNCHANGED vars
  <2>1. UNCHANGED <<queueVars, screen, asked, said, flow, minted, told, hurried>>
    BY <1>5 DEF vars, queueVars
  <2>2. TypeOK /\ minted \in Nat
    BY MintedNat DEF WInv
  <2>3. FlowIds'
    BY <2>1 DEF WInv, FlowIds
  <2>4. Orderly => Asking' /\ Shown' /\ Flowing'
    BY <2>1 DEF Orderly, Asking, Shown, Flowing, Names, Copies, Sent, queueVars
  <2> QED BY <2>1, <2>2, <2>3, <2>4, StillKeeps DEF TypeOK
<1> QED BY <1>1, <1>2, <1>3, <1>4, <1>5 DEF Next, ScreenNext

(* What the steps keep holds forever. *)
LEMMA AppAlways == Spec => []WInv
<1>1. Init => WInv
  BY AppStart
<1>2. WInv /\ [Next]_vars => WInv'
  BY AppStep
<1> QED BY <1>1, <1>2, PTL DEF Spec

(* The screen of ExecutiveDashboard.tsx, its handlers and the outbox keep   *)
(* their shape, in whatever order answers arrive and proposals are left.    *)
THEOREM AppTypeCorrect == Spec => []TypeOK
<1>1. WInv => TypeOK
  BY DEF WInv
<1> QED BY <1>1, AppAlways, PTL

(* What a worker who waits for the answers was told is done or safe is with *)
(* the server or on the device under one request id, whatever calls failed  *)
(* and whatever the synchronizing loops removed and put back.               *)
THEOREM ToldIsKept == Spec => []ToldIsKeptOnce
<1>1. WInv => ToldIsKeptOnce
  <2> SUFFICES ASSUME WInv, ~hurried, NEW u \in told
               PROVE  /\ Cardinality(RequestsFor(u)) = 1
                      /\ \A i \in RequestsFor(u) :
                           Waits(i) \/ ~Unsent(i)
    BY DEF ToldIsKeptOnce
  <2>1. OneName /\ Safe /\ u \in Updates /\ QueueTypeOK
    BY DEF WInv, Orderly, TypeOK
  <2>2. \A i \in RequestsFor(u) : i \in Requests /\ Names(i, u)
    BY <2>1 DEF RequestsFor, Names, QueueTypeOK, Records
  <2>3. PICK j \in Requests : j \in RequestsFor(u)
    BY <2>1 DEF Safe, RequestsFor
  <2>4. RequestsFor(u) = {j}
    BY <2>1, <2>2, <2>3 DEF OneName
  <2>5. Cardinality(RequestsFor(u)) = 1
    BY <2>4, FS_Singleton
  <2>6. ASSUME NEW i \in RequestsFor(u)
        PROVE  Waits(i) \/ ~Unsent(i)
    <3>1. Waits(i) \/ Sent(i)
      BY <2>1, <2>2 DEF Safe
    <3> QED BY <3>1 DEF Sent, Unsent
  <2> QED BY <2>5, <2>6
<1> QED BY <1>1, AppAlways, PTL

(* Under the screen, hurried or not, no record is lost on the device: what  *)
(* leaves the store has been confirmed or was replaced by another record of *)
(* its request.                                                             *)
THEOREM AppLosesNothing == Spec => RemovedWasConfirmed
<1> DEFINE Leaves ==
      \A x \in store : (\A y \in store' : y.id # x.id)
                         => rows[x.id].status \in {"waiting", "posted", "closed"}
<1>1. WInv /\ [Next]_vars => [Leaves]_store
  <2> SUFFICES ASSUME WInv, Next, store' # store
               PROVE  Leaves
    BY DEF vars
  <2>1. CASE ScreenNext
    BY <2>1, ScreenSaves DEF WInv
  <2>2. CASE QueueNext
    BY <2>2, QueueMoves DEF WInv, RecordsMove, Sent
  <2> QED BY <2>1, <2>2 DEF Next
<1> QED BY <1>1, AppAlways, PTL DEF Spec, RemovedWasConfirmed

================================================================================
