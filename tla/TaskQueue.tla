-------------------------------- MODULE TaskQueue --------------------------------
(***************************************************************************)
(* The task queue of the inventory API (tasks.service.ts) working on the   *)
(* same rows as the transaction engine, which completes tasks and opens    *)
(* recount tasks while this service claims, changes, reassigns, cancels    *)
(* and plans them.                                                         *)
(*                                                                         *)
(* Nothing here runs in a Serializable transaction: every handler reads,   *)
(* awaits and writes, and is cut there.                                    *)
(***************************************************************************)
EXTENDS TransactionEngine

CONSTANTS Workers,     \* active users with the role of a worker
          Manager,       \* a manager or an administrator
          Calls,         \* requests to the task queue that can be in flight
          NewTasks,      \* rows a manager may ask POST /tasks for
          Plans,         \* cycle-count plan requests, one for each request key
          Period,        \* the month of each plan request
          Selected,      \* the locations each plan request selects
          InitialAssignees

ASSUME TaskQueueAssumption ==
  /\ Manager \notin Workers /\ None \notin Workers \cup {Manager} \cup Plans
  /\ NewTasks \subseteq {row \in TaskRows : row.status = "OPEN" /\ row.of = None}
  /\ DOMAIN Period = Plans /\ Selected \in [Plans -> (SUBSET Locations) \ {{}}]
  /\ InitialAssignees \subseteq [Tasks -> Workers \cup {None}]

VARIABLES assignee,      \* assignedToId; of a row that is not there yet, the worker
                         \* whose count it will ask to repeat
          plan,          \* cycleCountPlanId of each task, and so its period
          made,          \* the plans there are, by request key
          call,          \* what each request in flight has read
          claimed,       \* history: workers who were told the task is theirs now
          reassigned     \* history: tasks a manager has given to someone

queueVars == <<assignee, plan, made, call, claimed, reassigned>>
taskVars  == <<vars, queueVars>>

Free == [step |-> "free"]

CallRecords ==
  {Free}
  \cup [step : {"checkShipped", "change"}, task : Tasks, unassigned : BOOLEAN,
        status : {"IN_PROGRESS", "COMPLETED"}, who : Workers \cup {Manager}]
  \cup [step : {"cancel"}, task : Tasks, row : Txns \cup {None}, hasCase : BOOLEAN]
  \cup [step : {"reassign"}, task : Tasks, who : Workers]
  \cup [step : {"create"}, new : NewTasks, who : Workers]
  \cup [step : {"plan"}, plan : Plans, todo : SUBSET Locations, who : Workers]

TaskInit == /\ Init
            /\ assignee \in InitialAssignees
            /\ plan = [k \in Tasks |-> None]
            /\ made = {}
            /\ call = [a \in Calls |-> Free]
            /\ claimed = [k \in Tasks |-> {}]
            /\ reassigned = {}

Ask(a, request) == call[a] = Free /\ call' = [call EXCEPT ![a] = request]

Reading(a, request) ==
  Ask(a, request) /\ UNCHANGED <<vars, assignee, plan, made, claimed, reassigned>>

Waiting(a, step) == call[a].step = step
Answer(a) == call' = [call EXCEPT ![a] = Free]

(* A 4xx reply, or the request dies. *)
Drop(a) == /\ call[a] # Free
           /\ Answer(a)
           /\ UNCHANGED <<vars, assignee, plan, made, claimed, reassigned>>

SetStatus(k, status) == tasks' = [tasks EXCEPT ![k].status = status]

--------------------------------------------------------------------------------
(* changeStatus: a worker starts or completes a task *)

ChangeRead(a, k, status, who) ==
  /\ OpenTask(k)
  /\ who = Manager \/ assignee[k] \in {who, None}
  /\ Reading(a, [step |-> IF tasks[k].type = "SHIP" /\ status = "COMPLETED"
                          THEN "checkShipped" ELSE "change",
                 task |-> k, unassigned |-> assignee[k] = None,
                 status |-> status, who |-> who])

(* Mutant: shipping tasks are completed like any other. *)
CheckShippedNot(a) ==
  /\ Waiting(a, "checkShipped")
  /\ call' = [call EXCEPT ![a].step = "change"]
  /\ UNCHANGED <<vars, assignee, plan, made, claimed, reassigned>>

(* A shipping task is completed here only when its movement was posted. *)
CheckShipped(a) ==
  /\ Waiting(a, "checkShipped")
  /\ \E t \in Txns : txn[t].task = call[a].task /\ txn[t].status = "POSTED"
  /\ call' = [call EXCEPT ![a].step = "change"]
  /\ UNCHANGED <<vars, assignee, plan, made, claimed, reassigned>>

Begun(a) == Waiting(a, "change") /\ Answer(a)

(* Mutant: the claim is an update by id. *)
ClaimBlindly(a) ==
  LET k == call[a].task IN
  /\ Begun(a) /\ call[a].unassigned
  /\ SetStatus(k, call[a].status)
  /\ assignee' = [assignee EXCEPT ![k] = call[a].who]
  /\ claimed' = [claimed EXCEPT ![k] = @ \cup {call[a].who}]
  /\ UNCHANGED <<stock, txn, cases, draft, handler, plan, made, reassigned>>

(* An unassigned task is claimed by whoever is first; the status it has by  *)
(* then does not matter.                                                    *)
Claim(a) ==
  LET k == call[a].task IN
  /\ Begun(a) /\ call[a].unassigned
  /\ assignee[k] = None
  /\ SetStatus(k, call[a].status)
  /\ assignee' = [assignee EXCEPT ![k] = call[a].who]
  /\ claimed' = [claimed EXCEPT ![k] = @ \cup {call[a].who}]
  /\ UNCHANGED <<stock, txn, cases, draft, handler, plan, made, reassigned>>

(* The status of an assigned task is updated by id. *)
ChangeStatus(a) ==
  /\ Begun(a) /\ ~call[a].unassigned
  /\ SetStatus(call[a].task, call[a].status)
  /\ UNCHANGED <<stock, txn, cases, draft, handler,
                 assignee, plan, made, claimed, reassigned>>

--------------------------------------------------------------------------------
(* reassign *)

ReassignRead(a, k, w) ==
  /\ OpenTask(k) /\ assignee[k] # w
  /\ Reading(a, [step |-> "reassign", task |-> k, who |-> w])

Reassign(a) ==
  LET k == call[a].task IN
  /\ Waiting(a, "reassign") /\ Answer(a)
  /\ assignee' = [assignee EXCEPT ![k] = call[a].who]
  /\ reassigned' = reassigned \cup {k}
  /\ UNCHANGED <<vars, plan, made, claimed>>

--------------------------------------------------------------------------------
(* cancel: the count a recount task is to repeat, whatever its status, or   *)
(* an undecided transaction entered for the task, is cancelled with it.     *)

Linked(k, t) == /\ k \in {txn[t].task, txn[t].recountTask}
                /\ txn[t].status \in {"PENDING", "RECOUNT_REQUESTED"}

CancelTaskRead(a, k) ==
  /\ OpenTask(k)
  /\ \E t \in Txns \cup {None} :
       /\ IF tasks[k].of # None THEN t = tasks[k].of
          ELSE IF t = None THEN \A u \in Txns : ~Linked(k, u) ELSE Linked(k, t)
       /\ Reading(a, [step |-> "cancel", task |-> k, row |-> t,
                      hasCase |-> t # None /\ cases[t].status # "ABSENT"])

CancelTask(a) ==
  LET t == call[a].row IN
  /\ Waiting(a, "cancel") /\ Answer(a)
  /\ txn' = IF t = None THEN txn ELSE [txn EXCEPT ![t].status = "CANCELLED"]
  /\ cases' = IF call[a].hasCase THEN [cases EXCEPT ![t].status = "CLOSED"] ELSE cases
  /\ SetStatus(call[a].task, "CANCELLED")
  /\ UNCHANGED <<stock, draft, handler, assignee, plan, made, claimed, reassigned>>

--------------------------------------------------------------------------------
(* create *)

OpenCountAt(l) ==
  \E k \in Tasks : OpenTask(k) /\ tasks[k].type = "CYCLE_COUNT" /\ tasks[k].from = l

CreateTaskRead(a, row, w) ==
  /\ row.type = "TRANSFER" => /\ row.from # None /\ row.to \notin {None, row.from}
                              /\ stock[row.from] > 0
  /\ row.type = "CYCLE_COUNT" => row.from # None /\ ~OpenCountAt(row.from)
  /\ Reading(a, [step |-> "create", new |-> row, who |-> w])

CreateTask(a, k) ==
  /\ Waiting(a, "create") /\ Answer(a)
  /\ tasks[k].status = "ABSENT"
  /\ tasks' = [tasks EXCEPT ![k] = call[a].new]
  /\ assignee' = [assignee EXCEPT ![k] = call[a].who]
  /\ UNCHANGED <<stock, txn, cases, draft, handler, plan, made, claimed, reassigned>>

--------------------------------------------------------------------------------
(* createCycleCountPlan: one counting task for each selected location that  *)
(* has none in the period yet.  A request whose plan exists is answered     *)
(* with that plan.                                                          *)

CountedIn(month, l) ==
  \E k \in Tasks : plan[k] # None /\ Period[plan[k]] = month /\ tasks[k].from = l

Uncounted(p, locations) == {l \in locations : ~CountedIn(Period[p], l)}

PlanRead(a, p, w) ==
  /\ p \notin made
  /\ \A l \in Selected[p] : stock[l] > 0
  /\ Uncounted(p, Selected[p]) # {}
  /\ Reading(a, [step |-> "plan", plan |-> p, who |-> w,
                 todo |-> Uncounted(p, Selected[p])])

(* skipDuplicates, by the partial unique index of period and location. *)
Inserted(p, locations) == Uncounted(p, locations)

(* Mutant: a plan all of whose tasks were skipped stays. *)
EmptyPlan(p, rows) == rows = {} /\ p \in Plans

(* created.count = 0: the transaction is rolled back. *)
NothingToCount(p, rows) == rows = {} /\ p \notin Plans

WithoutPlan(p) == made \ {p}           \* mutant: the plan row is not written
WithPlan(p) == made \cup {p}

(* The plan and its tasks are inserted together, unless a request with the  *)
(* same key was faster.                                                     *)
MakePlan(a) ==
  LET p == call[a].plan
      rows == Inserted(p, call[a].todo)
  IN
  /\ Waiting(a, "plan") /\ Answer(a)
  /\ p \notin made
  /\ rows # {} \/ NothingToCount(p, rows)
  /\ \E new \in [rows -> {k \in Tasks : tasks[k].status = "ABSENT"}] :
       /\ \A l, m \in rows : new[l] = new[m] => l = m
       /\ tasks' = [k \in Tasks |->
            IF \E l \in rows : new[l] = k
            THEN [status |-> "OPEN", type |-> "CYCLE_COUNT", to |-> None, of |-> None,
                  from |-> CHOOSE l \in rows : new[l] = k]
            ELSE tasks[k]]
       /\ plan' = [k \in Tasks |-> IF \E l \in rows : new[l] = k THEN p ELSE plan[k]]
       /\ assignee' = [k \in Tasks |->
            IF \E l \in rows : new[l] = k THEN call[a].who ELSE assignee[k]]
  /\ made' = WithPlan(p)
  /\ UNCHANGED <<stock, txn, cases, draft, handler, claimed, reassigned>>

--------------------------------------------------------------------------------
QueueNext ==
  \E a \in Calls :
    \/ \E k \in Tasks :
         \/ \E status \in {"IN_PROGRESS", "COMPLETED"}, who \in Workers \cup {Manager} :
              ChangeRead(a, k, status, who)
         \/ \E w \in Workers : ReassignRead(a, k, w)
         \/ CancelTaskRead(a, k)
         \/ CreateTask(a, k)
    \/ \E row \in NewTasks, w \in Workers : CreateTaskRead(a, row, w)
    \/ \E p \in Plans, w \in Workers : PlanRead(a, p, w)
    \/ CheckShipped(a) \/ Claim(a) \/ ChangeStatus(a) \/ Reassign(a)
    \/ CancelTask(a) \/ MakePlan(a) \/ Drop(a)

TaskNext == QueueNext \/ (Next /\ UNCHANGED queueVars)

TaskSpec == TaskInit /\ [][TaskNext]_taskVars

--------------------------------------------------------------------------------
(* Properties *)

TasksTypeOK ==
  /\ TypeOK
  /\ assignee \in [Tasks -> Workers \cup {Manager, None}]
  /\ plan \in [Tasks -> made \cup {None}]                     \* foreign key
  /\ made \subseteq Plans
  /\ call \in [Calls -> CallRecords]
  /\ claimed \in [Tasks -> SUBSET (Workers \cup {Manager})]
  /\ reassigned \subseteq Tasks

(* "only the first worker wins when two people start the same task at the   *)
(* same time" (changeStatus): one user at most was told that an unassigned  *)
(* task is now theirs, and it stays theirs until a manager gives it away.   *)
ClaimIsKept ==
  \A k \in Tasks :
    /\ Cardinality(claimed[k]) <= 1
    /\ k \notin reassigned => claimed[k] \subseteq {assignee[k]}

(* "preventing a task from being marked complete without reducing stock"    *)
(* (changeStatus): a movement entered for a completed shipping task has     *)
(* reached the balances, whichever of the two services completed it and     *)
(* whatever was cancelled in between.                                       *)
ShippedBeforeCompleted ==
  \A k \in Tasks :
    tasks[k].type = "SHIP" /\ tasks[k].status = "COMPLETED"
      => \E t \in Txns : txn[t].task = k /\ txn[t].posted

(* A plan that was made has a task for every location it selected, its own  *)
(* or that of a plan it raced, and one of its own at least.                 *)
PlannedIsCounted ==
  \A p \in made :
    /\ \A l \in Selected[p] : CountedIn(Period[p], l)
    /\ \E k \in Tasks : plan[k] = p

(* "Completed tasks cannot be changed.", "Cancelled tasks cannot be         *)
(* changed." (changeStatus): a task that was completed or cancelled stays.  *)
(* It does not hold: Claim and ChangeStatus write what ChangeRead decided.  *)
TerminalIsFinal ==
  [][\A k \in Tasks : tasks[k].status \in {"COMPLETED", "CANCELLED"}
                       => tasks'[k].status = tasks[k].status]_tasks

================================================================================
