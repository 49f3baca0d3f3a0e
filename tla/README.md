# Inventory system: specifications, model checking and proofs

This directory holds TLA+ specifications of the AI Voice Inventory system, the
TLC configurations that check them on small instances, and proofs that TLAPS
checks for instances of any size. The specifications follow the source, line
ranges in `PROJECT.json` ("map") say which lines each definition stands for.
Paths below are relative to `src/backend/api/src/` unless they start with `src/`.

## The system

A worker speaks or types an inventory update; the web app turns it into a
proposal, and after the worker's confirmation calls the API. The API (NestJS
over Prisma and PostgreSQL) is the only writer of inventory state. All its
handlers are asynchronous, any number of them run at once, and they meet only
in the database. When the network fails the web app keeps the update in
IndexedDB and sends it later; every open tab does that.

| Component | State | Operations | Must be true |
|---|---|---|---|
| Transaction engine, `inventory/inventory.service.ts` | `InventoryTransaction`, `InventoryBalance` | create, confirm (movement, damage, count, recount), approve, reject, cancel, requestRecount | a movement reaches the balances once and whole, never more than is there; a task is completed only with the work |
| Reorder drafts, same file | `ReorderDraft` | syncReorderDrafts, refresh | one draft exactly while the product is low, with current numbers |
| Discrepancy cases, `discrepancies/` | `Discrepancy`, audit events | open, approve, reject, requestRecount, resolveTransfer | a case stands for a confirmed count; a resolution has really been posted; no decision during a recount |
| Task queue, `tasks/tasks.service.ts` | `InventoryTask`, `CycleCountPlan` | create, plan, claim and change status, reassign, cancel, createRecountTask | one claimant; a completed shipping task was shipped; a plan covers its locations; one open recount per count |
| Inventory and severity rules | none | validate, review routing, reorder, severity | pure functions agree with their documentation |
| Catalog and stock administration, `inventory.service.ts`, `setup/` | `Product`, `Location`, balances | create, restore, deactivate, delete, opening balance, adjustment, setup wizard | no stock and no waiting movement on inactive rows, no stock deleted, one opening entry per balance |
| Offline queue, `src/frontend/src/features/inventory/offline/` | IndexedDB records | enqueue, synchronize, record a failure, remove | nothing lost, nothing overtaken, everything delivered at last unless refused |
| Worker's screen, `.../warehouse-executive/ExecutiveDashboard.tsx` | React state and refs | dictate, correct, confirm, attach a photo, save on the device | what is called done or safe exists once |
| Sessions and sign-in, `auth/`, `.../api/inventory-api.ts` | `User`, `AuthSession`, `AuthRefreshToken`, cookies, access tokens | sign in, refresh, call, change password, sign out, reset, (de)activate | one chain of refresh tokens; what is let through is current; what ended stays ended |
| Keycloak, role and rate guards, evidence, speech, AI extraction, notifications, metrics | outside inventory | see below | not modelled |

How they interact: confirmations complete tasks (engine writes the task rows); a
differing count opens a case inside the confirmation's database transaction;
case decisions write balances and transaction rows of the engine; a recount,
asked for on the transaction or on the case, creates a task whose result
comes back through confirm. The same rows are thus written by four
services (engine, case decisions, task queue, administration), and a manager
has two ways to decide the same count. The screen and the outbox call create and confirm
with one request key per update; the guard stands before every call.

What is hard: handlers that read, await and then write what they read; the two
decision paths racing; requests that die between two writes; counts compared
with a balance that moves; the same confirmation delivered twice; several tabs that share
a queue or a cookie and do not know of each other; replies that are lost. The list,
line by line, is under "hazards" in `PROJECT.json`.

## The modules

| Module | Models |
|---|---|
| `StockLedger` | the abstract promise: movements that reach the balances once, entirely, within what is there, and counts that set a balance |
| `TransactionEngine` | every state-changing transaction handler of `inventory.service.ts` and the reorder drafts, for one product |
| `DiscrepancyReview` | the case decisions of `discrepancies.service.ts`; extends `TransactionEngine`, so both decision paths run together (`ReviewSpec`) |
| `TaskQueue` | `tasks.service.ts`; extends `TransactionEngine`, so both write the same task rows (`TaskSpec`) |
| `StockAdministration` | products, locations, balance rows and the setup wizard; extends `TransactionEngine`, whose rows and posting operators it uses with movements (`AdminSpec`) |
| `OfflineQueue` | the outbox, its synchronizing loops, and the API's create and confirm as the outbox sees them (`QueueSpec`, with fairness) |
| `WorkerApp` | the worker's screen; extends `OfflineQueue`, whose store and loops run beside it |
| `AuthSessions` | users, sessions, tokens, the guard, and the tabs of the web app |
| `MC...` | small instances for TLC: initial rows, symmetry |
| `TransactionEngine_proofs`, `DiscrepancyReview_proofs`, `TaskQueue_proofs`, `StockAdministration_proofs`, `OfflineQueue_proofs`, `WorkerApp_proofs`, `AuthSessions_proofs` | theorems and proofs |

### State

`stock` is `InventoryBalance.quantity` by location; `txn`, `tasks` and `cases` are
the rows of `InventoryTransaction`, `InventoryTask` and `Discrepancy` (status
`ABSENT` = no such row; a case is keyed by its unique `transactionId`); `draft`
holds the `ReorderDraft` row with the product's active key, if any. `confirmed` and
`posted` say that `confirmedAt` and `postedAt` are set: the status alone does not
tell, since handlers overwrite it. `handler` is what the requests in flight have read.

In `TaskQueue`, `assignee` and `plan` are the columns `assignedToId` and
`cycleCountPlanId` of the task rows, `made` the plans by request key, `call` what the
requests in flight have read. In `StockAdministration`, `product` and `place` are
`Product.active` and `Location.active` (with "absent" for no row), `assigned` the
balance rows, `openings` and `entry` the ledger entries of administrators. In
`OfflineQueue`, `rows` are the transactions by `clientRequestId`, `store` the records
of the object store, `loops` the runs of `synchronizeOfflineInventoryUpdates` with
their copies. In `WorkerApp`, `screen` holds the React state and refs, `flow` the
handlers that wait for a reply with the proposal of their closure. In `AuthSessions`,
`jar` is the cookie of each browser, `access` the token of each tab, `request` what each
tab has in flight. Variables called history in their declarations remember what happened
for a property and never decide a step.

### Steps of a handler

A handler is cut where another request can get in between and matter:

- a database transaction with isolation level Serializable is one step. When
  PostgreSQL refuses it (`P2034`), or the request dies, the handler ends with
  what it wrote before: `Abandon`.
- reads before a transaction that repeats all their checks inside are merged with it:
  `ConfirmMovement`, `ApproveTransaction`, `RequestCaseRecount`, `CreateTransaction`.
- a handler that acts on what it read is a read step and the write steps after it.
  `ConfirmCountRead` remembers the balance; `PostMatchingCycleCount` or
  `OpenDiscrepancy` follows. `CancelRead`, `CancelWrite`, `CancelCase` are the
  read, the update by id and the update of the case; reject and requestRecount have
  the same shape, and case decisions have the read of the status, of the open
  recount task and (transfer) of the difference outside their transaction.
- the two writes of the damage confirmation share a transaction that is not
  Serializable. The two rows are written in one commit and no other
  action reads one without the other, so it is one step.

- in `TaskQueue` and `StockAdministration` nearly every handler reads, awaits and writes
  by id: `Ask` or a `...Read` action, and the write. The write does not look again,
  because the code does not; only constraints of the database (unique keys, foreign keys)
  stop it.
- in `AuthSessions` a request is cut at each await of the server and before the delivery of its reply:
  `RotateRead` and `RotateCommit` are the two halves of the rotation's transaction around its
  conditional update, since Read Committed lets another one in between; `GuardUser` and
  `GuardSession` are the guard's two queries, in either order.
- a call of the outbox is one step when it is accepted (`LoopCreate`, `LoopConfirm`) or refused
  (`CreateRefused`, `ConfirmRefused`); when it or its reply is lost (`CallFails`) the server may have done
  its work all the same. `confirmTransaction` accepts a posted row always and may refuse any other: for
  missing stock, for a conflict, or because the row was cancelled, rejected or sent to a recount.
  `createTransaction` may refuse any update, since it asks for the product and the location before it
  looks for the request's row. Stock, products and locations are not state of this module, so a refusal
  is a choice of the server, once or for ever. A row cancelled before its confirmation is `dropped`, one cancelled, rejected
  or recounted after it `closed`; a cancellation that read the row too early closes a posted one.
- `logout` revokes the session of the access token and the one of the cookie by two awaits: `Logout`, `LogoutCookie`.

`requestRecount` may be called again on a transaction that is already
`RECOUNT_REQUESTED`: `recordManagerDecision` then returns at once and the task
and case writes are done again. `RequestRecountRead` has both branches.

### What the model leaves out

- One product; rows of another product share no state with it.
- Roles (who may call what), evidence, audit events, notifications, notes. The
  assignment of tasks is in `TaskQueue` only, the activity of products and locations in
  `StockAdministration` only, `clientRequestId` in `OfflineQueue` and `WorkerApp` only.
- `USE` and `LOSS` (validateTransaction refuses them) and the status
  `APPROVED` of a transaction (nothing writes it).
- Manager review of RECEIVE, SHIP and TRANSFER: `requiresManagerReviewExtended`
  returns no review for them.
- An absent balance row reads as 0. With no row at all and no affected
  location `syncReorderDrafts` makes no draft; the model's product has a balance.
- The draft's location, only a label; drafts of older activeKeys.
- resolveTransfer's check that both locations are active, and its record of evidence.

- `TaskQueue`: the arithmetic of the pieces reserved by other transfer tasks in `create`.
- `StockAdministration`: `updateProduct` (name and reorder levels), reviewed actions, the drafts and
  tasks that only make deleting a location fail more often. `adjustBalance` and
  the openings do not touch the reorder draft, and the model's do not either. A number of
  openings above two counts as two.
- `OfflineQueue`: one worker, who stays signed in; times are the order of saving (the code compares the
  device's clock); `attempts` and `lastError`.
- `AuthSessions`: a tab has one request in flight (the single-flight refresh), passwords are right
  or the request fails, the grace of clock skew. `MaxVersion` and `MaxTokens` bound `authVersion` and the
  tokens of a session in the guards of the actions that raise them.

Cycle counts have positive quantities: `validateTransaction` admits no zero
(`Inputs`), although `applyCycleCountBalance` would accept it.

## What is checked

Passing runs (TLC, the whole state space of the instance):

| Run | Instance | Shows |
|---|---|---|
| `engine_postings` | 2 transactions, 2 locations (2 and 1 pieces), a shipping and a counting task, 2 requests, all five actions, quantity 1, safety stock 3 | `TypeOK`, `DraftMatchesStock`, `CompletedTaskHasConfirmedWork`, and `LedgerSpec`: the engine implements `StockLedger` |
| `review_recounts` | 2 counts of 1 or 2 pieces at one location holding 2, room for 2 recount tasks, 2 requests | `CompletedTaskHasConfirmedWork`, `CaseBelongsToConfirmedCount`, `ResolutionWasPosted`, `OneOpenRecountPerCount`, on both decision paths |
| `review_stock` | 2 counts of 1 or 5 pieces, 2 locations holding 2, 2 requests, no tasks | `TypeOK`, `ResolutionWasPosted` and `LedgerSpec` with case approvals and transfers |
| `sessions` | 1 user, 2 sessions, 2 tabs of one browser, 2 refresh tokens per session, 1 change of the account, sessions that expire | `TypeOK`, `TokensFormChain`, `GrantedWasCurrent`, `RefusedForGood` |
| `offline_queue` | 2 requests for a movement or a damage, 2 loops, accepted, refused and lost calls | `RemovedWasConfirmed`, `SentInOrder`, and under `QueueFairness` `SavedIsDelivered` |
| `worker_app` | a movement and a damage, 2 request ids, 2 loops | `TypeOK`, `ToldIsKeptOnce` |
| `task_queue` | a shipping task nobody has, room for one more, 1 shipment, 2 requests to the queue (a worker's or a manager's) and 1 to the engine, 2 plans for one month and location | `TasksTypeOK`, `ClaimIsKept`, `ShippedBeforeCompleted`, `PlannedIsCounted` |
| `administration` | an empty database, 1 location, 2 movements (RECEIVE, SHIP) of 1 piece, 2 requests | `AdminTypeOK`, `ChecksSuffice` |

Why these bounds: the hazards are races of two requests over one row,
or over two rows that share a task, a case or a balance, so two requests and two
transactions reach them. Safety stock 3 with initial stock 3 puts every movement at
the draft's boundary in both directions. The quantities 1 and 2 around a
stock of 2 give counts that agree, differ, and begin or stop to agree while they
wait; 1 and 5 around 2 make both a missing and an extra difference, and a transfer the
other location cannot give. Two recount tasks are enough for a second recount
of one count and for a recount of each. The sets `Txns`, `Tasks` and `Requests`
are the only bounds: rows are never reused, so a run ends with its rows used up,
and stock is bounded by the rows. `RefreshReorderDrafts` is always possible, so
a system with all rows used is not a deadlock.

The other bounds follow the same rule, two of whatever races: two tabs with one cookie
and two tokens give the lost reply, the reuse and the rotation that comes second; one change of
the account (`MaxVersion = 1`) makes the old access token outdated, and a second
session is what a login after it creates. Two loops and two records are enough for an
overtaking, a record put back after its removal, and a record behind one that fails; the rows a
record may already have on the server when it is saved are all enumerated by `Save`. Two request ids
let the worker's second update meet the first one's. One shipment, one task that is
claimed or cancelled or completed from both services and a second row for a count are
what `TaskQueue`'s races need; two plans of one month and location make one the loser of the unique
index. One location and two movements reach every race of `StockAdministration` with a balance
row; a TRANSFER is a shipment and a receipt of one row.

### Fairness

Only `QueueSpec` assumes fairness; every other specification is one of safety, and nothing is
claimed about termination of a handler (a request may die at any await). `QueueFairness` says:

- weakly, some loop starts while records wait: the 30-second timer of `useOfflineSync`
  (useNetworkStatus.ts:103) runs in every open tab;
- weakly, a loop that has caught an error records it and ends, unless its tab is closed: a local write and the end of a function;
- strongly, for each request id, its creation and its confirmation are answered, and its record is removed, in one
  loop or another if that is possible again and again: a network that comes back for the length of a call, and an app
  that is opened often enough, once stay that long. The answer may be a refusal
  (`CreateAnswered`, `ConfirmAnswered`): that the server ever accepts an update is not assumed. `LoopDies` and `CallFails` remain
  possible at every step, so nothing is assumed of one loop or of one call.

Under it `SavedIsDelivered` holds: a record leaves the device, again each time another tab puts it back,
unless the server refuses it, or one saved before it, again and again. The refusal is a real way to
wait for ever: a shipment above the stock, an update of an inactive product, or a
transaction that was cancelled fails at every attempt, the loop breaks off at it, and everything saved later waits
behind it. What the property excludes is any other cause: lost calls and replies, loops that die,
rows that exist already, and a refused confirmation of a posted row, which does not count as `Blocked`.
That a record which is not refused itself is delivered (`SavedIsSynchronized`) does not hold.

### How to read some of the properties

`ChecksSuffice` is conditional: `stale` is set when a request writes although its check no longer
holds, `careless` when somebody does what the code does not check: deletes a product with
override or with a movement pending, adjusts or opens stock at an inactive place, records an opening under a
reference of its own. Outside those cases the checks are the right ones. Inside them the
code does lose stock or leaves it on inactive rows; the hazards name the lines. `AdminTypeOK` is
unconditional: its referential part rests on the foreign keys and on `AnswerWithout`, the ids
requests hold of rows that were deleted.

`ToldIsKeptOnce` holds for a worker who waits for the answers (`~hurried`).

`GrantedWasCurrent` speaks of the moment the call was sent: the two queries cannot tell more. A
session that is signed out after the query that read it may be let through once. It says nothing of the live
session of a user who was deactivated during a login (`DeactivatedIsSignedOut` fails): the guard refuses that user.

### Disagreements with the documentation

Four runs expect a violation: each checks a sentence of the repository that the
code does not keep ("findings" in `PROJECT.json` quotes them).

| Run | Sentence | What happens |
|---|---|---|
| `posted_cancelled` | a posted transaction cannot be cancelled | cancel reads PENDING, a confirmation posts, cancel writes CANCELLED: the movement stays, the row says cancelled |
| `stale_matching_count` | a different count remains unchanged until a manager approves | the count agrees with the balance read first, a shipment posts, the count is set as balance without review |
| `rejected_count_posted` | reject: stock stays unchanged | the rejected case's transaction is still PENDING and can be approved |
| `decided_during_recount` | complete the open recount task before a decision | the check is outside the transaction, and approveTransaction has none |

More sentences that do not hold are stated at the end of their modules and are not part of
any configuration; putting one in its component's configuration shows the counterexample:

| Definition | Module | Counterexample |
|---|---|---|
| `DraftMatchesStock` of `ReviewSpec` | `DiscrepancyReview` | approving a case changes the balance, the draft keeps its old numbers |
| `TerminalIsFinal` | `TaskQueue` | a task is cancelled between the read and the write of `changeStatus` and comes back to life |
| `OneOpeningPerAssignment` | `StockAdministration` | an opening with a reference that does not begin with OPENING- is not found by the next one |
| `SavedIsSynchronized` | `OfflineQueue` | an update saved behind one that the server refuses again and again waits for ever |
| `SavedKeepsRequestId` | `WorkerApp` | confirm, the draft is created, "Start another update", the network fails: the update is saved under a new id |
| `DeactivatedIsSignedOut` | `AuthSessions` | a login has read the user, the user is deactivated, the session is created |
| `SignedOutOnlyWhenOver` | `AuthSessions` | a refresh whose reply is lost signs the tab out |
| `SameCookieNeverTwice` | `AuthSessions` | two tabs open with one cookie; the second rotation revokes the session |

`DraftMatchesStock` therefore holds of `Spec` (the engine alone) and not of
`ReviewSpec`.

## What is proved

`TransactionEngine_proofs` proves, for any sets of transactions, tasks, locations
and requests, any quantities and any initial stock (assumptions
`EngineAssumption`: rows and numbers have their types, `None` is none of the
identities; and `FreshAssumption`: as there is no transaction yet, no task is
completed and none repeats a count):

- `TypeCorrect`: `Spec => []TypeOK`; in particular no balance is ever negative.
- `EngineImplementsLedger`: `Spec => LedgerSpec`.
- `DraftFollowsStock`: `Spec => []DraftMatchesStock`, under the hypothesis
  that `OnHand` of natural balances is a natural number. `OnHand` is a fold over
  the locations; what a fold returns needs an induction over data, which the
  provers cannot do. The hypothesis is in the statement of the theorem.

The inductive invariant is `IInv`, four parts:

- `TypeOK`, so that the functions' updates mean something;
- `HandlerKnows`: what a request in flight has looked up is still true enough: the
  transaction it works on exists and is a count where the handler is for counts, the
  case and the recount task it will write are there;
- `RowsPlaced`: a row in use has the locations its action needs (`Placed`) and no
  others, and a positive quantity. It does not say that the quantity is one of
  `Quantities`: a transfer that resolves a case moves the difference, which nobody entered;
- `PostedNotPending`: a row whose stock has moved (`posted`) is no longer PENDING,
  although it may be CANCELLED or REJECTED by a request that came late. No handler writes PENDING
  again, so the PENDING check inside a posting transaction is enough to move a
  row once. This is the heart of the refinement: without it a second posting of one row
  would be a ledger step that does not exist.

That the quantities of engine rows are from `Quantities` (`RowQuantities`) is carried along
for the refinement only. What a step can do to each table is stated once (`RowWritten`,
`EngineRows`, ...), and the proofs about the modules that extend the engine cite it.

The refinement maps `moved` to the posted movement rows (`MovedRows`): a posting
of RECEIVE, SHIP, TRANSFER or approved DAMAGE is `Ledger!Move`, a posting
of a count is `Ledger!Count`, and every other action leaves both variables alone.

`TaskQueue_proofs` proves of `TaskSpec`, for any tasks, plans, workers and calls in flight,
with the engine's requests beside them: `TasksTypeCorrect`, `FirstClaimWins` (`ClaimIsKept`),
`ShipmentBeforeCompletion` (`ShippedBeforeCompleted`), `PlansAreComplete` (`PlannedIsCounted`) and
`QueueImplementsLedger` (`LedgerSpec`). It adds `TaskQueueAssumption`: the manager is none of the
workers, a new task is open and repeats no count, a plan selects some locations. Both services write
the tasks, so the proof first says what a step of the engine can do to each table (`TaskWritten`,
`RowWritten`, `CaseLinked`, `HandlerMoved`), and every part of the invariant is shown to survive
that and each action of the queue:

- `Work`: a transaction was entered for a task in use of its kind, and the task a case or a
  request recounts with is a RECOUNT task. So the engine completes a shipping task only in
  the step that posts its shipment; without it, a recount could complete one;
- `CallKnows`: a call about to complete a shipping task has found a posted shipment. Its
  row may be cancelled since: what the property reads is that the stock has moved (`posted`), which
  no handler takes back;
- `Claims`: a task somebody has claimed is assigned, so the update of an unassigned task finds no
  earlier claim, and a freed row has none;
- `PlanFacts`: a location that a plan request left out was counted in that period when it was read, and
  counting tasks stay in their plan and place even when they are cancelled.

The engine's lemmas carry the refinement: a step of the queue moves no balance and posts nothing.

`DiscrepancyReview_proofs` proves of `ReviewSpec`, where a manager decides the same count on the
transaction and on the case: `ReviewTypeCorrect` (`TypeOK`), `WorkBeforeCompletion`
(`CompletedTaskHasConfirmedWork`; `EngineWorkBeforeCompletion` is the same of `Spec`),
`CasesStandForCounts` (`CaseBelongsToConfirmedCount`), `ResolutionsArePosted` (`ResolutionWasPosted`),
`RecountsAreUnique` (`OneOpenRecountPerCount`) and `ReviewImplementsLedger` (`LedgerSpec`). The
invariant `RInv` is `IInv` with the three invariants about work, cases and resolutions, which need each other, and

- `RowsConfirmed`: a POSTED row was confirmed, also when the approval of its case posted it, and nothing is
  confirmed that is not there. A completed task's work is therefore still confirmed when its row is rejected later;
- `Knows`: a count about to be settled is a first count or has its case, and the case a request is
  about to decide is there, although the status it read may be outdated.

`RecountsAreUnique` has an invariant of its own, `OneSource`: `sourceTransactionId` is unique, and a recount
task that is open has one. It rests on the unique index (the tasks are written by upsert) and on
`ReviewAssumption`: no recount is open before there is a count. `ReviewImplementsLedger` has one hypothesis,
`Quantities = Nat \ {0}`, which is the check of `validateTransaction`. The ledger moves quantities of
`Quantities`, and the difference of two admitted counts is one of them only if they all are.
In `review_stock`, TLC checks the refinement for quantities that have the differences that occur.

`StockAdministration_proofs` proves of `AdminSpec`: `AdminTypeCorrect` (`AdminTypeOK`) and
`ChecksAreEnough` (`ChecksSuffice`). The invariant `AInv` has one part for each kind of row, and two that carry
the argument:

- `RowsThere` and `CallsThere`: a movement in use belongs to a product and places that are there, and an id that a
  request holds between its check and its write is that of a row that is there. The foreign keys give the
  first, `AnswerWithout` the second. A deletion may take a movement's places away, so the rows keep
  `RowShape` only; a movement that is still `Whole` is `Placed`, and may post;
- `Clean`: as long as no write was `stale` or `careless`, nothing was lost, closed places are empty with no
  movement waiting, and each balance was opened once. It says two things more than `ChecksSuffice`,
  which is not inductive: no movement waits for an archived product (its posting would bring
  stock back), and an opened balance has an entry that the next opening finds.

It assumes `EmptyAssumption`: the database begins empty.

`OfflineQueue_proofs` proves, for any updates, any bound on the request ids and any number of
loops: `QueueTypeCorrect`, `NothingIsLost` (`RemovedWasConfirmed`) and `OrderIsKept` (`SentInOrder`).
The loops work on copies of the queue, so the invariant compares the copies with the store:

- `Busy`, `Clocked`, `OneRecord`: a running loop has a record to work on, no record is younger than the
  clock, and store and copies agree on the record of an id;
- `Acknowledged`: a loop that is about to remove a record has a confirmed row for it, which no refusal
  and no decision changes (`DecisionIs`: only a draft is dropped);
- `Kept`: a record that a copy has and the store has not was confirmed, so putting it back is harmless;
- `InOrder`: what was saved before a record of a copy is in that copy too or was confirmed, so
  the loop reaches it first. This is what makes `break` at the first failure matter.

`WorkerApp_proofs` proves, for any updates, any bound on the request ids and any number of loops:
`AppTypeCorrect` (`TypeOK`), `ToldIsKept` (`ToldIsKeptOnce`) and `AppLosesNothing` (`RemovedWasConfirmed`, whether
the worker is hurried or not). An update is named under a request id (`Names`) by the row the
request created, by a record on the device, and by a loop's copy of the record. The invariant `WInv` is
the queue's own (`Sound`) and, as long as nobody hurried, `Orderly`:

- `OneName`, `NamedBefore`: all names of an update are one id, and an id that is named was given out;
- `Asking`, `Shown`, `Flowing`: a handler that waits for a reply, and the screen when the reply comes, are about the
  same update and the same id. This is what a worker who does not wait breaks: the reply then
  finds another proposal;
- `Safe`: what the worker was told is named by a row or a record. A copy alone is not enough, since a
  loop can die with it; removal needs a confirmed row (`Acknowledged`), so the row is there when the record goes.

`AuthSessions_proofs` proves, for any users, tabs, browsers and sessions: `TypeCorrect`,
`RotationIsLinear` (`TokensFormChain`), `GuardIsSound` (`GrantedWasCurrent`) and `RefusalIsFinal`
(`RefusedForGood`). All rest on one fact about the server's rows, `Grows`: versions never go
down, a session keeps its user, revocation and expiry are never taken back. The invariant adds
`Links` (cookies, access tokens and requests name only what was issued, with versions not ahead of
the user's) and `GuardKnows`: if a token was spent when it was sent, the query that accepted it
leaves the other one to refuse it.

Only model-checked: `SavedIsDelivered`, since liveness under fairness is outside the
provers' reach, the four violations, and that `OnHand` of natural balances is a natural number,
which TLC's runs of the engine evaluate and `DraftFollowsStock` has as its hypothesis. Every other
property of a passing run is stated by a theorem for every value of the constants that the
assumptions admit.

## Not modelled

Keycloak verifies its tokens on another server; roles, CSRF and rate limits look at one
request at a time. Evidence, notifications and the audit
trail follow the handlers and nothing depends on them. Speech recognition, AI
extraction and location resolution produce the proposal that the worker
confirms, they write no inventory state. The severity rules choose a label. Lists, summaries, reports and
exports only read. The manager's and administrator's screens present what the API answers.
Metrics, tracing, health and seeds are left out. `src/frontend/.output` is the
generated bundle of the web app.

## Plan

Done: `StockLedger`, `TransactionEngine` with proofs, `DiscrepancyReview`.

Done since: `AuthSessions`, `OfflineQueue` and `TaskQueue` with proofs, `WorkerApp`,
`StockAdministration`.

Proved since: every invariant, action property and refinement of the passing runs.

1. An abstract specification of the outbox (an update saved, then confirmed once, in order) that
   `OfflineQueue` implements, and one of a session for `AuthSessions`.
2. `TaskQueue` over `DiscrepancyReview`: case decisions beside the cancellation of their
   recount task (the state space needs a smaller engine).
3. The rules as pure operators against reference definitions.

## Running

In this directory:

    tlc -workers 2 -config engine_postings.cfg MCTransactionEngine
    tlapm TransactionEngine_proofs.tla
    tlapm DiscrepancyReview_proofs.tla
    tlapm TaskQueue_proofs.tla
    tlapm StockAdministration_proofs.tla
    tlapm OfflineQueue_proofs.tla
    tlapm WorkerApp_proofs.tla
    tlapm AuthSessions_proofs.tla

`PROJECT.json` lists the module of every configuration.
