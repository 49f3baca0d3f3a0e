--------------------------- MODULE DiscrepancyReview ---------------------------
(***************************************************************************)
(* The discrepancy cases of the inventory API (discrepancies.service.ts)   *)
(* working on the same rows as the transaction engine.  A manager can      *)
(* approve the counted quantity, reject it, ask for a recount or resolve   *)
(* the difference as a transfer; the engine's own decisions on the counted *)
(* transaction stay available beside these.                                *)
(***************************************************************************)
EXTENDS TransactionEngine

(* A RECOUNT task entered by hand (POST /tasks) repeats no count: whatever   *)
(* there is of them at the start is done.                                    *)
ASSUME ReviewAssumption ==
  \A k \in Tasks : InitialTasks[k].type = "RECOUNT" =>
    InitialTasks[k].status \notin {"OPEN", "IN_PROGRESS"}

DecidableStatuses == {"OPEN", "AWAITING_REVIEW", "RECOUNT_REQUESTED"}

Decidable(c) == cases[c].status \in DecidableStatuses

(* Mutant: an open recount task does not matter. *)
RecountIgnored(c) == cases[c].recountTask \in Tasks \cup {None}

(* assertNoOpenRecountTask *)
RecountDone(c) == ~OpenTask(cases[c].recountTask)

(* loadDecidable and assertNoOpenRecountTask, asked before the decision's   *)
(* database transaction; inside it only the case status is checked again.   *)
DecisionAllowed(c) == Decidable(c) /\ RecountDone(c)

BeginDecision(r, step, c, n, l) ==
  /\ DecisionAllowed(c)
  /\ Begin(r, step, c, n, l)
  /\ UNCHANGED <<stock, txn, cases, tasks, draft>>

(* Mutant: the difference is added to the balance there is now. *)
CorrectedBalance(c) == [stock EXCEPT ![cases[c].location] = @ + cases[c].difference]

CountedBalance(c) == [stock EXCEPT ![cases[c].location] = cases[c].counted]

(* approve: the stock becomes the counted quantity of the case; the reorder *)
(* drafts are not looked at.                                                *)
ApproveCaseRead(r, c) == BeginDecision(r, "approveCase", c, 0, None)

ApproveCase(r) ==
  LET c == handler[r].tx IN
  /\ At(r, "approveCase")
  /\ Decidable(c)
  /\ stock' = CountedBalance(c)
  /\ txn' = [txn EXCEPT ![c].status = "POSTED", ![c].posted = TRUE]
  /\ cases' = [cases EXCEPT ![c].status = "APPROVED", ![c].resolution = c]
  /\ Finish(r)
  /\ UNCHANGED <<tasks, draft>>

(* reject: only the case is written; its transaction stays as it was. *)
RejectCaseRead(r, c) == BeginDecision(r, "rejectOpenCase", c, 0, None)

RejectOpenCase(r) ==
  LET c == handler[r].tx IN
  /\ At(r, "rejectOpenCase")
  /\ Decidable(c)
  /\ cases' = [cases EXCEPT ![c].status = "REJECTED"]
  /\ Finish(r)
  /\ UNCHANGED <<stock, txn, tasks, draft>>

(* requestRecount checks everything inside its transaction.  The earlier    *)
(* recount task gives up the unique sourceTransactionId, which the new one  *)
(* takes; any other task that holds it makes the insert fail.               *)
RequestCaseRecount(c, k) ==
  LET old == cases[c].recountTask
      released == IF old = None THEN tasks
                                ELSE [tasks EXCEPT ![old].of = None] IN
  /\ Decidable(c)
  /\ RecountDone(c)
  /\ \A j \in Tasks : released[j].of # c
  /\ tasks[k].status = "ABSENT"
  /\ tasks' = [released EXCEPT ![k] = NewRecountTask(c, cases[c].location)]
  /\ cases' = [cases EXCEPT ![c].status = "RECOUNT_REQUESTED",
                            ![c].recountTask = k]
  /\ UNCHANGED <<stock, txn, draft, handler>>

(* resolveTransfer: what is missing at the counted location was moved to    *)
(* the other one, what is extra came from there.  The difference is the one *)
(* read before the transaction.                                             *)
MoveStockRead(r, c, other) ==
  /\ other # cases[c].location
  /\ cases[c].difference # 0
  /\ BeginDecision(r, "moveStock", c, cases[c].difference, other)

(* Mutant: the transfer is recorded as posted without postedAt. *)
TransferRowUnposted(from, to, q) ==
  [status |-> "POSTED", action |-> "TRANSFER", quantity |-> q,
   source |-> from, destination |-> to, confirmed |-> TRUE, posted |-> FALSE,
   task |-> None, recountTask |-> None]

TransferRow(from, to, q) ==
  [status |-> "POSTED", action |-> "TRANSFER", quantity |-> q,
   source |-> from, destination |-> to, confirmed |-> TRUE, posted |-> TRUE,
   task |-> None, recountTask |-> None]

(* Mutant: the source's balance is not asked. *)
AnyStock(from, q) == q > 0

EnoughStock(from, q) == stock[from] >= q

MoveStock(r, t) ==
  LET c == handler[r].tx
      extra == handler[r].seen > 0
      q == IF extra THEN handler[r].seen ELSE -handler[r].seen
      from == IF extra THEN handler[r].row ELSE cases[c].location
      to == IF extra THEN cases[c].location ELSE handler[r].row IN
  /\ At(r, "moveStock")
  /\ Decidable(c)
  /\ txn[t].status = "ABSENT"
  /\ EnoughStock(from, q)
  /\ stock' = Increase(Decrease(stock, from, q), to, q)
  /\ txn' = [txn EXCEPT ![t] = TransferRow(from, to, q),
                        ![c].status = "CANCELLED"]
  /\ cases' = [cases EXCEPT ![c].status = "RESOLVED_AS_TRANSFER",
                            ![c].resolution = t]
  /\ Finish(r)
  /\ UNCHANGED <<tasks, draft>>

ReviewNext ==
  \/ Next
  \/ \E r \in Requests, c \in Txns :
       \/ ApproveCaseRead(r, c)
       \/ RejectCaseRead(r, c)
       \/ \E l \in Locations : MoveStockRead(r, c, l)
       \/ MoveStock(r, c)
  \/ \E r \in Requests : ApproveCase(r) \/ RejectOpenCase(r)
  \/ \E c \in Txns, k \in Tasks : RequestCaseRecount(c, k)

ReviewSpec == Init /\ [][ReviewNext]_vars

--------------------------------------------------------------------------------
(* Properties beyond those of the engine, which ReviewSpec is checked       *)
(* against as well                                                          *)

(* "Reject the count. Stock stays unchanged" (reject): the count of a       *)
(* rejected case does not reach the balances afterwards.                    *)
RejectedCountStaysOut ==
  [][\A c \in Txns : cases[c].status = "REJECTED" =>
       (txn'[c].posted => txn[c].posted)]_vars

(* "This case has an open recount task. Complete or cancel it before taking *)
(* a decision" (assertNoOpenRecountTask): no case is decided while the      *)
(* recount somebody asked for is still to be done.                          *)
NoDecisionDuringRecount ==
  \A c \in Txns :
    OpenTask(cases[c].recountTask) =>
      cases[c].status \notin {"APPROVED", "REJECTED", "RESOLVED_AS_TRANSFER"}

================================================================================
