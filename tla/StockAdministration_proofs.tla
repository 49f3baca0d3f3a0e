----------------------- MODULE StockAdministration_proofs -----------------------
(***************************************************************************)
(* Theorems about StockAdministration, for every value of its constants.   *)
(***************************************************************************)
EXTENDS StockAdministration, TransactionEngine_proofs

(* What a row keeps when its locations are taken from it. *)
RowShape(m) ==
  /\ m.quantity \in Nat \ {0}
  /\ m.action = "RECEIVE" => m.source = None
  /\ m.action \in {"SHIP", "DAMAGE", "CYCLE_COUNT"} => m.destination = None
  /\ m.action = "TRANSFER" => m.source = None \/ m.source # m.destination

(* A row in use is one of a product there is, at locations there are. *)
RowsThere ==
  \A t \in Txns : txn[t].status # "ABSENT" =>
    /\ product # "absent"
    /\ RowShape(txn[t])
    /\ \A l \in Locations : l \in {txn[t].source, txn[t].destination} => place[l] # "absent"

(* A request that is about to fill a row finds the row, one that is about   *)
(* to make a row finds its product and its location.                        *)
CallsThere ==
  \A a \in Calls :
    /\ call[a].step = "setup" => call[a].at \in assigned
    /\ call[a].step \in {"open", "assign"} =>
         product # "absent" /\ place[call[a].at] # "absent"

(* The second half of AdminTypeOK. *)
PlacesType == /\ product \in {"absent", "active", "deleted"}
              /\ place \in [Locations -> {"absent", "active", "deleted"}]
              /\ entry \in [Locations -> {"none", "other", "opening"}]
              /\ openings \in [Locations -> Nat]
CallsType == call \in [Calls -> {Free} \cup Asked]
RowsAssigned ==
  /\ assigned \subseteq {l \in Locations : product # "absent" /\ place[l] # "absent"}
  /\ \A l \in Locations : stock[l] > 0 \/ openings[l] > 0 => l \in assigned

(* Nothing has been destroyed. *)
NothingLost == ~lost /\ ~orphaned

(* What is closed is empty, and nothing waits for it. *)
ClosedIsEmpty ==
  /\ product = "deleted" => /\ StockedNowhere
                            /\ \A t \in Txns : txn[t].status # "PENDING"
  /\ \A l \in Locations : place[l] # "active" =>
       /\ stock[l] = 0
       /\ \A t \in Txns : txn[t].status = "PENDING" =>
            txn[t].source # l /\ txn[t].destination # l

(* An opening entry is found again by its reference. *)
OpenedOnce == \A l \in Locations : /\ openings[l] <= 1
                                   /\ openings[l] > 0 => entry[l] = "opening"

Clean == ~stale /\ ~careless => NothingLost /\ ClosedIsEmpty /\ OpenedOnce

AInv == /\ TypeOK /\ PlacesType /\ CallsType /\ RowsAssigned
        /\ RowsThere /\ CallsThere /\ Clean

--------------------------------------------------------------------------------
(* The requests in flight *)

(* A request to a location names one, an entry is one the service admits. *)
LEMMA CallShape ==
  ASSUME CallsType, NEW a \in Calls
  PROVE  /\ call[a].step \in {"close", "delete", "open", "assign", "setup"} =>
              call[a].at \in Locations
         /\ call[a].step = "enter" => call[a].input \in Inputs
<1>1. call[a] \in {Free} \cup Asked
  BY DEF CallsType
<1>2. CASE call[a] = Free
  BY <1>2 DEF Free
<1>3. CASE call[a] \in [step : {"enter"}, input : Inputs]
  BY <1>3
<1>4. CASE call[a] \in [step : {"archive", "archiveStocked", "restore"}]
  BY <1>4
<1>5. CASE call[a] \in [step : {"close", "delete", "open", "assign", "setup"},
                        at : Locations]
  BY <1>5
<1> QED BY <1>1, <1>2, <1>3, <1>4, <1>5 DEF Asked

(* The requests in flight go on or end. *)
CallsEnd == /\ CallsType'
            /\ \A b \in Calls : call'[b] = Free \/ call'[b] = call[b]

(* An answer ends a request, and leaves the others alone. *)
LEMMA AnswerEnds ==
  ASSUME CallsType, NEW a \in Calls,
         UNCHANGED call \/ call' = [call EXCEPT ![a] = Free]
  PROVE  CallsEnd
  BY DEF CallsType, CallsEnd

(* So does one that deletes rows; of the requests that hold the id of such  *)
(* a row none goes on.                                                      *)
LEMMA AnswerWithoutEnds ==
  ASSUME CallsType, NEW a \in Calls, NEW steps, NEW gone,
         AnswerWithout(a, steps, gone)
  PROVE  /\ CallsEnd
         /\ \A b \in Calls :
              call'[b] = Free \/ ~(call'[b].step \in steps /\ call'[b].at \in gone)
<1>1. \A b \in Calls :
        call'[b] = IF b = a \/ (call[b].step \in steps /\ call[b].at \in gone)
                   THEN Free ELSE call[b]
  BY DEF AnswerWithout
<1>2. CallsType'
  BY <1>1 DEF AnswerWithout, CallsType
<1> QED BY <1>1, <1>2 DEF CallsEnd

(* The product and the locations there are stay there. *)
StillThere == /\ product # "absent" => product' # "absent"
              /\ \A l \in Locations : place[l] # "absent" => place'[l] # "absent"

(* Then, if no row is deleted, the requests find what they are about to use. *)
LEMMA CallsStayThere ==
  ASSUME CallsType, CallsThere, CallsEnd, StillThere, assigned \subseteq assigned'
  PROVE  CallsThere'
<1> SUFFICES ASSUME NEW b \in Calls
             PROVE  /\ call'[b].step = "setup" => call'[b].at \in assigned'
                    /\ call'[b].step \in {"open", "assign"} =>
                         product' # "absent" /\ place'[call'[b].at] # "absent"
  BY DEF CallsThere
<1>1. CASE call'[b] = Free
  BY <1>1 DEF Free
<1>2. CASE call'[b] = call[b]
  BY <1>2, CallShape DEF CallsThere, StillThere
<1> QED BY <1>1, <1>2 DEF CallsEnd

(* And the rows find where they belong. *)
LEMMA RowsStayThere ==
  ASSUME RowsThere, StillThere, UNCHANGED txn
  PROVE  RowsThere'
  BY DEF RowsThere, StillThere, RowShape

(* What a request in flight writes is clean only if its check still holds. *)
LEMMA CleanAnswer ==
  ASSUME Clean, careless => careless', NEW a \in Calls,
         stale' = (stale \/ ~Checked(call[a])),
         ~stale' /\ ~careless'
  PROVE  /\ Checked(call[a])
         /\ NothingLost /\ ClosedIsEmpty /\ OpenedOnce
  BY DEF Clean

--------------------------------------------------------------------------------
(* One lemma for each operation *)

(* An empty database is in order. *)
LEMMA AdminStart ==
  ASSUME AdminInit
  PROVE  AInv
<1>1. IInv
  BY InitIInv DEF AdminInit
<1>2. PlacesType /\ CallsType
  BY DEF AdminInit, PlacesType, CallsType
<1>3. \A l \in Locations : stock[l] = 0
  BY EmptyAssumption DEF AdminInit, Init
<1>4. RowsAssigned
  BY <1>3 DEF AdminInit, RowsAssigned
<1>5. \A t \in Txns : txn[t].status = "ABSENT"
  BY DEF AdminInit, Init, NoTxn
<1>6. RowsThere
  BY <1>5 DEF RowsThere
<1>7. CallsThere
  BY DEF AdminInit, CallsThere, Free
<1>8. Clean
  BY <1>3, <1>5
     DEF AdminInit, Clean, NothingLost, ClosedIsEmpty, OpenedOnce, StockedNowhere
<1> QED BY <1>1, <1>2, <1>4, <1>6, <1>7, <1>8 DEF AInv, IInv

(* A request is asked: only what it holds is new. *)
LEMMA AskKeeps ==
  ASSUME AInv, NEW a \in Calls, NEW q \in Asked, Ask(a, q)
  PROVE  AInv'
<1> USE DEF AInv
<1>1. TypeOK' /\ PlacesType' /\ RowsAssigned' /\ RowsThere' /\ Clean'
  BY DEF Ask, vars, TypeOK, PlacesType, RowsAssigned, RowsThere, RowShape, Clean,
         NothingLost, ClosedIsEmpty, OpenedOnce, StockedNowhere
<1>2. CallsType'
  BY DEF Ask, CallsType
<1>3. /\ q.step = "setup" => q.at \in assigned
      /\ q.step \in {"open", "assign"} => product # "absent" /\ place[q.at] # "absent"
  BY DEF Ask, Checked, Offered
<1>4. \A b \in Calls : call'[b] = IF b = a THEN q ELSE call[b]
  BY DEF Ask, CallsType
<1>5. CallsThere'
  BY <1>3, <1>4 DEF Ask, CallsThere
<1> QED BY <1>1, <1>2, <1>5

(* A request dies. *)
LEMMA DropKeeps ==
  ASSUME AInv, NEW a \in Calls, Drop(a)
  PROVE  AInv'
<1> USE DEF AInv
<1>1. TypeOK' /\ PlacesType' /\ RowsAssigned' /\ RowsThere' /\ Clean'
  BY DEF Drop, vars, TypeOK, PlacesType, RowsAssigned, RowsThere, RowShape, Clean,
         NothingLost, ClosedIsEmpty, OpenedOnce, StockedNowhere
<1>2. CallsEnd
  BY AnswerEnds DEF Drop
<1>3. CallsThere'
  BY <1>2, CallsStayThere DEF Drop, StillThere
<1> QED BY <1>1, <1>2, <1>3 DEF CallsEnd

(* The product is made or a location is opened: nothing becomes closed. *)
LEMMA OpenKeeps ==
  ASSUME AInv, CreateProduct \/ \E l \in Locations : OpenLocation(l)
  PROVE  AInv'
<1> USE DEF AInv
<1>1. /\ StillThere /\ PlacesType'
      /\ UNCHANGED <<vars, assigned, openings, entry, call, lost, orphaned, stale, careless>>
      /\ product' = "deleted" => product = "deleted"
      /\ \A l \in Locations : place'[l] # "active" => place[l] # "active"
  BY DEF CreateProduct, OpenLocation, StillThere, PlacesType
<1>2. TypeOK'
  BY <1>1 DEF vars, TypeOK
<1>3. RowsAssigned'
  BY <1>1 DEF vars, RowsAssigned, StillThere
<1>4. RowsThere'
  BY <1>1, RowsStayThere DEF vars
<1>5. CallsType' /\ CallsEnd
  BY <1>1 DEF CallsType, CallsEnd
<1>6. CallsThere'
  BY <1>1, <1>5, CallsStayThere
<1>7. Clean'
  BY <1>1 DEF vars, Clean, NothingLost, ClosedIsEmpty, OpenedOnce, StockedNowhere
<1> QED BY <1>1, <1>2, <1>3, <1>4, <1>5, <1>6, <1>7

(* An archived or restored product loses its rows with whatever is in them: *)
(* nothing, if the check still holds.                                       *)
LEMMA DeletedRowsKeep ==
  ASSUME AInv, NEW a \in Calls, product # "absent",
         product' \in {"active", "deleted"},
         product' = "deleted" /\ ~careless' => \A t \in Txns : txn[t].status # "PENDING",
         Checked(call[a]) /\ ClosedIsEmpty => StockedNowhere,
         careless => careless',
         DeleteRows, AnswerWithout(a, {"setup"}, Locations),
         draft' = draft \/ draft' = {},
         UNCHANGED <<txn, cases, tasks, handler, place, entry, orphaned>>
  PROVE  AInv'
<1> USE DEF AInv
<1>1. TypeOK' /\ PlacesType' /\ RowsAssigned'
  BY DEF TypeOK, PlacesType, RowsAssigned, DeleteRows
<1>2. RowsThere'
  BY RowsStayThere DEF StillThere
<1>3. /\ CallsEnd
      /\ \A b \in Calls :
           call'[b] = Free \/ ~(call'[b].step \in {"setup"} /\ call'[b].at \in Locations)
  BY AnswerWithoutEnds
<1>4. \A b \in Calls : call'[b] = Free \/ (call'[b] = call[b] /\ call[b].step # "setup")
  BY <1>3, CallShape DEF CallsEnd
<1>5. CallsThere'
  BY <1>4 DEF CallsThere, Free
<1>6. Clean'
  <2> SUFFICES ASSUME ~stale' /\ ~careless'
               PROVE  NothingLost' /\ ClosedIsEmpty' /\ OpenedOnce'
    BY DEF Clean
  <2>1. Checked(call[a]) /\ NothingLost /\ ClosedIsEmpty
    BY CleanAnswer DEF AnswerWithout
  <2>2. NothingLost'
    BY <2>1 DEF NothingLost, DeleteRows
  <2>3. ClosedIsEmpty' /\ OpenedOnce'
    BY <2>1 DEF ClosedIsEmpty, OpenedOnce, DeleteRows, StockedNowhere
  <2> QED BY <2>2, <2>3
<1> QED BY <1>1, <1>2, <1>3, <1>5, <1>6 DEF CallsEnd

(* A deleted product has no stock to lose when it is restored, an archived  *)
(* one has none by its check and nothing pending unless nobody cared.       *)
LEMMA ProductKeeps ==
  ASSUME AInv, NEW a \in Calls, RestoreProduct(a) \/ ArchiveProduct(a)
  PROVE  AInv'
<1>1. CASE RestoreProduct(a)
  <2>1. Checked(call[a]) /\ ClosedIsEmpty => StockedNowhere
    BY <1>1 DEF RestoreProduct, Writing, Checked, ClosedIsEmpty
  <2> QED BY <1>1, <2>1, DeletedRowsKeep DEF RestoreProduct
<1>2. CASE ArchiveProduct(a)
  <2>1. Checked(call[a]) => StockedNowhere
    BY <1>2 DEF ArchiveProduct, Writing, Checked
  <2> QED BY <1>2, <2>1, DeletedRowsKeep DEF ArchiveProduct
<1> QED BY <1>1, <1>2

(* Archived with its stock, the product keeps its rows. *)
LEMMA ArchiveStockedKeeps ==
  ASSUME AInv, NEW a \in Calls, ArchiveStockedProduct(a)
  PROVE  AInv'
<1> USE DEF AInv, ArchiveStockedProduct
<1>1. TypeOK' /\ PlacesType' /\ RowsAssigned' /\ Clean'
  BY DEF TypeOK, PlacesType, RowsAssigned, Clean
<1>2. StillThere
  BY DEF StillThere
<1>3. RowsThere'
  BY <1>2, RowsStayThere
<1>4. CallsEnd
  BY AnswerEnds DEF Answer
<1>5. CallsThere'
  BY <1>2, <1>4, CallsStayThere
<1> QED BY <1>1, <1>3, <1>4, <1>5 DEF CallsEnd

(* A location that is closed is empty by its check. *)
LEMMA CloseKeeps ==
  ASSUME AInv, NEW a \in Calls, CloseLocation(a)
  PROVE  AInv'
<1> USE DEF AInv, CloseLocation
<1>0. Where(a) \in Locations
  BY CallShape DEF Writing, Where
<1>1. TypeOK' /\ PlacesType' /\ StillThere
  BY <1>0 DEF vars, TypeOK, PlacesType, StillThere
<1>2. RowsAssigned'
  BY <1>1 DEF vars, RowsAssigned, StillThere
<1>3. RowsThere'
  BY <1>1, RowsStayThere DEF vars
<1>4. CallsEnd
  BY AnswerEnds DEF Answer
<1>5. CallsThere'
  BY <1>1, <1>4, CallsStayThere
<1>6. Clean'
  <2> SUFFICES ASSUME ~stale' /\ ~careless'
               PROVE  NothingLost' /\ ClosedIsEmpty' /\ OpenedOnce'
    BY DEF Clean
  <2>1. Checked(call[a]) /\ NothingLost /\ ClosedIsEmpty /\ OpenedOnce
    BY CleanAnswer DEF Answer
  <2>2. IdleLocation(Where(a))
    BY <2>1 DEF Checked, Writing, Where
  <2>3. NothingLost' /\ OpenedOnce'
    BY <2>1 DEF NothingLost, OpenedOnce
  <2>4. stock[Where(a)] = 0 /\ \A t \in Txns : txn[t].status = "PENDING" =>
          txn[t].source # Where(a) /\ txn[t].destination # Where(a)
    BY <2>2 DEF IdleLocation, Uses
  <2>5. ClosedIsEmpty'
    BY <1>0, <2>1, <2>4 DEF vars, ClosedIsEmpty, PlacesType, StockedNowhere
  <2> QED BY <2>3, <2>5
<1> QED BY <1>1, <1>2, <1>3, <1>4, <1>5, <1>6 DEF CallsEnd

(* A row that is deprived of a location is otherwise what it was. *)
LEMMA DeprivedRow ==
  ASSUME TypeOK, NEW t \in Txns, NEW l \in Locations
  PROVE  /\ Deprived(t, l) \in TxnRows
         /\ Deprived(t, l).status = txn[t].status
         /\ Deprived(t, l).action = txn[t].action
         /\ Deprived(t, l).quantity = txn[t].quantity
         /\ Deprived(t, l).source = IF txn[t].source = l THEN None ELSE txn[t].source
         /\ Deprived(t, l).destination =
              IF txn[t].destination = l THEN None ELSE txn[t].destination
<1>1. txn[t] \in TxnRows
  BY DEF TypeOK
<1>2. \E f : f = IF txn[t].source = l THEN None ELSE txn[t].source
  OBVIOUS
<1>3. \E g : g = IF txn[t].destination = l THEN None ELSE txn[t].destination
  OBVIOUS
<1>4. PICK f : f = IF txn[t].source = l THEN None ELSE txn[t].source
  BY <1>2
<1>5. PICK g : g = IF txn[t].destination = l THEN None ELSE txn[t].destination
  BY <1>3
<1>6. Deprived(t, l) = [txn[t] EXCEPT !.source = f, !.destination = g]
  BY <1>1, <1>4, <1>5 DEF Deprived, TxnRows
<1>7. f \in Places /\ g \in Places
  BY <1>1, <1>4, <1>5 DEF TxnRows, Places
<1> QED BY <1>1, <1>4, <1>5, <1>6, <1>7 DEF TxnRows

(* A location that is deleted had no row, hence no stock; what it takes its *)
(* location from keeps its shape; the requests that hold it end.            *)
LEMMA DeleteKeeps ==
  ASSUME AInv, NEW a \in Calls, DeleteLocation(a)
  PROVE  AInv'
<1> USE DEF AInv
<1> DEFINE l == Where(a)
<1>0. l \in Locations
  BY CallShape DEF DeleteLocation, Writing, Where
<1>1. \A t \in Txns :
        /\ txn'[t] = Deprived(t, l)
        /\ txn'[t].status = txn[t].status
        /\ txn'[t].source # l /\ txn'[t].destination # l
        /\ \A m \in Locations : /\ txn'[t].source = m => txn[t].source = m
                                /\ txn'[t].destination = m => txn[t].destination = m
  BY <1>0, DeprivedRow, EngineAssumption DEF DeleteLocation
<1>p. \A m \in Locations : place'[m] = IF m = l THEN "absent" ELSE place[m]
  BY <1>0 DEF DeleteLocation, PlacesType
<1>2. TypeOK' /\ PlacesType'
  BY <1>0, DeprivedRow DEF DeleteLocation, TypeOK, PlacesType
<1>3. l \notin assigned /\ stock[l] = 0 /\ openings[l] = 0
  BY <1>0 DEF DeleteLocation, RowsAssigned, TypeOK, PlacesType
<1>4. RowsAssigned'
  BY <1>0, <1>3 DEF DeleteLocation, RowsAssigned, PlacesType
<1>5. RowsThere'
  <2> SUFFICES ASSUME NEW t \in Txns, txn'[t].status # "ABSENT"
               PROVE  /\ product' # "absent"
                      /\ RowShape(txn'[t])
                      /\ \A m \in Locations :
                           m \in {txn'[t].source, txn'[t].destination} => place'[m] # "absent"
    BY DEF RowsThere, RowShape
  <2>1. txn[t].status # "ABSENT"
    BY <1>0, <1>1, DeprivedRow
  <2>2. product' # "absent"
    BY <2>1 DEF RowsThere, DeleteLocation
  <2>3. RowShape(txn'[t])
    BY <1>0, <1>1, <2>1, DeprivedRow DEF RowsThere, RowShape
  <2>4. \A m \in Locations :
          m \in {txn'[t].source, txn'[t].destination} => place'[m] # "absent"
    BY <1>1, <1>p, <2>1 DEF RowsThere
  <2> QED BY <2>2, <2>3, <2>4
<1>6. /\ CallsEnd
      /\ \A b \in Calls :
           call'[b] = Free \/ ~(/\ call'[b].step \in {"close", "delete", "open", "assign"}
                                /\ call'[b].at \in {l})
  BY AnswerWithoutEnds DEF DeleteLocation
<1>7. CallsThere'
  <2> SUFFICES ASSUME NEW b \in Calls
               PROVE  /\ call'[b].step = "setup" => call'[b].at \in assigned'
                      /\ call'[b].step \in {"open", "assign"} =>
                           product' # "absent" /\ place'[call'[b].at] # "absent"
    BY DEF CallsThere
  <2>1. CASE call'[b] = Free
    BY <2>1 DEF Free
  <2>2. CASE call'[b] = call[b] /\ call'[b] # Free
    BY <1>0, <1>6, <2>2, CallShape DEF CallsThere, DeleteLocation, PlacesType
  <2> QED BY <1>6, <2>1, <2>2 DEF CallsEnd
<1>8. Clean'
  <2> SUFFICES ASSUME ~stale' /\ ~careless'
               PROVE  NothingLost' /\ ClosedIsEmpty' /\ OpenedOnce'
    BY DEF Clean
  <2>1. Checked(call[a]) /\ NothingLost /\ ClosedIsEmpty /\ OpenedOnce
    BY CleanAnswer DEF DeleteLocation, AnswerWithout
  <2>2. UnusedLocation(l)
    BY <2>1 DEF DeleteLocation, Checked, Writing, Where
  <2>3. NothingLost'
    BY <2>1, <2>2 DEF NothingLost, UnusedLocation, DeleteLocation
  <2>4. OpenedOnce'
    BY <1>0, <1>3, <2>1 DEF OpenedOnce, DeleteLocation, PlacesType
  <2>5. ASSUME product' = "deleted"
        PROVE  StockedNowhere' /\ \A t \in Txns : txn'[t].status # "PENDING"
    BY <1>1, <2>1, <2>5 DEF ClosedIsEmpty, StockedNowhere, DeleteLocation
  <2>6. ASSUME NEW m \in Locations, place'[m] # "active"
        PROVE  /\ stock'[m] = 0
               /\ \A t \in Txns : txn'[t].status = "PENDING" =>
                    txn'[t].source # m /\ txn'[t].destination # m
    <3>1. stock'[m] = stock[m]
      BY DEF DeleteLocation
    <3>2. CASE m = l
      BY <1>1, <1>3, <3>1, <3>2
    <3>3. CASE m # l
      <4>1. place[m] # "active"
        BY <1>p, <2>6, <3>3
      <4> QED BY <1>1, <2>1, <3>1, <4>1 DEF ClosedIsEmpty
    <3> QED BY <3>2, <3>3
  <2>7. ClosedIsEmpty'
    BY <2>5, <2>6 DEF ClosedIsEmpty
  <2> QED BY <2>3, <2>4, <2>7
<1> QED BY <1>2, <1>4, <1>5, <1>6, <1>7, <1>8 DEF CallsEnd

(* Writing a balance and its ledger entry, at a row of a product and a      *)
(* location there are: if both are active, what is closed stays empty.      *)
LEMMA BalanceWritten ==
  ASSUME AInv, NEW l \in Locations, NEW q \in Nat,
         product # "absent", place[l] # "absent",
         NEW reference \in {"other", "opening"},
         stock' = [stock EXCEPT ![l] = q], assigned' = assigned \cup {l},
         entry' = entry \/ Record(l, reference),
         openings' \in [Locations -> Nat],
         \A m \in Locations \ {l} : openings'[m] = openings[m],
         CallsEnd,
         UNCHANGED <<txn, cases, tasks, draft, handler, product, place>>
  PROVE  /\ TypeOK' /\ PlacesType' /\ RowsAssigned' /\ RowsThere' /\ CallsThere'
         /\ Offered(l) /\ ClosedIsEmpty => ClosedIsEmpty'
<1> USE DEF AInv
<1>1. TypeOK'
  BY DEF TypeOK
<1>2. PlacesType'
  BY DEF PlacesType, Record
<1>3. RowsAssigned'
  BY DEF RowsAssigned, TypeOK
<1>4. RowsThere' /\ CallsThere'
  BY RowsStayThere, CallsStayThere DEF StillThere
<1>5. Offered(l) /\ ClosedIsEmpty => ClosedIsEmpty'
  BY DEF Offered, ClosedIsEmpty, StockedNowhere, TypeOK
<1> QED BY <1>1, <1>2, <1>3, <1>4, <1>5

(* A row is made with its opening entry; there was none, as there was no    *)
(* row.                                                                     *)
LEMMA OpenBalanceKeeps ==
  ASSUME AInv, NEW a \in Calls, NEW q \in Quantities \cup {0}, OpenBalance(a, q)
  PROVE  AInv'
<1> USE DEF AInv
<1> DEFINE l == Where(a)
<1>1. /\ l \in Locations /\ product # "absent" /\ place[l] # "absent" /\ q \in Nat
  BY CallShape, EngineAssumption DEF OpenBalance, Writing, Where, CallsThere
<1>2. openings[l] = 0
  BY <1>1 DEF OpenBalance, InsertRow, RowsAssigned, PlacesType
<1>3. CallsEnd
  BY AnswerEnds DEF OpenBalance, Answer
<1>4. /\ openings' \in [Locations -> Nat] /\ openings'[l] = 1
      /\ \A m \in Locations \ {l} : openings'[m] = openings[m]
  BY <1>1, <1>2 DEF OpenBalance, PlacesType
<1>5. /\ TypeOK' /\ PlacesType' /\ RowsAssigned' /\ RowsThere' /\ CallsThere'
      /\ Offered(l) /\ ClosedIsEmpty => ClosedIsEmpty'
  BY <1>1, <1>3, <1>4, BalanceWritten DEF OpenBalance, InsertRow
<1>6. Clean'
  <2> SUFFICES ASSUME ~stale' /\ ~careless'
               PROVE  NothingLost' /\ ClosedIsEmpty' /\ OpenedOnce'
    BY DEF Clean
  <2>1. Checked(call[a]) /\ NothingLost /\ ClosedIsEmpty /\ OpenedOnce
    BY CleanAnswer DEF OpenBalance, Answer
  <2>2. Offered(l)
    BY <2>1 DEF OpenBalance, Checked, Writing, Where
  <2>3. NothingLost'
    BY <2>1 DEF NothingLost, OpenBalance
  <2>4. OpenedOnce'
    BY <1>1, <1>4, <2>1 DEF OpenedOnce, OpenBalance, Record, PlacesType
  <2> QED BY <1>5, <2>1, <2>2, <2>3, <2>4
<1> QED BY <1>3, <1>5, <1>6 DEF CallsEnd

(* A row is made without an entry. *)
LEMMA AssignKeeps ==
  ASSUME AInv, NEW a \in Calls, Assign(a)
  PROVE  AInv'
<1> USE DEF AInv
<1> DEFINE l == Where(a)
<1>1. /\ l \in Locations /\ product # "absent" /\ place[l] # "absent"
  BY CallShape DEF Assign, Writing, Where, CallsThere
<1>2. CallsEnd
  BY AnswerEnds DEF Assign, Answer
<1>3. /\ TypeOK' /\ PlacesType' /\ RowsAssigned' /\ RowsThere' /\ CallsThere'
      /\ Offered(l) /\ ClosedIsEmpty => ClosedIsEmpty'
  BY <1>1, <1>2, BalanceWritten DEF Assign, InsertRow, PlacesType
<1>4. Clean'
  <2> SUFFICES ASSUME ~stale' /\ ~careless'
               PROVE  NothingLost' /\ ClosedIsEmpty' /\ OpenedOnce'
    BY DEF Clean
  <2>1. Checked(call[a]) /\ NothingLost /\ ClosedIsEmpty /\ OpenedOnce
    BY CleanAnswer DEF Assign, Answer
  <2>2. Offered(l)
    BY <2>1 DEF Assign, Checked, Writing, Where
  <2>3. NothingLost' /\ OpenedOnce'
    BY <2>1 DEF NothingLost, OpenedOnce, Assign
  <2> QED BY <1>3, <2>1, <2>2, <2>3
<1> QED BY <1>2, <1>3, <1>4 DEF CallsEnd

(* A row is filled.  With the reference of the service's own an earlier     *)
(* opening entry is found by the check; any other is careless.              *)
LEMMA SetupKeeps ==
  ASSUME AInv, NEW a \in Calls, NEW q \in Quantities \cup {0},
         NEW reference \in {"opening", "other"}, SetupOpening(a, q, reference)
  PROVE  AInv'
<1> USE DEF AInv
<1> DEFINE l == Where(a)
<1>0. l \in Locations /\ l \in assigned
  BY CallShape DEF SetupOpening, Writing, Where, CallsThere
<1>1. /\ l \in Locations /\ product # "absent" /\ place[l] # "absent" /\ q \in Nat
      /\ l \in assigned
  BY <1>0, EngineAssumption DEF RowsAssigned
<1>2. CallsEnd
  BY AnswerEnds DEF SetupOpening, Answer
<1>3. /\ openings' \in [Locations -> Nat]
      /\ openings'[l] = IF openings[l] = 2 THEN 2 ELSE openings[l] + 1
      /\ \A m \in Locations \ {l} : openings'[m] = openings[m]
  BY <1>1 DEF SetupOpening, PlacesType
<1>4. /\ TypeOK' /\ PlacesType' /\ RowsAssigned' /\ RowsThere' /\ CallsThere'
      /\ Offered(l) /\ ClosedIsEmpty => ClosedIsEmpty'
  BY <1>1, <1>2, <1>3, BalanceWritten DEF SetupOpening
<1>5. Clean'
  <2> SUFFICES ASSUME ~stale' /\ ~careless'
               PROVE  NothingLost' /\ ClosedIsEmpty' /\ OpenedOnce'
    BY DEF Clean
  <2>0. reference = "opening" /\ Offered(l)
    BY DEF SetupOpening
  <2>1. Checked(call[a]) /\ NothingLost /\ ClosedIsEmpty /\ OpenedOnce
    BY CleanAnswer DEF SetupOpening, Answer
  <2>2. entry[l] # "opening"
    BY <2>1 DEF SetupOpening, Checked, Writing, Where
  <2>3. NothingLost'
    BY <2>1 DEF NothingLost, SetupOpening
  <2>4. openings[l] = 0
    BY <1>1, <2>1, <2>2 DEF OpenedOnce, PlacesType
  <2>5. OpenedOnce'
    BY <1>1, <1>3, <2>0, <2>1, <2>4 DEF OpenedOnce, SetupOpening, Record, PlacesType
  <2> QED BY <1>4, <2>0, <2>1, <2>3, <2>5
<1> QED BY <1>2, <1>4, <1>5 DEF CallsEnd

(* A balance is corrected; an opening entry stays one. *)
LEMMA AdjustKeeps ==
  ASSUME AInv, NEW l \in Locations, NEW q \in Quantities \cup {0}, AdjustBalance(l, q)
  PROVE  AInv'
<1> USE DEF AInv
<1>1. /\ product # "absent" /\ place[l] # "absent" /\ q \in Nat /\ l \in assigned
  BY EngineAssumption DEF AdjustBalance, RowsAssigned
<1>2. CallsEnd
  BY DEF AdjustBalance, CallsEnd, CallsType
<1>3. /\ TypeOK' /\ PlacesType' /\ RowsAssigned' /\ RowsThere' /\ CallsThere'
      /\ Offered(l) /\ ClosedIsEmpty => ClosedIsEmpty'
  BY <1>1, <1>2, BalanceWritten DEF AdjustBalance, PlacesType
<1>4. Clean'
  <2> SUFFICES ASSUME ~stale' /\ ~careless'
               PROVE  NothingLost' /\ ClosedIsEmpty' /\ OpenedOnce'
    BY DEF Clean
  <2>1. NothingLost /\ ClosedIsEmpty /\ OpenedOnce /\ Offered(l)
    BY DEF Clean, AdjustBalance
  <2>2. NothingLost' /\ OpenedOnce'
    BY <2>1 DEF NothingLost, OpenedOnce, AdjustBalance, Record, PlacesType
  <2> QED BY <1>3, <2>1, <2>2
<1> QED BY <1>2, <1>3, <1>4 DEF CallsEnd

--------------------------------------------------------------------------------
(* Movements *)

(* A pending row is entered.  validateTransaction admits no other shape,    *)
(* the foreign keys ask for its locations, and by its check none is closed. *)
LEMMA EnterKeeps ==
  ASSUME AInv, NEW a \in Calls, NEW t \in Txns, Enter(a, t)
  PROVE  AInv'
<1> USE DEF AInv
<1> DEFINE i == call[a].input
           x == [NoTxn EXCEPT !.status = "PENDING", !.action = i.action,
                              !.quantity = i.quantity, !.source = i.source,
                              !.destination = i.destination]
<1>0. /\ i \in Inputs
      /\ i.action \in InventoryActions /\ i.quantity \in Nat
      /\ i.source \in Places /\ i.destination \in Places
      /\ Placed(i)
  BY CallShape, InputPlaces, EngineAssumption DEF Enter, Writing
<1>1. /\ x \in TxnRows
      /\ x.status = "PENDING" /\ x.action = i.action /\ x.quantity = i.quantity
      /\ x.source = i.source /\ x.destination = i.destination
  BY <1>0 DEF NoTxn, TxnRows, TransactionStatus, Places
<1>2. txn' = [txn EXCEPT ![t] = x]
  BY DEF Enter
<1> HIDE DEF x
<1>3. \A u \in Txns : txn'[u] = IF u = t THEN x ELSE txn[u]
  BY <1>2 DEF TypeOK
<1>4. TypeOK'
  BY <1>1, <1>2 DEF Enter, TypeOK
<1>5. PlacesType' /\ RowsAssigned' /\ StillThere
  BY DEF Enter, PlacesType, RowsAssigned, StillThere
<1>6. RowsThere'
  <2>1. RowShape(x)
    BY <1>0, <1>1, EngineAssumption DEF Placed, RowShape
  <2>2. /\ product # "absent"
        /\ \A l \in Locations : l \in {x.source, x.destination} => place[l] # "absent"
    BY <1>1, EngineAssumption DEF Enter
  <2>3. product' = product /\ place' = place
    BY DEF Enter
  <2>4. ASSUME NEW u \in Txns, txn'[u].status # "ABSENT"
        PROVE  /\ product # "absent" /\ RowShape(txn'[u])
               /\ \A l \in Locations : l \in {txn'[u].source, txn'[u].destination}
                                         => place[l] # "absent"
    <3>1. CASE u = t
      <4>1. txn'[u] = x BY <1>3, <3>1
      <4> QED BY <2>1, <2>2, <4>1
    <3>2. CASE u # t
      <4>1. txn'[u] = txn[u] BY <1>3, <3>2
      <4> QED BY <2>4, <4>1 DEF RowsThere
    <3> QED BY <3>1, <3>2
  <2> QED BY <2>3, <2>4 DEF RowsThere, RowShape
<1>7. CallsEnd
  BY AnswerEnds DEF Enter, Answer
<1>8. CallsThere'
  BY <1>5, <1>7, CallsStayThere DEF Enter
<1>9. Clean'
  <2> SUFFICES ASSUME ~stale' /\ ~careless'
               PROVE  NothingLost' /\ ClosedIsEmpty' /\ OpenedOnce'
    BY DEF Clean
  <2>1. Checked(call[a]) /\ NothingLost /\ ClosedIsEmpty /\ OpenedOnce
    BY CleanAnswer DEF Enter, Answer
  <2>2. Enterable(i)
    BY <2>1 DEF Enter, Checked, Writing
  <2>3. NothingLost' /\ OpenedOnce'
    BY <2>1 DEF NothingLost, OpenedOnce, Enter
  <2>4. /\ product = "active"
        /\ \A l \in Locations : l \in {x.source, x.destination} => place[l] = "active"
    BY <1>1, <2>2, EngineAssumption DEF Enterable, Offered
  <2>5. ASSUME NEW l \in Locations, place'[l] # "active"
        PROVE  /\ stock'[l] = 0
               /\ \A u \in Txns : txn'[u].status = "PENDING" =>
                    txn'[u].source # l /\ txn'[u].destination # l
    <3>1. place[l] # "active" /\ stock'[l] = stock[l]
      BY <2>5 DEF Enter
    <3> QED BY <1>3, <2>1, <2>4, <3>1 DEF ClosedIsEmpty
  <2>6. ClosedIsEmpty'
    BY <2>4, <2>5 DEF ClosedIsEmpty, Enter
  <2> QED BY <2>3, <2>6
<1> QED BY <1>4, <1>5, <1>6, <1>7, <1>8, <1>9 DEF CallsEnd

(* A row that still has the locations its action needs is placed as it was  *)
(* entered, and is neither a count nor damage.                              *)
LEMMA WholeIsPlaced ==
  ASSUME AInv, NEW t \in Txns, txn[t].status # "ABSENT", Whole(txn[t])
  PROVE  /\ Placed(txn[t])
         /\ txn[t].action \in {"RECEIVE", "SHIP", "TRANSFER"}
  BY EngineAssumption
     DEF AInv, TypeOK, TxnRows, Places, RowsThere, RowShape, Whole, Placed, InventoryActions

(* A movement takes from its source and gives to its destination. *)
LEMMA MovementTouches ==
  ASSUME NEW b \in [Locations -> Nat], NEW m, Placed(m),
         m.action \in {"RECEIVE", "SHIP", "TRANSFER"}, Available(b, m)
  PROVE  /\ ApplyStockMovement(b, m) \in [Locations -> Nat]
         /\ \A l \in Locations : l # m.destination => ApplyStockMovement(b, m)[l] <= b[l]
         /\ \A l \in Locations : l \notin {m.source, m.destination} =>
              ApplyStockMovement(b, m)[l] = b[l]
<1>1. ApplyStockMovement(b, m) \in [Locations -> Nat]
  BY MovementKeepsNat DEF InventoryActions
<1>2. CASE m.action = "RECEIVE"
  BY <1>1, <1>2 DEF Placed, ApplyStockMovement, Increase
<1>3. CASE m.action = "SHIP"
  BY <1>1, <1>3 DEF Placed, ApplyStockMovement, Decrease
<1>4. CASE m.action = "TRANSFER"
  BY <1>1, <1>4 DEF Placed, ApplyStockMovement, Increase, Decrease
<1> QED BY <1>1, <1>2, <1>3, <1>4

(* A posting makes the row of its destination, so that what it adds has     *)
(* one; it was pending, so that nothing it touches is closed.               *)
LEMMA ConfirmKeeps ==
  ASSUME AInv, NEW t \in Txns, Confirm(t)
  PROVE  AInv'
<1> USE DEF AInv
<1> DEFINE m == txn[t]
           x == [txn[t] EXCEPT !.status = "POSTED", !.posted = TRUE, !.confirmed = TRUE]
<1>0. /\ m \in TxnRows /\ m.status = "PENDING"
      /\ Placed(m) /\ m.action \in {"RECEIVE", "SHIP", "TRANSFER"}
  BY WholeIsPlaced DEF Confirm, StillPending, TypeOK
<1>1. /\ x \in TxnRows
      /\ x.status = "POSTED" /\ x.action = m.action /\ x.quantity = m.quantity
      /\ x.source = m.source /\ x.destination = m.destination
  BY <1>0 DEF TxnRows, TransactionStatus
<1>2. txn' = [txn EXCEPT ![t] = x]
  BY DEF Confirm, MarkPosted
<1> HIDE DEF x
<1>3. \A u \in Txns : txn'[u] = IF u = t THEN x ELSE txn[u]
  BY <1>2 DEF TypeOK
<1>4. /\ stock' \in [Locations -> Nat]
      /\ \A l \in Locations : l # m.destination => stock'[l] <= stock[l]
      /\ \A l \in Locations : l \notin {m.source, m.destination} => stock'[l] = stock[l]
  BY <1>0, MovementTouches DEF Confirm, TypeOK
<1>5. \A d \in draft' : DOMAIN d = {"currentStock", "suggestedQuantity"}
  BY SyncedDraftShape DEF Confirm, TypeOK
<1>6. TypeOK'
  BY <1>1, <1>2, <1>4, <1>5 DEF Confirm, TypeOK
<1>7. PlacesType' /\ StillThere
  BY DEF Confirm, PlacesType, StillThere
<1>8. RowsThere'
  BY <1>0, <1>1, <1>3 DEF Confirm, RowsThere, RowShape
<1>9. RowsAssigned'
  <2>1. assigned' \subseteq {l \in Locations : product' # "absent" /\ place'[l] # "absent"}
    <3>1. /\ product # "absent" /\ m.destination \in Locations \cup {None}
          /\ m.destination \in Locations => place[m.destination] # "absent"
      BY <1>0 DEF RowsThere, TxnRows, Places
    <3> QED BY <3>1 DEF Confirm, RowsAssigned
  <2>2. \A l \in Locations : stock'[l] > 0 \/ openings'[l] > 0 => l \in assigned'
    BY <1>4, EngineAssumption DEF Confirm, RowsAssigned, TypeOK
  <2> QED BY <2>1, <2>2 DEF RowsAssigned
<1>10. CallsEnd
  BY DEF Confirm, CallsEnd, CallsType
<1>11. CallsThere'
  BY <1>7, <1>10, CallsStayThere DEF Confirm
<1>12. Clean'
  <2> SUFFICES ASSUME ~stale' /\ ~careless'
               PROVE  NothingLost' /\ ClosedIsEmpty' /\ OpenedOnce'
    BY DEF Clean
  <2>1. NothingLost /\ ClosedIsEmpty /\ OpenedOnce
    BY DEF Clean, Confirm
  <2>2. NothingLost' /\ OpenedOnce'
    BY <2>1 DEF NothingLost, OpenedOnce, Confirm
  <2>3. product' # "deleted"
    BY <1>0, <2>1 DEF ClosedIsEmpty, Confirm
  <2>4. \A l \in Locations : place'[l] # "active" => l \notin {m.source, m.destination}
    BY <1>0, <2>1 DEF ClosedIsEmpty, Confirm
  <2>5. ClosedIsEmpty'
    BY <1>1, <1>3, <1>4, <2>1, <2>3, <2>4 DEF ClosedIsEmpty, Confirm
  <2> QED BY <2>2, <2>5
<1> QED BY <1>6, <1>7, <1>8, <1>9, <1>10, <1>11, <1>12 DEF CallsEnd

(* A row that is cancelled is in use no less, and waits no more. *)
LEMMA CancelKeeps ==
  ASSUME AInv, NEW t \in Txns, Cancel(t)
  PROVE  AInv'
<1> USE DEF AInv
<1> DEFINE x == [txn[t] EXCEPT !.status = "CANCELLED"]
<1>0. txn[t] \in TxnRows
  BY DEF TypeOK
<1>1. /\ x \in TxnRows
      /\ x.status = "CANCELLED" /\ x.action = txn[t].action
      /\ x.quantity = txn[t].quantity
      /\ x.source = txn[t].source /\ x.destination = txn[t].destination
  BY <1>0 DEF TxnRows, TransactionStatus
<1>2. txn' = [txn EXCEPT ![t] = x]
  BY DEF Cancel
<1> HIDE DEF x
<1>3. \A u \in Txns : txn'[u] = IF u = t THEN x ELSE txn[u]
  BY <1>2 DEF TypeOK
<1>4. TypeOK'
  BY <1>1, <1>2 DEF Cancel, TypeOK
<1>5. PlacesType' /\ CallsType' /\ RowsAssigned' /\ CallsThere'
  BY DEF Cancel, adminVars, PlacesType, CallsType, RowsAssigned, CallsThere
<1>6. RowsThere'
  BY <1>1, <1>3 DEF Cancel, StillPending, adminVars, RowsThere, RowShape
<1>7. Clean'
  BY <1>1, <1>3
     DEF Cancel, adminVars, Clean, NothingLost, ClosedIsEmpty, OpenedOnce, StockedNowhere
<1> QED BY <1>4, <1>5, <1>6, <1>7

(* Everything but the users goes. *)
LEMMA RemoveKeeps ==
  ASSUME AInv, RemoveDefaultData
  PROVE  AInv'
<1> USE DEF AInv
<1>1. NoTxn \in TxnRows /\ NoCase \in CaseRows
  BY DEF NoTxn, NoCase, TxnRows, CaseRows, TransactionStatus, CaseStatus,
         InventoryActions, Places
<1>2. tasks' \in [Tasks -> TaskRows]
  BY DEF RemoveDefaultData, TypeOK, TaskRows, TaskStatus
<1>3. TypeOK'
  BY <1>1, <1>2 DEF RemoveDefaultData, TypeOK
<1>4. PlacesType' /\ CallsType' /\ RowsAssigned' /\ CallsThere'
  BY DEF RemoveDefaultData, PlacesType, CallsType, RowsAssigned, CallsThere, Free
<1>5. \A t \in Txns : txn'[t] = NoTxn
  BY DEF RemoveDefaultData
<1>6. RowsThere'
  BY <1>5 DEF RowsThere, NoTxn
<1>7. Clean'
  BY <1>5
     DEF RemoveDefaultData, Clean, NothingLost, ClosedIsEmpty, OpenedOnce, NoTxn
<1> QED BY <1>3, <1>4, <1>6, <1>7

--------------------------------------------------------------------------------
(* What the operations keep together *)

(* Every step keeps what the checks and the foreign keys rest on. *)
LEMMA AdminStep == AInv /\ [AdminNext]_stockVars => AInv'
<1> SUFFICES ASSUME AInv, [AdminNext]_stockVars
             PROVE  AInv'
  OBVIOUS
<1>1. CASE CreateProduct \/ \E l \in Locations : OpenLocation(l)
  BY <1>1, OpenKeeps
<1>2. CASE RemoveDefaultData
  BY <1>2, RemoveKeeps
<1>3. CASE \E l \in Locations : \E q \in Quantities \cup {0} : AdjustBalance(l, q)
  BY <1>3, AdjustKeeps
<1>4. CASE \E t \in Txns : Confirm(t) \/ Cancel(t)
  BY <1>4, ConfirmKeeps, CancelKeeps
<1>5. ASSUME NEW a \in Calls,
             \/ \E q \in Asked : Ask(a, q)
             \/ Drop(a)
             \/ \E t \in Txns : Enter(a, t)
      PROVE  AInv'
  BY <1>5, AskKeeps, DropKeeps, EnterKeeps
<1>6. ASSUME NEW a \in Calls,
             \/ RestoreProduct(a) \/ ArchiveProduct(a) \/ ArchiveStockedProduct(a)
             \/ CloseLocation(a) \/ DeleteLocation(a)
      PROVE  AInv'
  BY <1>6, ProductKeeps, ArchiveStockedKeeps, CloseKeeps, DeleteKeeps
<1>7. ASSUME NEW a \in Calls,
             \/ Assign(a)
             \/ \E q \in Quantities \cup {0} :
                  \/ OpenBalance(a, q)
                  \/ \E reference \in {"opening", "other"} : SetupOpening(a, q, reference)
      PROVE  AInv'
  BY <1>7, AssignKeeps, OpenBalanceKeeps, SetupKeeps
<1>8. CASE UNCHANGED stockVars
  <2>1. UNCHANGED <<vars, adminVars>>
    BY <1>8 DEF stockVars
  <2>2. TypeOK'
    BY <2>1 DEF AInv, vars, TypeOK
  <2>3. PlacesType' /\ CallsType' /\ RowsAssigned' /\ RowsThere' /\ CallsThere'
    BY <2>1 DEF AInv, vars, adminVars, PlacesType, CallsType, RowsAssigned,
                RowsThere, RowShape, CallsThere
  <2>4. Clean'
    BY <2>1 DEF AInv, vars, adminVars, Clean, NothingLost, ClosedIsEmpty, OpenedOnce,
                StockedNowhere
  <2> QED BY <2>2, <2>3, <2>4 DEF AInv
<1> QED BY <1>1, <1>2, <1>3, <1>4, <1>5, <1>6, <1>7, <1>8 DEF AdminNext

(* What the steps keep holds forever. *)
LEMMA AdminAlways == AdminSpec => []AInv
<1>1. AdminInit => AInv
  BY AdminStart
<1>2. AInv /\ [AdminNext]_stockVars => AInv'
  BY AdminStep
<1> QED BY <1>1, <1>2, PTL DEF AdminSpec

(* However the requests overlap, no quantity is without its row and no row, *)
(* balance or transaction, belongs to a product or a location that is gone: *)
(* the foreign keys (ON DELETE RESTRICT and SET NULL) and the updates by id *)
(* suffice for that, whatever was checked before.                           *)
THEOREM AdminTypeCorrect == AdminSpec => []AdminTypeOK
<1>1. AInv => AdminTypeOK
  BY DEF AInv, AdminTypeOK, PlacesType, CallsType, RowsAssigned
<1> QED BY <1>1, AdminAlways, PTL

(* If every check of inventory.service.ts and setup.service.ts still holds  *)
(* when its request writes, and nobody does what the code does not check,   *)
(* then no stock is lost, closed or opened twice and no movement waits at a *)
(* closed place.                                                            *)
THEOREM ChecksAreEnough == AdminSpec => []ChecksSuffice
<1>1. AInv => ChecksSuffice
  BY DEF AInv, Clean, ChecksSuffice, NothingLost, ClosedIsEmpty, OpenedOnce, Uses
<1> QED BY <1>1, AdminAlways, PTL

================================================================================
