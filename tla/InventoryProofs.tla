--------------------------- MODULE InventoryProofs ---------------------------
(***************************************************************************)
(* What holds of production orders beside invoices, bills and vouchers,    *)
(* for every set of requests, documents, recipes and stocks.               *)
(***************************************************************************)
EXTENDS Inventory, SettlementProofs

(* The rows of orders have their types.                                    *)
OrderShapes ==
  /\ orders \in [Orders -> OrderRow]
  /\ DOMAIN pc = Requests /\ DOMAIN doc = Requests /\ DOMAIN job = Requests
  /\ \A r \in Requests : job[r].new \in Recipes \cup {NoRecipe}

(* An order that a request is about to insert is nobody else's; one that   *)
(* is being reworked is active, although its row is not locked.            *)
Undisturbed(r) ==
  /\ pc[r] \in OrderSteps \ {"idle"} => doc[r] \in Orders
  /\ pc[r] = "producing" =>
       /\ orders[doc[r]].status = "ABSENT"
       /\ \A s \in Requests \ {r} : pc[s] \in OrderSteps \ {"idle"} => doc[s] # doc[r]
  /\ pc[r] \in OrderSteps \ {"idle", "producing"} => orders[doc[r]].status # "ABSENT"
  /\ pc[r] = "reworking" => orders[doc[r]].status = "ACTIVE"

OrderInv == OrderShapes /\ \A r \in Requests : Undisturbed(r)

-----------------------------------------------------------------------------
(* The request of a step; the others stay where they are.                  *)
Moves(r) == \A s \in Requests \ {r} : pc'[s] = pc[s] /\ doc'[s] = doc[s]

(* A step of another handler does not touch orders, and its request does   *)
(* not come to work on one.                                                *)
Elsewhere(r) ==
  /\ Moves(r) /\ UNCHANGED <<orders, job>>
  /\ DOMAIN pc' = Requests /\ DOMAIN doc' = Requests
  /\ pc'[r] \notin OrderSteps \ {"idle"}

(* Requests of invoices, ...                                               *)
LEMMA InvoicesElsewhere ==
  ASSUME OrderShapes, NEW r \in Requests, UNCHANGED <<orders, job>>,
         InvoiceBegin(r) \/ InvoiceContinue(r) \/ InvoiceFail(r)
  PROVE  Elsewhere(r) \/ UNCHANGED <<pc, doc, orders, job>>
<1>1. ASSUME NEW i, CreateInvoice(r, i) PROVE UNCHANGED <<pc, doc, orders, job>>
  BY <1>1 DEF CreateInvoice
<1>2. ASSUME NEW step \in InvoicingSteps, NEW d, Goto(r, step, d) PROVE Elsewhere(r)
  BY <1>2 DEF OrderShapes, Goto, Elsewhere, Moves, InvoicingSteps, OrderSteps
<1>3. \A step \in {"idle", "publishing", "awaiting", "locking", "rollingBack",
                   "updating", "deleting", "canceling"} : step \in InvoicingSteps
  BY DEF InvoicingSteps
<1>4. QED
  BY <1>1, <1>2, <1>3
     DEF InvoiceBegin, InvoiceContinue, InvoiceFail, Begin, Continue, Fail, Refuse, PublishBegin,
         CancelBegin, UpdateBegin, DeleteBegin, Reserve, LockRead, LockCommit, RollbackRead,
         RollbackCommit, CancelCommit, UpdateDetails, UpdateHeader, DeleteCommit, Respond

(* ... of vouchers ...                                                     *)
LEMMA VouchersElsewhere ==
  ASSUME OrderShapes, NEW r \in Requests, UNCHANGED <<orders, job>>,
         VoucherStart(r) \/ VoucherProceed(r) \/ VoucherDie(r)
  PROVE  Elsewhere(r) \/ UNCHANGED <<pc, doc, orders, job>>
<1>1. ASSUME NEW v, Collect(r, v) PROVE UNCHANGED <<pc, doc, orders, job>>
  BY <1>1 DEF Collect
<1>2. ASSUME NEW step \in VoucherSteps, NEW d, Goto(r, step, d) PROVE Elsewhere(r)
  BY <1>2 DEF OrderShapes, Goto, Elsewhere, Moves, VoucherSteps, OrderSteps
<1>3. \A step \in {"idle", "amending", "linking", "revoking", "reverting", "removing"} :
        step \in VoucherSteps
  BY DEF VoucherSteps
<1>4. QED
  BY <1>1, <1>2, <1>3
     DEF VoucherStart, VoucherProceed, VoucherDie, VoucherBegin, VoucherContinue, VoucherFail,
         VoucherRefuse, AmendBegin, LinkBegin, Edit, RevokeBegin, RemoveBegin, LinkRead,
         AmendCommit, RevokeMark, RevokeCommit, RemoveCommit, Respond

(* ... and of bills.                                                       *)
LEMMA BillsElsewhere ==
  ASSUME OrderShapes, NEW r \in Requests, BillStart(r) \/ BillProceed(r) \/ BillDie(r)
  PROVE  Elsewhere(r)
<1>1. UNCHANGED <<orders, job>>
  BY DEF BillStart, BillProceed, BillDie
<1>2. ASSUME NEW step \in BillSteps, NEW d, Goto(r, step, d) PROVE Elsewhere(r)
  BY <1>1, <1>2 DEF OrderShapes, Goto, Elsewhere, Moves, BillSteps, OrderSteps
<1>3. \A step \in {"idle", "registering", "syncing", "revising", "rewriting", "voiding",
                   "discarding"} : step \in BillSteps
  BY DEF BillSteps
<1>4. QED
  BY <1>2, <1>3
     DEF BillStart, BillProceed, BillDie, BillBegin, BillContinue, BillFail, BillRefuse,
         RegisterBegin, SyncBegin, ReviseBegin, VoidBegin, DiscardBegin, RegisterCommit,
         SyncCommit, ReviseRead, ReviseCommit, VoidCommit, DiscardCommit, GoIdle, Respond

(* Such a step keeps the invariant.                                        *)
LEMMA ElsewhereKeeps ==
  ASSUME OrderInv, NEW r \in Requests, Elsewhere(r) \/ UNCHANGED <<pc, doc, orders, job>>
  PROVE  OrderInv'
<1>1. OrderShapes'
  BY DEF OrderInv, OrderShapes, Elsewhere
<1>2. CASE Elsewhere(r)
  <2>1. Undisturbed(r)'
    BY <1>2 DEF Elsewhere, Undisturbed, OrderSteps
  <2>2. ASSUME NEW s \in Requests \ {r} PROVE Undisturbed(s)'
    BY <1>2, <2>2 DEF OrderInv, Elsewhere, Moves, Undisturbed
  <2>3. QED
    BY <1>1, <2>1, <2>2 DEF OrderInv
<1>3. CASE UNCHANGED <<pc, doc, orders, job>>
  BY <1>1, <1>3 DEF OrderInv, Undisturbed
<1>4. QED
  BY <1>2, <1>3

-----------------------------------------------------------------------------
(* Requests on orders: one that begins, ...                                *)
LEMMA OrderBegins ==
  ASSUME OrderInv, NEW r \in Requests, NEW o \in Orders, OrderBegin(r, o)
  PROVE  OrderInv' /\ UNCHANGED orders
<1> DEFINE step == IF ProduceBegin(r, o) THEN "producing"
                   ELSE IF RecallBegin(r, o) THEN "recalling" ELSE "reworking"
<1>1. /\ UNCHANGED orders /\ pc[r] = "idle"
      /\ pc' = [pc EXCEPT ![r] = step] /\ doc' = [doc EXCEPT ![r] = o]
      /\ step = "producing" => orders[o].status = "ABSENT" /\ \A s \in Requests : doc[s] # o
      /\ step # "producing" => orders[o].status = "ACTIVE"
      /\ step \in {"producing", "recalling", "reworking"}
  BY DEF OrderBegin, ProduceBegin, RecallBegin, ReworkBegin, Accept, Goto
<1>2. PICK old, new \in Recipes \cup {NoRecipe} : Assigned(r, old, new)
  <2>1. CASE ProduceBegin(r, o)
    BY <2>1 DEF ProduceBegin
  <2>2. CASE RecallBegin(r, o)
    BY <2>2 DEF RecallBegin, OrderInv, OrderShapes, OrderRow
  <2>3. CASE ReworkBegin(r, o)
    BY <2>3 DEF ReworkBegin, OrderInv, OrderShapes, OrderRow
  <2>4. QED
    BY <2>1, <2>2, <2>3 DEF OrderBegin
<1> HIDE DEF step
<1>3. OrderShapes'
  BY <1>1, <1>2 DEF OrderInv, OrderShapes, Assigned
<1>4. /\ pc'[r] = step /\ doc'[r] = o
      /\ \A s \in Requests \ {r} : pc'[s] = pc[s] /\ doc'[s] = doc[s]
  BY <1>1 DEF OrderInv, OrderShapes
<1>5. Undisturbed(r)'
  BY <1>1, <1>4 DEF Undisturbed
<1>6. ASSUME NEW s \in Requests \ {r} PROVE Undisturbed(s)'
  <2>1. Undisturbed(s) /\ pc'[s] = pc[s] /\ doc'[s] = doc[s]
    BY <1>4, <1>6 DEF OrderInv
  <2>2. pc[s] = "producing" => doc[s] # o
    BY <1>1, <1>6, <2>1 DEF Undisturbed
  <2>3. pc[s] = "producing" =>
          \A q \in Requests \ {s} : pc'[q] \in OrderSteps \ {"idle"} => doc'[q] # doc[s]
    BY <1>4, <2>1, <2>2 DEF Undisturbed
  <2>4. QED
    BY <1>1, <2>1, <2>3 DEF Undisturbed
<1>7. QED
  BY <1>1, <1>3, <1>5, <1>6 DEF OrderInv

(* ... one that goes on or ends and leaves the orders alone, ...           *)
LEMMA OrderGoesOn ==
  ASSUME OrderInv, NEW r \in Requests, Moves(r), UNCHANGED orders, OrderShapes',
         pc'[r] = "idle" \/ (pc[r] = "recalling" /\ pc'[r] = "reverting order" /\ doc'[r] = doc[r])
  PROVE  OrderInv'
<1>1. Undisturbed(r)'
  BY DEF OrderInv, Undisturbed, OrderSteps
<1>2. ASSUME NEW s \in Requests \ {r} PROVE Undisturbed(s)'
  <2>1. Undisturbed(s) /\ pc'[s] = pc[s] /\ doc'[s] = doc[s]
    BY <1>2 DEF OrderInv, Moves
  <2>2. ASSUME pc[s] = "producing", NEW q \in Requests \ {s}, pc'[q] \in OrderSteps \ {"idle"}
        PROVE  doc'[q] # doc[s]
    <3>1. pc[q] \in OrderSteps \ {"idle"} /\ doc'[q] = doc[q]
      BY <2>2 DEF Moves, OrderSteps
    <3>2. QED
      BY <2>1, <2>2, <3>1 DEF Undisturbed
  <2>3. QED
    BY <2>1, <2>2 DEF Undisturbed
<1>3. QED
  BY <1>1, <1>2 DEF OrderInv

(* ... and one that writes its order.                                      *)
LEMMA OrderWrites ==
  ASSUME OrderInv, NEW r \in Requests, NEW row \in OrderRow, Moves(r), OrderShapes',
         pc[r] \in OrderSteps \ {"idle"}, pc'[r] = "idle",
         orders' = [orders EXCEPT ![doc[r]] = row], row.status # "ABSENT",
         \A s \in Requests \ {r} :
           pc[s] = "reworking" /\ doc[s] = doc[r] => row.status = "ACTIVE"
  PROVE  OrderInv'
<1>1. doc[r] \in Orders
  BY DEF OrderInv, Undisturbed
<1>2. orders'[doc[r]] = row /\ \A o \in Orders \ {doc[r]} : orders'[o] = orders[o]
  BY <1>1 DEF OrderInv, OrderShapes
<1>3. Undisturbed(r)'
  BY DEF Undisturbed, OrderSteps
<1>4. ASSUME NEW s \in Requests \ {r} PROVE Undisturbed(s)'
  BY <1>2, <1>4 DEF OrderInv, Moves, Undisturbed
<1>5. QED
  BY <1>3, <1>4 DEF OrderInv

(* What the end of a request does to the requests.                         *)
LEMMA Ends ==
  ASSUME OrderShapes, NEW r \in Requests, EndJob(r), orders' \in [Orders -> OrderRow]
  PROVE  OrderShapes' /\ Moves(r) /\ pc'[r] = "idle"
<1>1. OrderShapes'
  BY DEF OrderShapes, EndJob, Respond, Goto, NoJob
<1>2. Moves(r) /\ pc'[r] = "idle"
  BY DEF OrderShapes, EndJob, Respond, Goto, Moves
<1>3. QED
  BY <1>1, <1>2

(* A request on an order keeps the invariant and canceled orders.          *)
LEMMA OrderProceeds ==
  ASSUME OrderInv, NEW r \in Requests, OrderContinue(r) \/ OrderFail(r), UserRowFree
  PROVE  /\ OrderInv'
         /\ \A o \in Orders : orders[o].status = "CANCELED" => orders'[o] = orders[o]
<1>1. CASE UNCHANGED orders /\ EndJob(r)
  BY <1>1, Ends, OrderGoesOn DEF OrderInv, OrderShapes
<1>2. CASE RecallRead(r)
  <2>1. OrderShapes'
    BY <1>2 DEF RecallRead, Assigned, Goto, OrderInv, OrderShapes
  <2>2. QED
    BY <1>2, <2>1, OrderGoesOn DEF RecallRead, Goto, Moves, OrderInv, OrderShapes
<1>3. CASE ProduceCommit(r)
  <2> DEFINE row == [status |-> "ACTIVE", recipe |-> job[r].new]
  <2>1. /\ row \in OrderRow /\ orders' = [orders EXCEPT ![doc[r]] = row] /\ EndJob(r)
        /\ row.status = "ACTIVE" /\ pc[r] \in OrderSteps \ {"idle"}
    BY <1>3 DEF ProduceCommit, OrderInv, OrderShapes, OrderRow, OrderSteps
  <2> HIDE DEF row
  <2>2. orders' \in [Orders -> OrderRow]
    BY <2>1 DEF OrderInv, OrderShapes
  <2>3. OrderInv'
    BY <2>1, <2>2, Ends, OrderWrites DEF OrderInv
  <2>4. orders[doc[r]].status = "ABSENT"
    BY <1>3 DEF ProduceCommit, OrderInv, Undisturbed
  <2>5. QED
    BY <2>1, <2>3, <2>4 DEF OrderInv, OrderShapes
<1>4. CASE RecallCommit(r)
  <2> DEFINE row == [orders[doc[r]] EXCEPT !.status = "CANCELED"]
  <2>1. doc[r] \in Orders /\ pc[r] = "reverting order" /\ orders[doc[r]] \in OrderRow
    BY <1>4 DEF RecallCommit, OrderInv, Undisturbed, OrderSteps, OrderShapes
  <2>2. /\ row \in OrderRow /\ row.status = "CANCELED"
        /\ orders[doc[r]].status = "CANCELED" => row = orders[doc[r]]
    BY <2>1 DEF OrderRow
  <2>3. orders' = [orders EXCEPT ![doc[r]] = row] /\ EndJob(r)
    BY <1>4 DEF RecallCommit
  <2> HIDE DEF row
  <2>4. orders' \in [Orders -> OrderRow]
    BY <2>2, <2>3 DEF OrderInv, OrderShapes
  <2>5. Moves(r) /\ OrderShapes' /\ pc'[r] = "idle"
    BY <2>3, <2>4, Ends DEF OrderInv
  <2>6. CASE UserLocked
    <3>1. ~\E q \in Requests : pc[q] \in {"reworking", "rollingBack"} /\ pc'[q] = "idle"
      BY <2>1, <2>5 DEF Moves
    <3>2. UNCHANGED orders
      BY <2>6, <3>1 DEF UserRowFree
    <3>3. QED
      BY <1>1, <2>3, <3>2
  <2>7. CASE ~UserLocked
    <3>1. OrderInv'
      BY <2>1, <2>2, <2>3, <2>5, <2>7, OrderWrites DEF UserLocked, OrderSteps
    <3>2. QED
      BY <2>1, <2>2, <2>3, <3>1 DEF OrderInv, OrderShapes
  <2>8. QED
    BY <2>6, <2>7
<1>5. CASE ReworkCommit(r)
  <2> DEFINE row == [orders[doc[r]] EXCEPT !.recipe = job[r].new]
  <2>1. /\ doc[r] \in Orders /\ pc[r] = "reworking" /\ orders[doc[r]] \in OrderRow
        /\ orders[doc[r]].status = "ACTIVE" /\ job[r].new \in Recipes \cup {NoRecipe}
    BY <1>5 DEF ReworkCommit, OrderInv, Undisturbed, OrderSteps, OrderShapes
  <2>2. row \in OrderRow /\ row.status = "ACTIVE"
    BY <2>1 DEF OrderRow
  <2>3. orders' = [orders EXCEPT ![doc[r]] = row] /\ EndJob(r)
    BY <1>5 DEF ReworkCommit
  <2> HIDE DEF row
  <2>4. orders' \in [Orders -> OrderRow]
    BY <2>2, <2>3 DEF OrderInv, OrderShapes
  <2>5. OrderInv'
    BY <2>1, <2>2, <2>3, <2>4, Ends, OrderWrites DEF OrderInv, OrderSteps
  <2>6. QED
    BY <2>1, <2>3, <2>5 DEF OrderInv, OrderShapes
<1>6. QED
  BY <1>1, <1>2, <1>3, <1>4, <1>5 DEF OrderContinue, OrderFail, OrderRefuse

(* Every step keeps both.                                                  *)
LEMMA StepOrders ==
  ASSUME OrderInv, [InventoryNext]_shopVars
  PROVE  /\ OrderInv'
         /\ \A o \in Orders : orders[o].status = "CANCELED" => orders'[o] = orders[o]
<1>1. ASSUME SettlementNext, UNCHANGED <<load, orders, job>>
      PROVE  OrderInv' /\ UNCHANGED orders
  <2>1. ASSUME NEW r \in Requests, Elsewhere(r) \/ UNCHANGED <<pc, doc, orders, job>>
        PROVE  OrderInv' /\ UNCHANGED orders
    BY <2>1, ElsewhereKeeps DEF Elsewhere
  <2>2. CASE UNCHANGED allVars
    BY <1>1, <2>2 DEF OrderInv, OrderShapes, Undisturbed, allVars, vars
  <2>3. QED
    BY <1>1, <2>1, <2>2, InvoicesElsewhere, VouchersElsewhere DEF SettlementNext, OrderInv
<1>2. ASSUME NEW r \in Requests, BillStart(r) \/ BillProceed(r) \/ BillDie(r)
      PROVE  OrderInv' /\ UNCHANGED orders
  BY <1>2, BillsElsewhere, ElsewhereKeeps DEF Elsewhere, OrderInv
<1>3. ASSUME NEW r \in Requests, OrderStart(r)
      PROVE  OrderInv' /\ UNCHANGED orders
  BY <1>3, OrderBegins DEF OrderStart
<1>4. ASSUME NEW r \in Requests, OrderProceed(r) \/ OrderDie(r), UserRowFree
      PROVE  /\ OrderInv'
             /\ \A o \in Orders : orders[o].status = "CANCELED" => orders'[o] = orders[o]
  BY <1>4, OrderProceeds DEF OrderProceed, OrderDie
<1>5. CASE UNCHANGED shopVars
  BY <1>5 DEF OrderInv, OrderShapes, Undisturbed, shopVars, allVars, vars
<1>6. QED
  BY <1>1, <1>2, <1>3, <1>4, <1>5 DEF InventoryNext

(* There are no orders at first.                                           *)
LEMMA InitOrders == InventoryInit => OrderInv
<1> SUFFICES ASSUME InventoryInit PROVE OrderInv
  OBVIOUS
<1>1. OrderShapes
  BY DEF InventoryInit, SettlementInit, Init, SchemaInit, OrderShapes, NoOrder, OrderRow, NoJob
<1>2. \A r \in Requests : Undisturbed(r)
  BY DEF InventoryInit, SettlementInit, Init, SchemaInit, Undisturbed, OrderSteps
<1>3. QED
  BY <1>1, <1>2 DEF OrderInv

(* The invariant of the theorem below: an order that is being reworked is  *)
(* active, because the rework holds the user's row (update).               *)
THEOREM OrdersUndisturbed == InventorySpec => []OrderInv
<1>1. OrderInv /\ [InventoryNext]_shopVars => OrderInv'
  BY StepOrders
<1>2. QED
  BY <1>1, InitOrders, PTL DEF InventorySpec

(* A canceled production order is final, however updates, cancellations,   *)
(* sales and purchases race (cancel and update of                          *)
(* internal-production-orders.service.ts).                                 *)
THEOREM CanceledOrdersAreFinal == InventorySpec => CanceledOrderFinal
<1>1. OrderInv /\ [InventoryNext]_shopVars =>
        [\A o \in Orders : orders[o].status = "CANCELED" => orders'[o] = orders[o]]_shopVars
  BY StepOrders
<1>2. QED
  BY <1>1, OrdersUndisturbed, PTL DEF InventorySpec, CanceledOrderFinal

-----------------------------------------------------------------------------
(* Lists of items.                                                         *)

(* The quantity of a product on a list, and that of its last listing.      *)
LEMMA ListTypes ==
  ASSUME NEW items \in Seq(Item), NEW p
  PROVE  /\ IsFiniteSet(Listings(items, p))
         /\ Quantity(items, p) \in Nat
         /\ Listings(items, p) # {} => LastQuantity(items, p) \in Nat
         /\ Listings(items, p) = {} => Quantity(items, p) = 0
<1> DEFINE f == [k \in DOMAIN items |-> items[k].quantity]
<1>1. Len(items) \in Nat /\ DOMAIN items = 1..Len(items) /\ \A k \in DOMAIN items : items[k] \in Item
  OBVIOUS
<1>2. Listings(items, p) \in SUBSET (1..Len(items))
  BY <1>1 DEF Listings
<1>3. IsFiniteSet(Listings(items, p))
  <2>1. IsFiniteSet(1..Len(items))
    BY <1>1, FS_Interval
  <2>2. QED
    BY <1>2, <2>1, FS_Subset
<1>4. \A k \in Listings(items, p) : f[k] \in Nat
  BY <1>1 DEF Listings, Item
<1>5. Quantity(items, p) = SumFunctionOnSet(f, Listings(items, p))
  BY DEF Quantity
<1> HIDE DEF f
<1>6. Quantity(items, p) \in Nat
  BY <1>3, <1>4, <1>5, SumNat
<1>7. Listings(items, p) # {} => Max(Listings(items, p)) \in DOMAIN items
  BY <1>1, <1>2, GreatestMember
<1>8. Listings(items, p) # {} => LastQuantity(items, p) \in Nat
  BY <1>1, <1>7 DEF LastQuantity, Item
<1>9. Listings(items, p) = {} => Quantity(items, p) = 0
  BY <1>5, SumEmpty
<1>10. QED
  BY <1>3, <1>6, <1>8, <1>9

(* They agree on a list that names the product once.                       *)
LEMMA OnceListed ==
  ASSUME NEW items \in Seq(Item), NEW p, Cardinality(Listings(items, p)) <= 1,
         Listings(items, p) # {}
  PROVE  LastQuantity(items, p) = Quantity(items, p)
<1> DEFINE f == [k \in DOMAIN items |-> items[k].quantity]
           S == Listings(items, p)
<1>1. Len(items) \in Nat /\ DOMAIN items = 1..Len(items) /\ \A k \in DOMAIN items : items[k] \in Item
  OBVIOUS
<1>2. S \in SUBSET (1..Len(items)) /\ S # {} /\ IsFiniteSet(S)
  BY <1>1, ListTypes DEF Listings
<1>3. Max(S) \in S
  BY <1>1, <1>2, GreatestMember
<1>4. \A k \in S : f[k] \in Int
  BY <1>1 DEF Listings, Item
<1>5. Quantity(items, p) = SumFunctionOnSet(f, S) /\ LastQuantity(items, p) = f[Max(S)]
  BY <1>1, <1>2, <1>3 DEF Quantity, LastQuantity
<1>6. Cardinality(S) <= 1
  OBVIOUS
<1> HIDE DEF f, S
<1>7. Cardinality(S \ {Max(S)}) = Cardinality(S) - 1 /\ IsFiniteSet(S \ {Max(S)})
  BY <1>2, <1>3, FS_RemoveElement, Zenon
<1>8. Cardinality(S) \in Nat /\ Cardinality(S \ {Max(S)}) \in Nat
  BY <1>2, <1>7, FS_CardinalityType
<1>9. Cardinality(S \ {Max(S)}) = 0
  BY <1>6, <1>7, <1>8
<1>10. S \ {Max(S)} = {}
  BY <1>7, <1>9, FS_EmptySet, Zenon
<1>11. SumFunctionOnSet(f, S) = f[Max(S)] + SumFunctionOnSet(f, {})
  <2>1. SumFunctionOnSet(f, S) = f[Max(S)] + SumFunctionOnSet(f, S \ {Max(S)})
    BY <1>2, <1>3, <1>4, SumRemove
  <2>2. QED
    BY <1>10, <2>1
<1>12. f[Max(S)] \in Int
  BY <1>3, <1>4
<1>13. QED
  BY <1>5, <1>11, <1>12, SumEmpty

-----------------------------------------------------------------------------
(* From here on the columns and the sessions have their types.             *)
ShopSteps == AllSteps \cup BillSteps \cup OrderSteps

(* What a request on a bill works on.                                      *)
AtBill(r) ==
  /\ pc[r] \in BillSteps \ {"idle"} => doc[r] \in Bills
  /\ pc[r] = "registering" => load[r].items \in Deliveries
  /\ pc[r] \in {"revising", "rewriting"} => load[r].items \in Deliveries \cup {None}
  /\ pc[r] \in {"syncing", "voiding"} => load[r].items \in Seq(Item)

AtOrder(r) == pc[r] \in OrderSteps \ {"idle"} => doc[r] \in Orders

ShopTyped ==
  /\ TypedWith(ShopSteps)
  /\ LoadTypeOK
  /\ JobTypeOK
  /\ \A r \in Requests : AtBill(r) /\ AtOrder(r)

Load == [bill : BillRow, items : Seq(Item) \cup {None}, sync : BOOLEAN,
         left : Seq(Item), onHand : [Products -> Int]]
Job == [old : Recipes \cup {NoRecipe}, new : Recipes \cup {NoRecipe}, onHand : [Products -> Int]]

(* The rows and sessions that mean nothing have types as well.             *)
LEMMA NothingTypes == NoBill \in BillRow /\ NoLoad \in Load /\ NoJob \in Job /\ NoOrder \in OrderRow
<1>1. NoBill \in BillRow
  BY DEF NoBill, BillRow, BillStatus
<1>2. Opening \in [Products -> Int]
  BY SchemaAssumption DEF SchemaAssumption
<1>3. QED
  BY <1>1, <1>2 DEF NoLoad, Load, NoJob, Job, NoOrder, OrderRow

(* A recipe lists items.                                                   *)
LEMMA RecipeLists ==
  ASSUME NEW recipe \in Recipes \cup {NoRecipe}
  PROVE  recipe.materials \in Seq(Item) /\ recipe.products \in Seq(Item)
<1>1. CASE recipe \in Recipes
  <2>1. recipe \in Recipe
    BY <1>1, RecipeAssumption, Zenon DEF RecipeAssumption
  <2>2. QED
    BY <2>1 DEF Recipe
<1>2. CASE recipe = NoRecipe
  BY <1>2 DEF NoRecipe
<1>3. QED
  BY <1>1, <1>2

(* What is written to the shelf are numbers.                               *)
LEMMA RestockedTypes ==
  ASSUME stock \in [Products -> Int], NEW items \in Seq(Item), NEW onHand \in [Products -> Int]
  PROVE  Restocked(items, onHand) \in [Products -> Int]
<1>1. \A p \in Products : Listings(items, p) # {} => LastQuantity(items, p) \in Nat
  BY ListTypes
<1>2. QED
  BY <1>1 DEF Restocked

LEMMA RevertedTypes ==
  ASSUME stock \in [Products -> Int], NEW old \in Recipes \cup {NoRecipe},
         NEW onHand \in [Products -> Int]
  PROVE  Reverted(old, onHand) \in [Products -> Int]
<1>1. \A p \in Products : Produced(old, p) \in Nat /\ Issued(old, p) \in Nat
  BY RecipeLists, ListTypes DEF Produced, Issued
<1>2. QED
  BY <1>1 DEF Reverted

(* The rows of bills that the handlers write.                              *)
LEMMA BillRowTypes ==
  /\ \A row \in BillRow, s \in BillStatus : [row EXCEPT !.status = s] \in BillRow
  /\ \A row \in BillRow : [row EXCEPT !.synced = TRUE] \in BillRow
  /\ \A row \in BillRow, n \in Nat, f \in BOOLEAN :
       [row EXCEPT !.total = n, !.synced = f] \in BillRow
  /\ \A row \in BillRow, l \in Seq(Item) :
       [row EXCEPT !.lines = l, !.edition = @ + 1] \in BillRow
  /\ \A items \in Deliveries, f \in BOOLEAN :
       [NoBill EXCEPT !.status = "ACTIVE", !.lines = items, !.total = Cost[items],
                      !.synced = f] \in BillRow
<1>1. ASSUME NEW items \in Deliveries, NEW f \in BOOLEAN
      PROVE  [NoBill EXCEPT !.status = "ACTIVE", !.lines = items, !.total = Cost[items],
                            !.synced = f] \in BillRow
  <2>1. items \in Seq(Item) /\ Cost[items] \in Nat
    BY DeliveryAssumption DEF DeliveryAssumption
  <2>2. QED
    BY <2>1, NothingTypes DEF BillRow, BillStatus
<1>2. ASSUME NEW row \in BillRow, NEW l \in Seq(Item)
      PROVE  [row EXCEPT !.lines = l, !.edition = @ + 1] \in BillRow
  <2>1. PICK n \in Nat : n = row.edition + 1
    BY DEF BillRow
  <2>2. [row EXCEPT !.lines = l, !.edition = n] \in BillRow
    BY DEF BillRow
  <2>3. QED
    BY <2>1, <2>2
<1>3. ASSUME NEW row \in BillRow, NEW n \in Nat, NEW f \in BOOLEAN
      PROVE  [row EXCEPT !.total = n, !.synced = f] \in BillRow
  BY DEF BillRow
<1>4. QED
  BY <1>1, <1>2, <1>3 DEF BillRow

(* The handlers of bills keep the types.                                   *)
LEMMA BillHandlerTypes ==
  ASSUME ShopTyped, NEW r \in Requests, BillStart(r) \/ BillProceed(r) \/ BillDie(r)
  PROVE  ShopTyped'
<1> DEFINE Rows == /\ bills' \in [Bills -> BillRow] /\ vouchers' \in [Vouchers -> VoucherRow]
                   /\ stock' \in [Products -> Int]
           Sessions == \E step \in BillSteps, d \in Documents \cup {None}, x \in Load :
             /\ pc' = [pc EXCEPT ![r] = step] /\ doc' = [doc EXCEPT ![r] = d]
             /\ load' = [load EXCEPT ![r] = x]
             /\ step # "idle" => d \in Bills
             /\ step = "registering" => x.items \in Deliveries
             /\ step \in {"revising", "rewriting"} => x.items \in Deliveries \cup {None}
             /\ step \in {"syncing", "voiding"} => x.items \in Seq(Item)
<1>1. /\ bills \in [Bills -> BillRow] /\ vouchers \in [Vouchers -> VoucherRow]
      /\ stock \in [Products -> Int] /\ served \in Nat
      /\ pc \in [Requests -> ShopSteps] /\ doc \in [Requests -> Documents \cup {None}]
      /\ load \in [Requests -> Load] /\ AtBill(r)
  BY DEF ShopTyped, TypedWith, HandlersOK, SchemaTypeOK, LoadTypeOK, Load
<1>2. UNCHANGED <<invoices, revenue, seen, task, orders, job>> /\ served' \in Nat
  <2>1. served + 1 \in Nat
    BY <1>1
  <2>2. CASE BillStart(r)
    BY <1>1, <2>1, <2>2 DEF BillStart, BillBegin, RegisterBegin, SyncBegin, ReviseBegin, VoidBegin,
                            DiscardBegin, Accept, tables
  <2>3. CASE BillProceed(r)
    BY <1>1, <2>3 DEF BillProceed, BillContinue, RegisterCommit, SyncCommit, ReviseRead,
                      ReviseCommit, VoidCommit, DiscardCommit, BillRefuse, tables
  <2>4. CASE BillDie(r)
    BY <1>1, <2>4 DEF BillDie, BillFail, tables
  <2>5. QED
    BY <2>2, <2>3, <2>4
<1>3. ASSUME Rows, Sessions
      PROVE  ShopTyped'
  <2>1. TypedWith(ShopSteps)'
    <3>1. pc' \in [Requests -> ShopSteps] /\ doc' \in [Requests -> Documents \cup {None}]
      BY <1>1, <1>3 DEF ShopSteps
    <3>2. SchemaTypeOK(ShopSteps)' /\ TaskTypeOK' /\ seen' \in [Requests -> InvoiceRow]
      BY <1>2, <1>3, <3>1 DEF ShopTyped, TypedWith, HandlersOK, SchemaTypeOK, TaskTypeOK
    <3>3. \A s \in Requests :
            /\ pc'[s] \in InvoicingSteps \ {"idle"} => doc'[s] \in Invoices
            /\ pc'[s] \in VoucherSteps \ {"idle"} =>
                 /\ doc'[s] \in Vouchers
                 /\ pc'[s] = "linking" => task'[s].edit.link \in Payables
      BY <1>1, <1>2, <1>3
         DEF ShopTyped, TypedWith, HandlersOK, InvoicingSteps, VoucherSteps, BillSteps
    <3>4. QED
      BY <3>2, <3>3 DEF TypedWith, HandlersOK
  <2>2. LoadTypeOK' /\ JobTypeOK'
    BY <1>1, <1>2, <1>3 DEF ShopTyped, LoadTypeOK, JobTypeOK, Load
  <2>3. \A s \in Requests : AtBill(s)' /\ AtOrder(s)'
    BY <1>1, <1>3 DEF ShopTyped, AtBill, AtOrder, BillSteps, OrderSteps
  <2>4. QED
    BY <2>1, <2>2, <2>3 DEF ShopTyped
<1>4. ASSUME Rows, GoIdle(r)
      PROVE  ShopTyped'
  <2>1. Sessions
    BY <1>4, NothingTypes DEF GoIdle, Respond, Goto, BillSteps
  <2>2. QED
    BY <1>3, <1>4, <2>1
<1>5. ASSUME NEW b \in Bills, BillBegin(r, b)
      PROVE  ShopTyped'
  <2>1. PICK step \in BillSteps, items \in Seq(Item) \cup {None}, sync \in BOOLEAN :
          /\ Loaded(r, b, items, sync) /\ Goto(r, step, b)
          /\ step = "registering" => items \in Deliveries
          /\ step \in {"revising", "rewriting"} => items \in Deliveries \cup {None}
          /\ step \in {"syncing", "voiding"} => items \in Seq(Item)
    <3>1. \A items \in Deliveries : items \in Seq(Item)
      BY DeliveryAssumption DEF DeliveryAssumption
    <3>2. bills[b].lines \in Seq(Item) /\ bills[b].synced \in BOOLEAN
      BY <1>1 DEF BillRow
    <3>3. CASE RegisterBegin(r, b)
      BY <3>1, <3>3 DEF RegisterBegin, BillSteps
    <3>4. CASE SyncBegin(r, b)
      BY <3>2, <3>4 DEF SyncBegin, BillSteps
    <3>5. CASE ReviseBegin(r, b)
      BY <3>1, <3>5 DEF ReviseBegin, BillSteps
    <3>6. CASE VoidBegin(r, b)
      BY <3>2, <3>6 DEF VoidBegin, BillSteps
    <3>7. CASE DiscardBegin(r, b)
      BY <3>7 DEF DiscardBegin, BillSteps
    <3>8. QED
      BY <1>5, <3>3, <3>4, <3>5, <3>6, <3>7 DEF BillBegin
  <2>2. Rows
    BY <1>1, <1>5 DEF BillBegin, RegisterBegin, SyncBegin, ReviseBegin, VoidBegin, DiscardBegin,
                      tables
  <2>3. Sessions
    <3> DEFINE x == [bill |-> bills[b], items |-> items, sync |-> sync, left |-> <<>>,
                     onHand |-> stock]
    <3>1. x \in Load /\ x.items = items
      BY <1>1 DEF Load
    <3>2. pc' = [pc EXCEPT ![r] = step] /\ doc' = [doc EXCEPT ![r] = b]
          /\ load' = [load EXCEPT ![r] = x]
      BY <2>1 DEF Loaded, Goto
    <3> HIDE DEF x
    <3>3. QED
      BY <2>1, <3>1, <3>2 DEF Documents, Payables
  <2>4. QED
    BY <1>3, <2>2, <2>3
<1>6. CASE RegisterCommit(r)
  <2>1. doc[r] \in Bills /\ load[r].items \in Deliveries /\ load[r] \in Load
    BY <1>1, <1>6 DEF RegisterCommit, AtBill, BillSteps
  <2>2. load[r].items \in Seq(Item) /\ load[r].onHand \in [Products -> Int] /\ load[r].sync \in BOOLEAN
    BY <2>1, DeliveryAssumption DEF DeliveryAssumption, Load
  <2>3. bills' \in [Bills -> BillRow]
    BY <1>1, <1>6, <2>1, <2>2, BillRowTypes DEF RegisterCommit
  <2>4. stock' \in [Products -> Int]
    BY <1>1, <1>6, <2>2, RestockedTypes DEF RegisterCommit
  <2>5. QED
    BY <1>1, <1>4, <1>6, <2>3, <2>4 DEF RegisterCommit
<1>7. CASE SyncCommit(r)
  <2>1. load[r].items \in Seq(Item) /\ load[r].onHand \in [Products -> Int]
    BY <1>1, <1>7 DEF SyncCommit, AtBill, Load
  <2>2. bills' \in [Bills -> BillRow]
    BY <1>1, <1>7, BillRowTypes DEF SyncCommit
  <2>3. stock' \in [Products -> Int]
    BY <1>1, <1>7, <2>1, RestockedTypes DEF SyncCommit
  <2>4. QED
    BY <1>1, <1>4, <1>7, <2>2, <2>3 DEF SyncCommit
<1>8. CASE ReviseRead(r)
  <2>1. doc[r] \in Bills /\ load[r] \in Load /\ load[r].items \in Deliveries \cup {None}
    BY <1>1, <1>8 DEF ReviseRead, AtBill, BillSteps
  <2>2. PICK l \in Seq(Item) : load' = [load EXCEPT ![r].left = l, ![r].onHand = stock]
    <3>1. bills[doc[r]].lines \in Seq(Item) /\ <<>> \in Seq(Item)
      BY <1>1, <2>1 DEF BillRow
    <3>2. QED
      BY <1>8, <3>1 DEF ReviseRead
  <2> DEFINE x == [load[r] EXCEPT !.left = l, !.onHand = stock]
  <2>3. x \in Load /\ x.items = load[r].items
    BY <1>1, <2>1 DEF Load
  <2>4. load' = [load EXCEPT ![r] = x]
    BY <1>1, <2>2
  <2> HIDE DEF x
  <2>5. Sessions
    BY <1>8, <2>1, <2>3, <2>4 DEF ReviseRead, Goto, BillSteps, Documents, Payables
  <2>6. Rows
    BY <1>1, <1>8 DEF ReviseRead, tables
  <2>7. QED
    BY <1>3, <2>5, <2>6
<1>9. CASE ReviseCommit(r)
  <2>1. doc[r] \in Bills /\ load[r] \in Load /\ load[r].items \in Deliveries \cup {None}
    BY <1>1, <1>9 DEF ReviseCommit, AtBill, BillSteps
  <2>2. /\ bills[doc[r]] \in BillRow /\ load[r].sync \in BOOLEAN /\ NewTotal(r) \in Nat
        /\ load[r].onHand \in [Products -> Int] /\ load[r].left \in Seq(Item)
        /\ load[r].items # None => load[r].items \in Seq(Item)
    BY <1>1, <2>1, DeliveryAssumption DEF NewTotal, Load, BillRow, DeliveryAssumption
  <2> DEFINE row == [bills[doc[r]] EXCEPT !.total = NewTotal(r), !.synced = load[r].sync]
  <2>3. row \in BillRow
    BY <2>2, BillRowTypes
  <2> HIDE DEF row
  <2>4. Rewritten(r) \in BillRow
    <3>1. load[r].items # None => load[r].left \o load[r].items \in Seq(Item)
      BY <2>2
    <3>2. QED
      BY <2>3, <3>1, BillRowTypes DEF Rewritten, row
  <2>5. ToSync(r) \in Seq(Item)
    BY <2>2 DEF ToSync
  <2>6. stock' \in [Products -> Int]
    BY <1>1, <1>9, <2>2, <2>5, RestockedTypes DEF ReviseCommit
  <2>7. QED
    BY <1>1, <1>4, <1>9, <2>4, <2>6 DEF ReviseCommit
<1>10. CASE VoidCommit(r)
  <2>1. load[r].items \in Seq(Item)
    BY <1>1, <1>10 DEF VoidCommit, AtBill
  <2>2. \A p \in Products : Quantity(load[r].items, p) \in Nat
    BY <2>1, ListTypes
  <2>3. stock' \in [Products -> Int]
    BY <1>1, <1>10, <2>2 DEF VoidCommit
  <2>4. vouchers' \in [Vouchers -> VoucherRow]
    BY <1>1, <1>10, VoucherRowTypes DEF VoidCommit, BulkCancelByInvoice
  <2>5. bills' \in [Bills -> BillRow]
    BY <1>1, <1>10, BillRowTypes DEF VoidCommit, BillStatus
  <2>6. QED
    BY <1>4, <1>10, <2>3, <2>4, <2>5 DEF VoidCommit
<1>11. CASE DiscardCommit(r)
  <2>1. vouchers' \in [Vouchers -> VoucherRow]
    BY <1>1, <1>11, VoucherRowTypes DEF DiscardCommit, Unlinked
  <2>2. bills' \in [Bills -> BillRow]
    BY <1>1, <1>11, BillRowTypes DEF DiscardCommit, BillStatus
  <2>3. QED
    BY <1>1, <1>4, <1>11, <2>1, <2>2 DEF DiscardCommit
<1>12. CASE BillRefuse(r) \/ BillFail(r)
  <2>1. Rows
    BY <1>1, <1>12 DEF BillRefuse, BillFail, tables
  <2>2. QED
    BY <1>4, <1>12, <2>1 DEF BillRefuse, BillFail
<1>13. QED
  BY <1>5, <1>6, <1>7, <1>8, <1>9, <1>10, <1>11, <1>12
     DEF BillStart, BillProceed, BillDie, BillContinue

(* So do those of production orders.                                       *)
LEMMA OrderHandlerTypes ==
  ASSUME ShopTyped, NEW r \in Requests, OrderStart(r) \/ OrderProceed(r) \/ OrderDie(r)
  PROVE  ShopTyped'
<1> DEFINE Rows == orders' \in [Orders -> OrderRow] /\ stock' \in [Products -> Int]
           Sessions == \E step \in OrderSteps, d \in Documents \cup {None}, x \in Job :
             /\ pc' = [pc EXCEPT ![r] = step] /\ doc' = [doc EXCEPT ![r] = d]
             /\ job' = [job EXCEPT ![r] = x]
             /\ step # "idle" => d \in Orders
<1>1. /\ orders \in [Orders -> OrderRow] /\ stock \in [Products -> Int] /\ served \in Nat
      /\ pc \in [Requests -> ShopSteps] /\ doc \in [Requests -> Documents \cup {None}]
      /\ job \in [Requests -> Job] /\ AtOrder(r)
  BY DEF ShopTyped, TypedWith, HandlersOK, SchemaTypeOK, JobTypeOK, Job
<1>2. /\ UNCHANGED <<invoices, bills, vouchers, revenue, seen, task, load>>
      /\ served' \in Nat
  <2>1. served + 1 \in Nat
    BY <1>1
  <2>2. CASE OrderStart(r)
    BY <1>1, <2>1, <2>2 DEF OrderStart, OrderBegin, ProduceBegin, RecallBegin, ReworkBegin, Accept,
                            tables
  <2>3. CASE OrderProceed(r)
    BY <1>1, <2>3 DEF OrderProceed, OrderContinue, ProduceCommit, RecallRead, RecallCommit,
                      ReworkCommit, OrderRefuse, tables
  <2>4. CASE OrderDie(r)
    BY <1>1, <2>4 DEF OrderDie, OrderFail, tables
  <2>5. QED
    BY <2>2, <2>3, <2>4
<1>3. ASSUME Rows, Sessions
      PROVE  ShopTyped'
  <2>1. TypedWith(ShopSteps)'
    <3>1. pc' \in [Requests -> ShopSteps] /\ doc' \in [Requests -> Documents \cup {None}]
      BY <1>1, <1>3 DEF ShopSteps
    <3>2. SchemaTypeOK(ShopSteps)' /\ TaskTypeOK' /\ seen' \in [Requests -> InvoiceRow]
      BY <1>2, <1>3, <3>1 DEF ShopTyped, TypedWith, HandlersOK, SchemaTypeOK, TaskTypeOK
    <3>3. \A s \in Requests :
            /\ pc'[s] \in InvoicingSteps \ {"idle"} => doc'[s] \in Invoices
            /\ pc'[s] \in VoucherSteps \ {"idle"} =>
                 /\ doc'[s] \in Vouchers
                 /\ pc'[s] = "linking" => task'[s].edit.link \in Payables
      BY <1>1, <1>2, <1>3
         DEF ShopTyped, TypedWith, HandlersOK, InvoicingSteps, VoucherSteps, OrderSteps
    <3>4. QED
      BY <3>2, <3>3 DEF TypedWith, HandlersOK
  <2>2. LoadTypeOK' /\ JobTypeOK'
    BY <1>1, <1>2, <1>3 DEF ShopTyped, LoadTypeOK, JobTypeOK, Job
  <2>3. \A s \in Requests : AtBill(s)' /\ AtOrder(s)'
    BY <1>1, <1>2, <1>3 DEF ShopTyped, AtBill, AtOrder, BillSteps, OrderSteps
  <2>4. QED
    BY <2>1, <2>2, <2>3 DEF ShopTyped
<1>4. ASSUME Rows, EndJob(r)
      PROVE  ShopTyped'
  <2>1. Sessions
    BY <1>4, NothingTypes DEF EndJob, Respond, Goto, OrderSteps
  <2>2. QED
    BY <1>3, <1>4, <2>1
<1>5. ASSUME Rows, NEW step \in OrderSteps, NEW o \in Orders, Goto(r, step, o),
             NEW old \in Recipes \cup {NoRecipe}, NEW new \in Recipes \cup {NoRecipe},
             Assigned(r, old, new)
      PROVE  ShopTyped'
  <2> DEFINE x == [old |-> old, new |-> new, onHand |-> stock]
  <2>1. x \in Job /\ job' = [job EXCEPT ![r] = x]
    BY <1>1, <1>5 DEF Job, Assigned
  <2> HIDE DEF x
  <2>2. Sessions
    BY <1>5, <2>1 DEF Goto, Documents
  <2>3. QED
    BY <1>3, <1>5, <2>2
<1>6. ASSUME NEW o \in Orders, OrderBegin(r, o)
      PROVE  ShopTyped'
  <2>1. Rows
    BY <1>1, <1>6 DEF OrderBegin, ProduceBegin, RecallBegin, ReworkBegin, tables
  <2>2. orders[o].recipe \in Recipes \cup {NoRecipe}
    BY <1>1 DEF OrderRow
  <2>3. PICK step \in OrderSteps, old \in Recipes \cup {NoRecipe}, new \in Recipes \cup {NoRecipe} :
          Goto(r, step, o) /\ Assigned(r, old, new)
    BY <1>6, <2>2 DEF OrderBegin, ProduceBegin, RecallBegin, ReworkBegin, OrderSteps
  <2>4. QED
    BY <1>5, <2>1, <2>3
<1>7. CASE RecallRead(r)
  <2>1. doc[r] \in Orders /\ job[r].old \in Recipes \cup {NoRecipe}
    BY <1>1, <1>7 DEF RecallRead, AtOrder, OrderSteps, Job
  <2>2. Rows
    BY <1>1, <1>7 DEF RecallRead, tables
  <2>3. Goto(r, "reverting order", doc[r]) /\ Assigned(r, job[r].old, NoRecipe)
        /\ "reverting order" \in OrderSteps
    BY <1>7 DEF RecallRead, OrderSteps
  <2>4. QED
    BY <1>5, <2>1, <2>2, <2>3
<1>8. /\ job[r].new \in Recipes \cup {NoRecipe} /\ job[r].old \in Recipes \cup {NoRecipe}
      /\ job[r].onHand \in [Products -> Int]
  BY <1>1 DEF Job
<1>9. \A p \in Products :
        /\ Produced(job[r].new, p) \in Nat /\ Issued(job[r].new, p) \in Nat
        /\ Listings(job[r].new.products, p) # {} => LastQuantity(job[r].new.products, p) \in Nat
  BY <1>8, RecipeLists, ListTypes DEF Produced, Issued
<1>10. CASE ProduceCommit(r)
  <2>1. stock' \in [Products -> Int]
    BY <1>1, <1>8, <1>9, <1>10 DEF ProduceCommit
  <2>2. [status |-> "ACTIVE", recipe |-> job[r].new] \in OrderRow
    BY <1>8 DEF OrderRow
  <2>3. QED
    BY <1>1, <1>4, <1>10, <2>1, <2>2 DEF ProduceCommit
<1>11. CASE RecallCommit(r)
  <2>1. stock' \in [Products -> Int]
    BY <1>1, <1>8, <1>11, RevertedTypes DEF RecallCommit
  <2>2. orders' \in [Orders -> OrderRow]
    BY <1>1, <1>11 DEF RecallCommit, OrderRow
  <2>3. QED
    BY <1>4, <1>11, <2>1, <2>2 DEF RecallCommit
<1>12. CASE ReworkCommit(r)
  <2>1. Base(r) \in [Products -> Int]
    BY <1>1, <1>8, RevertedTypes DEF Base
  <2>2. stock' \in [Products -> Int]
    BY <1>8, <1>9, <1>12, <2>1 DEF ReworkCommit
  <2>3. orders' \in [Orders -> OrderRow]
    BY <1>1, <1>8, <1>12 DEF ReworkCommit, OrderRow
  <2>4. QED
    BY <1>4, <1>12, <2>2, <2>3 DEF ReworkCommit
<1>13. CASE OrderRefuse(r) \/ OrderFail(r)
  <2>1. Rows
    BY <1>1, <1>13 DEF OrderRefuse, OrderFail, tables
  <2>2. QED
    BY <1>4, <1>13, <2>1 DEF OrderRefuse, OrderFail
<1>14. QED
  BY <1>6, <1>7, <1>10, <1>11, <1>12, <1>13
     DEF OrderStart, OrderProceed, OrderDie, OrderContinue

(* And those of invoices and vouchers, which leave the other sessions.     *)
LEMMA SettlementHandlerTypes ==
  ASSUME ShopTyped, NEW r \in Requests, UNCHANGED <<load, orders, job>>,
         \/ InvoiceBegin(r) \/ InvoiceContinue(r) \/ InvoiceFail(r)
         \/ VoucherStart(r) \/ VoucherProceed(r) \/ VoucherDie(r)
  PROVE  ShopTyped'
<1>1. TypedWith(ShopSteps)'
  <2>1. TypedWith(ShopSteps) /\ AllSteps \subseteq ShopSteps
    BY DEF ShopTyped, ShopSteps
  <2>2. QED
    BY <2>1, InvoiceHandlerTypes, VoucherHandlerTypes
<1>2. LoadTypeOK' /\ JobTypeOK'
  BY DEF ShopTyped, LoadTypeOK, JobTypeOK
<1>3. \/ UNCHANGED <<pc, doc>>
      \/ \E step \in AllSteps : \E d : Goto(r, step, d)
  <2>1. CASE InvoiceBegin(r) \/ InvoiceContinue(r) \/ InvoiceFail(r)
    BY <2>1 DEF InvoiceBegin, InvoiceContinue, InvoiceFail, Begin, Continue, Fail, Refuse,
         CreateInvoice, PublishBegin, CancelBegin, UpdateBegin, DeleteBegin, Reserve, LockRead,
         LockCommit, RollbackRead, RollbackCommit, CancelCommit, UpdateDetails, UpdateHeader,
         DeleteCommit, Respond, AllSteps, InvoicingSteps
  <2>2. CASE VoucherStart(r) \/ VoucherProceed(r) \/ VoucherDie(r)
    BY <2>2 DEF VoucherStart, VoucherProceed, VoucherDie, VoucherBegin, VoucherContinue,
         VoucherFail, VoucherRefuse, Collect, AmendBegin, LinkBegin, Edit, RevokeBegin, RemoveBegin,
         LinkRead, AmendCommit, RevokeMark, RevokeCommit, RemoveCommit, Respond, AllSteps,
         VoucherSteps
  <2>3. QED
    BY <2>1, <2>2
<1>4. pc \in [Requests -> ShopSteps] /\ doc \in [Requests -> Documents \cup {None}]
  BY DEF ShopTyped, TypedWith, HandlersOK, SchemaTypeOK
<1>5. \A s \in Requests : AtBill(s)' /\ AtOrder(s)'
  BY <1>3, <1>4 DEF ShopTyped, AtBill, AtOrder, Goto, AllSteps, InvoicingSteps, VoucherSteps,
                    BillSteps, OrderSteps
<1>6. QED
  BY <1>1, <1>2, <1>5 DEF ShopTyped

LEMMA StepShopTypes ==
  ASSUME ShopTyped, [InventoryNext]_shopVars
  PROVE  ShopTyped'
<1>1. CASE UNCHANGED shopVars
  BY <1>1 DEF ShopTyped, TypedWith, HandlersOK, SchemaTypeOK, TaskTypeOK, LoadTypeOK, JobTypeOK,
              AtBill, AtOrder, shopVars, allVars, vars, tables
<1>2. CASE SettlementNext /\ UNCHANGED <<load, orders, job>>
  BY <1>1, <1>2, SettlementHandlerTypes DEF SettlementNext, shopVars
<1>3. QED
  BY <1>1, <1>2, BillHandlerTypes, OrderHandlerTypes DEF InventoryNext

LEMMA InitShopTypes == InventoryInit => ShopTyped
<1> SUFFICES ASSUME InventoryInit PROVE ShopTyped
  OBVIOUS
<1>1. TypeOK
  BY InitTypes DEF InventoryInit, SettlementInit
<1>2. HandlersOK(ShopSteps)
  BY <1>1 DEF TypeOK, HandlersOK, SchemaTypeOK, ShopSteps, AllSteps
<1>3. NoTask \in [voucher : VoucherRow, edit : Edits, paid : Int, isPaid : BOOLEAN]
  BY DEF NoTask, NoVoucher, NoEdit, VoucherRow, VoucherStatus, Edits
<1>4. \A r \in Requests : pc[r] = "idle"
  BY DEF InventoryInit, SettlementInit, Init, SchemaInit
<1>5. TaskTypeOK /\ LoadTypeOK /\ JobTypeOK
  BY <1>3, NothingTypes DEF TaskTypeOK, LoadTypeOK, JobTypeOK, Load, Job, InventoryInit,
                            SettlementInit
<1>6. QED
  BY <1>2, <1>4, <1>5 DEF ShopTyped, TypedWith, AtBill, AtOrder, VoucherSteps, BillSteps, OrderSteps

LEMMA ShopTyping == InventorySpec => []ShopTyped
<1>1. ShopTyped /\ [InventoryNext]_shopVars => ShopTyped'
  BY StepShopTypes
<1>2. QED
  BY <1>1, InitShopTypes, PTL DEF InventorySpec

(* Every column and every session holds a value of its type, whoever buys, *)
(* makes, sells and pays at once; the numbers on the shelf are numbers     *)
(* whatever lists of items are synced, reverted and remade.                *)
THEOREM InventoryTyping == InventorySpec => []InventoryTypeOK
<1>1. ShopTyped => InventoryTypeOK
  BY DEF ShopTyped, TypedWith, HandlersOK, SchemaTypeOK, InventoryTypeOK, ShopSteps, AllSteps
<1>2. QED
  BY <1>1, ShopTyping, PTL

-----------------------------------------------------------------------------
(* What a request has read of the shelf was there when it read it, and     *)
(* sufficed for what it is about to take off that value.                   *)
Sane(r) ==
  /\ \A p \in Goods : load[r].onHand[p] >= 0 /\ job[r].onHand[p] >= 0
  /\ pc[r] \in {"reverting order", "reworking"} => Revertible(job[r].old, job[r].onHand)

ShelfInv ==
  /\ ShopTyped
  /\ StockNonNegative
  /\ \A r \in Requests : Sane(r)

(* Items are put on top of what was read.                                  *)
LEMMA RestockedNonNegative ==
  ASSUME StockNonNegative, stock \in [Products -> Int], NEW items \in Seq(Item),
         NEW onHand \in [Products -> Int], \A p \in Goods : onHand[p] >= 0
  PROVE  \A p \in Goods : Restocked(items, onHand)[p] >= 0
<1>1. \A p \in Goods : Listings(items, p) # {} => LastQuantity(items, p) \in Nat
  BY ListTypes
<1>2. \A p \in Goods : p \in Products
  BY SchemaAssumption DEF SchemaAssumption
<1>3. QED
  BY <1>1, <1>2 DEF Restocked, StockNonNegative

(* Details are reverted where the stock that was read suffices.            *)
LEMMA RevertedNonNegative ==
  ASSUME StockNonNegative, stock \in [Products -> Int], NEW old \in Recipes \cup {NoRecipe},
         NEW onHand \in [Products -> Int], Revertible(old, onHand)
  PROVE  \A p \in Goods : Reverted(old, onHand)[p] >= 0
<1>1. \A p \in Goods : Produced(old, p) \in Nat /\ Issued(old, p) \in Nat
  BY RecipeLists, ListTypes DEF Produced, Issued
<1>2. \A p \in Goods : p \in Products
  BY SchemaAssumption DEF SchemaAssumption
<1>3. QED
  BY <1>1, <1>2 DEF Reverted, Revertible, StockNonNegative

(* Nothing has been read at first, nor after an answer.                    *)
LEMMA OpeningNonNegative == \A p \in Goods : Opening[p] >= 0
BY SchemaAssumption DEF SchemaAssumption

(* Requests on bills ...                                                   *)
LEMMA BillsKeepShelf ==
  ASSUME ShelfInv, NEW r \in Requests, BillStart(r) \/ BillProceed(r) \/ BillDie(r)
  PROVE  StockNonNegative' /\ \A s \in Requests : Sane(s)'
<1>1. /\ stock \in [Products -> Int] /\ load \in [Requests -> Load] /\ AtBill(r)
      /\ pc \in [Requests -> ShopSteps] /\ StockNonNegative /\ Sane(r)
  BY DEF ShelfInv, ShopTyped, TypedWith, HandlersOK, SchemaTypeOK, LoadTypeOK, Load
<1>2. load[r].onHand \in [Products -> Int] /\ load[r].left \in Seq(Item)
      /\ \A p \in Goods : load[r].onHand[p] >= 0
  BY <1>1 DEF Load, Sane
<1>3. StockNonNegative'
  <2>1. CASE UNCHANGED stock
    BY <1>1, <2>1 DEF StockNonNegative
  <2>2. CASE \E items \in Seq(Item) : stock' = Restocked(items, load[r].onHand)
    BY <1>1, <1>2, <2>2, RestockedNonNegative DEF StockNonNegative
  <2>3. CASE RegisterCommit(r)
    <3>1. load[r].items \in Seq(Item)
      BY <1>1, <2>3, DeliveryAssumption DEF RegisterCommit, AtBill, DeliveryAssumption
    <3>2. QED
      BY <2>1, <2>2, <2>3, <3>1 DEF RegisterCommit
  <2>4. CASE SyncCommit(r)
    <3>1. load[r].items \in Seq(Item)
      BY <1>1, <2>4 DEF SyncCommit, AtBill
    <3>2. QED
      BY <2>2, <2>4, <3>1 DEF SyncCommit
  <2>5. CASE ReviseCommit(r)
    <3>1. load[r].items \in Deliveries \cup {None}
      BY <1>1, <2>5 DEF ReviseCommit, AtBill
    <3>2. ToSync(r) \in Seq(Item)
      BY <1>2, <3>1, DeliveryAssumption DEF DeliveryAssumption, ToSync
    <3>3. QED
      BY <2>1, <2>2, <2>5, <3>2 DEF ReviseCommit
  <2>6. CASE VoidCommit(r)
    <3>1. \A p \in Goods : p \in Products /\ Quantity(load[r].items, p) \in Nat
      BY <1>1, <2>6, ListTypes, SchemaAssumption DEF VoidCommit, AtBill, SchemaAssumption
    <3>2. load[r].sync => \A p \in Goods : Quantity(load[r].items, p) <= stock[p]
      BY <2>6 DEF VoidCommit, CanVoid
    <3>3. QED
      BY <1>1, <2>1, <2>6, <3>1, <3>2 DEF VoidCommit, StockNonNegative
  <2>7. QED
    BY <2>1, <2>3, <2>4, <2>5, <2>6
       DEF BillStart, BillProceed, BillDie, BillBegin, BillContinue, RegisterBegin, SyncBegin,
           ReviseBegin, VoidBegin, DiscardBegin, ReviseRead, DiscardCommit, BillRefuse, BillFail,
           tables
<1>4. UNCHANGED job /\ \E step \in BillSteps : \E x :
        /\ pc' = [pc EXCEPT ![r] = step] /\ load' = [load EXCEPT ![r] = x]
        /\ \A p \in Goods : x.onHand[p] >= 0
  <2>1. UNCHANGED job
    BY DEF BillStart, BillProceed, BillDie
  <2>2. CASE GoIdle(r)
    <3>1. NoLoad.onHand = Opening
      BY DEF NoLoad
    <3>2. pc' = [pc EXCEPT ![r] = "idle"] /\ load' = [load EXCEPT ![r] = NoLoad]
      BY <2>2 DEF GoIdle, Respond, Goto
    <3>3. QED
      BY <2>1, <3>1, <3>2, OpeningNonNegative DEF BillSteps
  <2>3. ASSUME NEW b, NEW items, NEW sync, NEW step \in BillSteps,
               Loaded(r, b, items, sync), Goto(r, step, b)
        PROVE  \E st \in BillSteps : \E x :
                 /\ pc' = [pc EXCEPT ![r] = st] /\ load' = [load EXCEPT ![r] = x]
                 /\ \A p \in Goods : x.onHand[p] >= 0
    <3> DEFINE x == [bill |-> bills[b], items |-> items, sync |-> sync, left |-> <<>>,
                     onHand |-> stock]
    <3>1. pc' = [pc EXCEPT ![r] = step] /\ load' = [load EXCEPT ![r] = x] /\ x.onHand = stock
      BY <2>3 DEF Loaded, Goto
    <3> HIDE DEF x
    <3>2. QED
      BY <1>1, <2>3, <3>1 DEF StockNonNegative
  <2>4. CASE ReviseRead(r)
    <3> DEFINE x == load'[r]
    <3>1. load' = [load EXCEPT ![r] = x] /\ x.onHand = stock
      BY <1>1, <2>4 DEF ReviseRead, Load
    <3>2. pc' = [pc EXCEPT ![r] = "rewriting"] /\ "rewriting" \in BillSteps
      BY <2>4 DEF ReviseRead, Goto, BillSteps
    <3>3. \A p \in Goods : x.onHand[p] >= 0
      BY <1>1, <3>1 DEF StockNonNegative
    <3> HIDE DEF x
    <3>4. QED
      BY <2>1, <3>1, <3>2, <3>3
  <2>5. CASE BillStart(r)
    <3>1. PICK b \in Bills : BillBegin(r, b)
      BY <2>5 DEF BillStart
    <3>2. \E items, sync : \E step \in BillSteps : Loaded(r, b, items, sync) /\ Goto(r, step, b)
      BY <3>1 DEF BillBegin, RegisterBegin, SyncBegin, ReviseBegin, VoidBegin, DiscardBegin,
                  BillSteps
    <3>3. QED
      BY <2>1, <2>3, <3>2
  <2>6. QED
    BY <2>2, <2>4, <2>5
       DEF BillProceed, BillDie, BillContinue, RegisterCommit, SyncCommit, ReviseCommit, VoidCommit,
           DiscardCommit, BillRefuse, BillFail
<1>5. ASSUME NEW s \in Requests PROVE Sane(s)'
  BY <1>1, <1>4 DEF ShelfInv, Sane, BillSteps
<1>6. QED
  BY <1>3, <1>5

(* ... and on production orders keep the invariant.                        *)
LEMMA OrdersKeepShelf ==
  ASSUME ShelfInv, NEW r \in Requests, OrderStart(r) \/ OrderProceed(r) \/ OrderDie(r)
  PROVE  StockNonNegative' /\ \A s \in Requests : Sane(s)'
<1>1. /\ stock \in [Products -> Int] /\ job \in [Requests -> Job]
      /\ pc \in [Requests -> ShopSteps] /\ StockNonNegative /\ Sane(r)
      /\ \A p \in Goods : p \in Products
  BY SchemaAssumption
     DEF SchemaAssumption, ShelfInv, ShopTyped, TypedWith, HandlersOK, SchemaTypeOK, JobTypeOK, Job
<1>2. /\ job[r].new \in Recipes \cup {NoRecipe} /\ job[r].old \in Recipes \cup {NoRecipe}
      /\ job[r].onHand \in [Products -> Int] /\ \A p \in Goods : job[r].onHand[p] >= 0
  BY <1>1 DEF Job, Sane
<1>3. \A p \in Goods :
        /\ Produced(job[r].new, p) \in Nat /\ Issued(job[r].new, p) \in Nat
        /\ Listings(job[r].new.products, p) # {} => LastQuantity(job[r].new.products, p) \in Nat
  BY <1>2, RecipeLists, ListTypes DEF Produced, Issued
<1>4. StockNonNegative'
  <2>1. CASE UNCHANGED stock
    BY <1>1, <2>1 DEF StockNonNegative
  <2>2. CASE ProduceCommit(r)
    BY <1>1, <1>2, <1>3, <2>2 DEF ProduceCommit, CanProduce, StockNonNegative
  <2>3. CASE RecallCommit(r)
    <3>1. Revertible(job[r].old, job[r].onHand)
      BY <1>1, <2>3 DEF RecallCommit, Sane
    <3>2. QED
      BY <1>1, <1>2, <2>3, <3>1, RevertedNonNegative DEF RecallCommit, StockNonNegative
  <2>4. CASE ReworkCommit(r)
    <3>1. Revertible(job[r].old, job[r].onHand)
      BY <1>1, <2>4 DEF ReworkCommit, Sane
    <3>2. Base(r) \in [Products -> Int] /\ \A p \in Goods : Base(r)[p] >= 0
      BY <1>1, <1>2, <3>1, RevertedTypes, RevertedNonNegative DEF Base
    <3>3. \A p \in Goods : Issued(job[r].new, p) <= Base(r)[p]
      BY <2>4 DEF ReworkCommit, CanRework
    <3>4. QED
      BY <1>1, <1>2, <1>3, <2>4, <3>2, <3>3 DEF ReworkCommit, StockNonNegative
  <2>5. QED
    BY <2>1, <2>2, <2>3, <2>4
       DEF OrderStart, OrderProceed, OrderDie, OrderBegin, OrderContinue, ProduceBegin, RecallBegin,
           ReworkBegin, RecallRead, OrderRefuse, OrderFail, tables
<1>5. UNCHANGED load /\ \E step \in OrderSteps : \E x :
        /\ pc' = [pc EXCEPT ![r] = step] /\ job' = [job EXCEPT ![r] = x]
        /\ \A p \in Goods : x.onHand[p] >= 0
        /\ step \in {"reverting order", "reworking"} => Revertible(x.old, x.onHand)
  <2>1. UNCHANGED load
    BY DEF OrderStart, OrderProceed, OrderDie
  <2>2. CASE EndJob(r)
    <3>1. NoJob.onHand = Opening
      BY DEF NoJob
    <3>2. pc' = [pc EXCEPT ![r] = "idle"] /\ job' = [job EXCEPT ![r] = NoJob]
      BY <2>2 DEF EndJob, Respond, Goto
    <3>3. QED
      BY <2>1, <3>1, <3>2, OpeningNonNegative DEF OrderSteps
  <2>3. ASSUME NEW d, NEW old, NEW new, NEW step \in OrderSteps,
               Assigned(r, old, new), Goto(r, step, d),
               step \in {"reverting order", "reworking"} => Revertible(old, stock)
        PROVE  \E st \in OrderSteps : \E x :
                 /\ pc' = [pc EXCEPT ![r] = st] /\ job' = [job EXCEPT ![r] = x]
                 /\ \A p \in Goods : x.onHand[p] >= 0
                 /\ st \in {"reverting order", "reworking"} => Revertible(x.old, x.onHand)
    <3> DEFINE x == [old |-> old, new |-> new, onHand |-> stock]
    <3>1. job' = [job EXCEPT ![r] = x] /\ pc' = [pc EXCEPT ![r] = step]
      BY <2>3 DEF Assigned, Goto
    <3>2. x.onHand = stock /\ x.old = old
      OBVIOUS
    <3> HIDE DEF x
    <3>3. QED
      BY <1>1, <2>3, <3>1, <3>2 DEF StockNonNegative
  <2>4. CASE RecallRead(r)
    BY <2>1, <2>3, <2>4 DEF RecallRead, OrderSteps
  <2>5. CASE OrderStart(r)
    BY <2>1, <2>3, <2>5
       DEF OrderStart, OrderBegin, ProduceBegin, RecallBegin, ReworkBegin, OrderSteps
  <2>6. QED
    BY <2>2, <2>4, <2>5
       DEF OrderProceed, OrderDie, OrderContinue, ProduceCommit, RecallCommit, ReworkCommit,
           OrderRefuse, OrderFail
<1>6. ASSUME NEW s \in Requests PROVE Sane(s)'
  BY <1>1, <1>5 DEF ShelfInv, Sane
<1>7. QED
  BY <1>4, <1>6

(* So do requests on invoices and vouchers.                                *)
LEMMA SettlementKeepsShelf ==
  ASSUME ShelfInv, NEW r \in Requests, UNCHANGED <<load, orders, job>>,
         \/ InvoiceBegin(r) \/ InvoiceContinue(r) \/ InvoiceFail(r)
         \/ VoucherStart(r) \/ VoucherProceed(r) \/ VoucherDie(r)
  PROVE  StockNonNegative' /\ \A s \in Requests : Sane(s)'
<1>1. StockNonNegative'
  <2>1. CASE InvoiceBegin(r) \/ InvoiceContinue(r) \/ InvoiceFail(r)
    BY <2>1, HandlersNeverOversell
       DEF InvoiceBegin, InvoiceContinue, InvoiceFail, ShelfInv, ShopTyped, TypedWith
  <2>2. CASE VoucherStart(r) \/ VoucherProceed(r) \/ VoucherDie(r)
    <3>1. UNCHANGED stock
      BY <2>2 DEF VoucherStart, VoucherProceed, VoucherDie, VoucherBegin, VoucherContinue,
           VoucherFail, VoucherRefuse, Collect, AmendBegin, LinkBegin, Edit, RevokeBegin,
           RemoveBegin, LinkRead, AmendCommit, RevokeMark, RevokeCommit, RemoveCommit, tables
    <3>2. QED
      BY <3>1 DEF ShelfInv, StockNonNegative
  <2>3. QED
    BY <2>1, <2>2
<1>2. OrderShapes
  BY DEF ShelfInv, ShopTyped, TypedWith, HandlersOK, SchemaTypeOK, JobTypeOK, OrderShapes
<1>3. Elsewhere(r) \/ UNCHANGED <<pc, doc, orders, job>>
  BY <1>2, InvoicesElsewhere, VouchersElsewhere
<1>4. \A s \in Requests : Sane(s)'
  BY <1>3 DEF ShelfInv, Sane, Elsewhere, Moves, OrderSteps
<1>5. QED
  BY <1>1, <1>4

(* No good is ever oversold or overused, whoever buys, makes, remakes,     *)
(* recalls and sells at once: the goods that leave do so by decrements     *)
(* with a condition, and what is written over the shelf was computed from  *)
(* a stock that sufficed (the handlers of invoices.service.ts,             *)
(* inbound-invoices.service.ts, internal-production-orders.service.ts).    *)
THEOREM ShelfNeverNegative == InventorySpec => []StockNonNegative
<1>1. InventoryInit => StockNonNegative /\ \A r \in Requests : Sane(r)
  BY OpeningNonNegative
     DEF InventoryInit, SettlementInit, Init, SchemaInit, StockNonNegative, Sane, NoLoad, NoJob
<1>2. ShelfInv /\ ShopTyped' /\ [InventoryNext]_shopVars => ShelfInv'
  <2> SUFFICES ASSUME ShelfInv, ShopTyped', [InventoryNext]_shopVars
               PROVE  StockNonNegative' /\ \A r \in Requests : Sane(r)'
    BY DEF ShelfInv
  <2>1. CASE UNCHANGED shopVars
    BY <2>1 DEF ShelfInv, StockNonNegative, Sane, shopVars, allVars, vars, tables
  <2>2. CASE SettlementNext /\ UNCHANGED <<load, orders, job>>
    BY <2>1, <2>2, SettlementKeepsShelf DEF SettlementNext, shopVars
  <2>3. QED
    BY <2>1, <2>2, BillsKeepShelf, OrdersKeepShelf DEF InventoryNext
<1>3. InventoryInit /\ ShopTyped => ShelfInv
  BY <1>1 DEF ShelfInv
<1>4. ShelfInv => StockNonNegative
  BY DEF ShelfInv
<1>5. QED
  BY <1>2, <1>3, <1>4, ShopTyping, PTL DEF InventorySpec

-----------------------------------------------------------------------------
(* From here on the books of the stock balance, for one keeper k.          *)

(* What a request has found of the documents it works on is still so: an   *)
(* invoice ...                                                             *)
CertainSale(r) ==
  /\ pc[r] \in {"publishing", "updating", "deleting"} => Editable(invoices[doc[r]])
  /\ pc[r] = "publishing" => seen[r].lines = invoices[doc[r]].lines
  /\ pc[r] \in {"awaiting", "locking", "rollingBack"} =>
       invoices[doc[r]].status = "PENDING_ISSUED"

(* ... or a bill, with the stock that was read; ...                        *)
CertainBill(r) ==
  /\ pc[r] \in BillSteps \ {"idle"} => load[r].onHand = stock
  /\ pc[r] = "registering" => bills[doc[r]].status = "ABSENT"
  /\ pc[r] \in {"syncing", "voiding"} =>
       bills[doc[r]].status = "ACTIVE" /\ load[r].items = bills[doc[r]].lines
  /\ pc[r] \in {"syncing", "revising", "rewriting", "discarding"} => ~bills[doc[r]].synced
  /\ pc[r] \in {"revising", "rewriting"} => ~load[r].sync
  /\ pc[r] = "revising" => load[r].bill.edition = bills[doc[r]].edition
  /\ pc[r] = "rewriting" /\ load[r].items # None => load[r].left = <<>>
  /\ pc[r] = "voiding" => load[r].sync = bills[doc[r]].synced

(* ... or an order.                                                        *)
CertainOrder(r) ==
  /\ pc[r] \in OrderSteps \ {"idle"} => job[r].onHand = stock
  /\ pc[r] = "producing" => orders[doc[r]].status = "ABSENT"
  /\ pc[r] \in {"recalling", "reverting order", "reworking"} =>
       orders[doc[r]].status = "ACTIVE" /\ job[r].old = orders[doc[r]].recipe

(* A stored bill lists what it was written with, and nothing else.         *)
ListsKnown == \A b \in Bills : bills[b].lines \in Deliveries \cup {<<>>}

KeeperInv(k) ==
  /\ ShopTyped
  /\ \A r \in Requests \ {k} : pc[r] \in VoucherSteps
  /\ CertainSale(k) /\ CertainBill(k) /\ CertainOrder(k)
  /\ ListsKnown
  /\ StockBalance

(* What a bill and an order add to the sums of the balance.                *)
SuppliedOn(b, p) ==
  IF bills[b].status = "ACTIVE" /\ bills[b].synced THEN Quantity(bills[b].lines, p) ELSE 0
MadeOn(o, p) == IF orders[o].status = "ACTIVE" THEN Produced(orders[o].recipe, p) ELSE 0
UsedOn(o, p) == IF orders[o].status = "ACTIVE" THEN Issued(orders[o].recipe, p) ELSE 0

(* A step that writes one bill moves what is supplied by what it moves on  *)
(* that bill.                                                              *)
LEMMA SuppliedMoves ==
  ASSUME bills \in [Bills -> BillRow], bills' \in [Bills -> BillRow], NEW b \in Bills, NEW p,
         \A c \in Bills \ {b} : /\ bills'[c].lines = bills[c].lines
                                /\ bills'[c].status = bills[c].status
                                /\ bills'[c].synced = bills[c].synced
  PROVE  /\ Supplied(p)' = Supplied(p) - SuppliedOn(b, p) + SuppliedOn(b, p)'
         /\ Supplied(p) \in Int /\ SuppliedOn(b, p) \in Nat /\ SuppliedOn(b, p)' \in Nat
<1> DEFINE f == [c \in Bills |-> Quantity(bills[c].lines, p)]
           e == [c \in Bills |-> Quantity(bills'[c].lines, p)]
           S == {c \in Bills : bills[c].status = "ACTIVE" /\ bills[c].synced}
           T == {c \in Bills : bills'[c].status = "ACTIVE" /\ bills'[c].synced}
<1>1. \A c \in Bills : bills[c].lines \in Seq(Item) /\ bills'[c].lines \in Seq(Item)
  BY DEF BillRow
<1>2. \A c \in Bills : f[c] \in Nat /\ e[c] \in Nat
  BY <1>1, ListTypes
<1>3. IsFiniteSet(S) /\ IsFiniteSet(T)
  BY FiniteAssumption, FS_Subset DEF FiniteAssumption
<1>4. S \ {b} = T \ {b} /\ \A c \in S \ {b} : f[c] = e[c]
  OBVIOUS
<1>5. Supplied(p) = SumFunctionOnSet(f, S) /\ Supplied(p)' = SumFunctionOnSet(e, T)
  BY DEF Supplied, Quantity
<1>6. SuppliedOn(b, p) = Share(f, S, b) /\ SuppliedOn(b, p)' = Share(e, T, b)
  BY DEF SuppliedOn, Share, Quantity
<1>7. SuppliedOn(b, p) \in Nat /\ SuppliedOn(b, p)' \in Nat
  BY <1>2, <1>6 DEF Share
<1> HIDE DEF f, e, S, T
<1>8. (\A x \in S : f[x] \in Int) /\ (\A x \in T : e[x] \in Int)
  BY <1>2 DEF S, T
<1>9. SumFunctionOnSet(e, T) = SumFunctionOnSet(f, S) - Share(f, S, b) + Share(e, T, b)
  BY <1>3, <1>4, <1>8, SumMoves
<1>10. SumFunctionOnSet(f, S) \in Int
  BY <1>3, <1>8, SumInt
<1>11. QED
  BY <1>5, <1>6, <1>7, <1>9, <1>10

(* And one that writes an order, what is made and used.                    *)
LEMMA MadeMoves ==
  ASSUME orders \in [Orders -> OrderRow], orders' \in [Orders -> OrderRow], NEW o \in Orders, NEW p,
         \A c \in Orders \ {o} : orders'[c] = orders[c]
  PROVE  /\ Made(p)' = Made(p) - MadeOn(o, p) + MadeOn(o, p)'
         /\ Made(p) \in Int /\ MadeOn(o, p) \in Nat /\ MadeOn(o, p)' \in Nat
         /\ Used(p)' = Used(p) - UsedOn(o, p) + UsedOn(o, p)'
         /\ Used(p) \in Int /\ UsedOn(o, p) \in Nat /\ UsedOn(o, p)' \in Nat
<1> DEFINE S == {c \in Orders : orders[c].status = "ACTIVE"}
           T == {c \in Orders : orders'[c].status = "ACTIVE"}
           mf == [c \in Orders |-> Produced(orders[c].recipe, p)]
           me == [c \in Orders |-> Produced(orders'[c].recipe, p)]
           uf == [c \in Orders |-> Issued(orders[c].recipe, p)]
           ue == [c \in Orders |-> Issued(orders'[c].recipe, p)]
<1>1. \A recipe \in Recipes \cup {NoRecipe} : Produced(recipe, p) \in Nat /\ Issued(recipe, p) \in Nat
  BY RecipeLists, ListTypes DEF Produced, Issued
<1>2. \A c \in Orders : /\ orders[c].recipe \in Recipes \cup {NoRecipe}
                        /\ orders'[c].recipe \in Recipes \cup {NoRecipe}
  BY DEF OrderRow
<1>3. \A c \in Orders : mf[c] \in Nat /\ me[c] \in Nat /\ uf[c] \in Nat /\ ue[c] \in Nat
  BY <1>1, <1>2
<1>4. IsFiniteSet(S) /\ IsFiniteSet(T)
  BY FiniteAssumption, FS_Subset DEF FiniteAssumption
<1>5. S \ {o} = T \ {o} /\ \A c \in S \ {o} : mf[c] = me[c] /\ uf[c] = ue[c]
  OBVIOUS
<1>6. /\ Made(p) = SumFunctionOnSet(mf, S) /\ Made(p)' = SumFunctionOnSet(me, T)
      /\ Used(p) = SumFunctionOnSet(uf, S) /\ Used(p)' = SumFunctionOnSet(ue, T)
  BY DEF Made, Used, InForce, Produced, Issued, Quantity
<1>7. /\ MadeOn(o, p) = Share(mf, S, o) /\ MadeOn(o, p)' = Share(me, T, o)
      /\ UsedOn(o, p) = Share(uf, S, o) /\ UsedOn(o, p)' = Share(ue, T, o)
  BY DEF MadeOn, UsedOn, Share, Produced, Issued, Quantity
<1>8. MadeOn(o, p) \in Nat /\ MadeOn(o, p)' \in Nat /\ UsedOn(o, p) \in Nat /\ UsedOn(o, p)' \in Nat
  BY <1>3, <1>7 DEF Share
<1> HIDE DEF mf, me, uf, ue, S, T
<1>9. /\ \A x \in S : mf[x] \in Int /\ uf[x] \in Int
      /\ \A x \in T : me[x] \in Int /\ ue[x] \in Int
  BY <1>3 DEF S, T
<1>10. /\ SumFunctionOnSet(me, T) = SumFunctionOnSet(mf, S) - Share(mf, S, o) + Share(me, T, o)
       /\ SumFunctionOnSet(ue, T) = SumFunctionOnSet(uf, S) - Share(uf, S, o) + Share(ue, T, o)
  BY <1>4, <1>5, <1>9, SumMoves
<1>11. SumFunctionOnSet(mf, S) \in Int /\ SumFunctionOnSet(uf, S) \in Int
  BY <1>4, <1>9, SumInt
<1>12. QED
  BY <1>6, <1>7, <1>8, <1>10, <1>11

(* The terms of the balance are numbers.                                   *)
LEMMA BalanceTypes ==
  ASSUME ShopTyped, NEW p \in Goods
  PROVE  /\ p \in Products /\ stock[p] \in Int /\ Opening[p] \in Int
         /\ Held(p) \in Int /\ Supplied(p) \in Int /\ Made(p) \in Int /\ Used(p) \in Int
<1>1. /\ invoices \in [Invoices -> InvoiceRow] /\ bills \in [Bills -> BillRow]
      /\ orders \in [Orders -> OrderRow] /\ stock \in [Products -> Int]
  BY DEF ShopTyped, TypedWith, HandlersOK, SchemaTypeOK, JobTypeOK
<1>2. p \in Products /\ stock[p] \in Int /\ Opening[p] \in Int
  BY <1>1, SchemaAssumption DEF SchemaAssumption
<1>3. Held(p) \in Int
  <2> DEFINE f == [i \in Invoices |-> invoices[i].lines[p]]
             S == {i \in Invoices : Holding(i)}
  <2>1. \A i \in S : f[i] \in Int
    BY <1>1, <1>2, LinesAreNat DEF InvoiceRow
  <2>2. IsFiniteSet(S) /\ Held(p) = SumFunctionOnSet(f, S)
    BY FiniteAssumption, FS_Subset DEF FiniteAssumption, Held
  <2> HIDE DEF f, S
  <2>3. QED
    BY <2>1, <2>2, SumInt
<1>4. Supplied(p) \in Int
  <2> DEFINE f == [b \in Bills |-> Quantity(bills[b].lines, p)]
             S == {b \in Bills : bills[b].status = "ACTIVE" /\ bills[b].synced}
  <2>1. \A b \in S : f[b] \in Int
    BY <1>1, ListTypes DEF BillRow
  <2>2. IsFiniteSet(S) /\ Supplied(p) = SumFunctionOnSet(f, S)
    BY FiniteAssumption, FS_Subset DEF FiniteAssumption, Supplied
  <2> HIDE DEF f, S
  <2>3. QED
    BY <2>1, <2>2, SumInt
<1>5. Made(p) \in Int /\ Used(p) \in Int
  <2> DEFINE f == [o \in Orders |-> Produced(orders[o].recipe, p)]
             e == [o \in Orders |-> Issued(orders[o].recipe, p)]
  <2>1. \A o \in InForce : f[o] \in Int /\ e[o] \in Int
    <3>1. \A o \in InForce : o \in Orders /\ orders[o].recipe \in Recipes \cup {NoRecipe}
      BY <1>1 DEF InForce, OrderRow
    <3>2. \A recipe \in Recipes \cup {NoRecipe} :
            Produced(recipe, p) \in Int /\ Issued(recipe, p) \in Int
      BY RecipeLists, ListTypes DEF Produced, Issued
    <3>3. QED
      BY <3>1, <3>2
  <2>2. /\ IsFiniteSet(InForce) /\ Made(p) = SumFunctionOnSet(f, InForce)
        /\ Used(p) = SumFunctionOnSet(e, InForce)
    BY FiniteAssumption, FS_Subset DEF FiniteAssumption, InForce, Made, Used
  <2> HIDE DEF f, e
  <2>3. QED
    BY <2>1, <2>2, SumInt
<1>6. QED
  BY <1>2, <1>3, <1>4, <1>5

(* What does not touch the documents leaves their sums.                    *)
LEMMA HeldStays ==
  ASSUME \A i \in Invoices : /\ invoices'[i].lines = invoices[i].lines
                             /\ invoices'[i].status = invoices[i].status
  PROVE  \A p : Held(p)' = Held(p)
<1> SUFFICES ASSUME NEW p PROVE Held(p)' = Held(p)
  OBVIOUS
<1>1. [i \in Invoices |-> invoices'[i].lines[p]] = [i \in Invoices |-> invoices[i].lines[p]]
  OBVIOUS
<1>2. {i \in Invoices : Holding(i)'} = {i \in Invoices : Holding(i)}
  BY DEF Holding
<1>3. QED
  BY <1>1, <1>2 DEF Held

LEMMA SuppliedStays ==
  ASSUME \A b \in Bills : /\ bills'[b].lines = bills[b].lines
                          /\ bills'[b].status = bills[b].status
                          /\ bills'[b].synced = bills[b].synced
  PROVE  \A p : Supplied(p)' = Supplied(p)
<1> SUFFICES ASSUME NEW p PROVE Supplied(p)' = Supplied(p)
  OBVIOUS
<1>1. [b \in Bills |-> Quantity(bills'[b].lines, p)] = [b \in Bills |-> Quantity(bills[b].lines, p)]
  OBVIOUS
<1>2. {b \in Bills : bills'[b].status = "ACTIVE" /\ bills'[b].synced}
        = {b \in Bills : bills[b].status = "ACTIVE" /\ bills[b].synced}
  OBVIOUS
<1>3. Supplied(p)' = SumFunctionOnSet([b \in Bills |-> Quantity(bills'[b].lines, p)],
                                      {b \in Bills : bills'[b].status = "ACTIVE" /\ bills'[b].synced})
  BY DEF Supplied, Quantity
<1>4. QED
  BY <1>1, <1>2, <1>3 DEF Supplied

LEMMA MadeStays == UNCHANGED orders => \A p : Made(p)' = Made(p) /\ Used(p)' = Used(p)
BY DEF Made, Used, InForce, Produced, Issued, Quantity

-----------------------------------------------------------------------------
(* Paying and giving back touch nothing that the balance is about.         *)
LEMMA VouchersOnlyPay ==
  ASSUME ShopTyped, NEW r \in Requests, VoucherStart(r) \/ VoucherProceed(r) \/ VoucherDie(r)
  PROVE  /\ UNCHANGED <<stock, seen>>
         /\ \A i \in Invoices : /\ invoices'[i].lines = invoices[i].lines
                                /\ invoices'[i].status = invoices[i].status
         /\ \A b \in Bills : /\ bills'[b].lines = bills[b].lines
                             /\ bills'[b].status = bills[b].status
                             /\ bills'[b].synced = bills[b].synced
                             /\ bills'[b].edition = bills[b].edition
         /\ \/ UNCHANGED <<pc, doc>>
            \/ \E step \in VoucherSteps : \E d : Goto(r, step, d)
<1> DEFINE Same ==
         /\ \A i \in Invoices : /\ invoices'[i].lines = invoices[i].lines
                                /\ invoices'[i].status = invoices[i].status
         /\ \A b \in Bills : /\ bills'[b].lines = bills[b].lines
                             /\ bills'[b].status = bills[b].status
                             /\ bills'[b].synced = bills[b].synced
                             /\ bills'[b].edition = bills[b].edition
<1>1. ASSUME NEW d, NEW n, NEW full, SetPayable(d, n, full)
      PROVE  Same
  BY <1>1 DEF SetPayable, ShopTyped, TypedWith, HandlersOK, SchemaTypeOK, InvoiceRow, BillRow
<1>2. UNCHANGED <<stock, seen>>
  BY DEF VoucherStart, VoucherProceed, VoucherDie, VoucherBegin, VoucherContinue, VoucherFail,
         VoucherRefuse, Collect, AmendBegin, LinkBegin, Edit, RevokeBegin, RemoveBegin, LinkRead,
         AmendCommit, RevokeMark, RevokeCommit, RemoveCommit, tables
<1>3. \/ UNCHANGED <<pc, doc>>
      \/ \E step \in VoucherSteps : \E d : Goto(r, step, d)
  BY DEF VoucherStart, VoucherProceed, VoucherDie, VoucherBegin, VoucherContinue, VoucherFail,
         VoucherRefuse, Collect, AmendBegin, LinkBegin, Edit, RevokeBegin, RemoveBegin, LinkRead,
         AmendCommit, RevokeMark, RevokeCommit, RemoveCommit, Respond, VoucherSteps
<1>4. UNCHANGED <<invoices, bills>> \/ \E d, n, full : SetPayable(d, n, full)
  BY DEF VoucherStart, VoucherProceed, VoucherDie, VoucherBegin, VoucherContinue, VoucherFail,
         VoucherRefuse, Collect, AmendBegin, LinkBegin, Edit, RevokeBegin, RemoveBegin, LinkRead,
         AmendCommit, RevokeMark, RevokeCommit, RemoveCommit, RevertInvoicePayment, tables
<1>5. Same
  BY <1>1, <1>4
<1>6. QED
  BY <1>2, <1>3, <1>5

(* Only the keeper moves goods.                                            *)
LEMMA OnlyKeeper ==
  ASSUME NEW k \in Requests, KeeperInv(k),
         \A r \in Requests \ {k} : Permits[r] \subseteq VoucherOps \X Documents,
         NEW r \in Requests,
         \/ InvoiceBegin(r) \/ InvoiceContinue(r) \/ InvoiceFail(r)
         \/ BillStart(r) \/ BillProceed(r) \/ BillDie(r)
         \/ OrderStart(r) \/ OrderProceed(r) \/ OrderDie(r)
  PROVE  r = k
<1> SUFFICES ASSUME r # k PROVE FALSE
  OBVIOUS
<1>1. pc[r] \in VoucherSteps
  BY DEF KeeperInv
<1>2. ASSUME NEW op \in InvoiceOps \cup BillOps \cup OrderOps, NEW d, Accept(r, op, d)
      PROVE  FALSE
  <2>1. <<op, d>> \in VoucherOps \X Documents
    BY <1>2 DEF Accept
  <2>2. op \in VoucherOps
    BY <2>1
  <2>3. QED
    BY <1>2, <2>2 DEF InvoiceOps, BillOps, OrderOps, VoucherOps
<1>3. ~InvoiceBegin(r)
  BY <1>2 DEF InvoiceBegin, Begin, CreateInvoice, PublishBegin, CancelBegin, UpdateBegin, DeleteBegin,
              InvoiceOps
<1>4. ~BillStart(r)
  BY <1>2 DEF BillStart, BillBegin, RegisterBegin, SyncBegin, ReviseBegin, VoidBegin, DiscardBegin,
              BillOps
<1>5. ~OrderStart(r)
  BY <1>2 DEF OrderStart, OrderBegin, ProduceBegin, RecallBegin, ReworkBegin, OrderOps
<1>6. ~(InvoiceContinue(r) \/ InvoiceFail(r))
  BY <1>1 DEF InvoiceContinue, InvoiceFail, Continue, Fail, Refuse, Reserve, LockRead, LockCommit,
              RollbackRead, RollbackCommit, CancelCommit, UpdateDetails, UpdateHeader, DeleteCommit,
              VoucherSteps, InvoicingSteps
<1>7. ~(BillProceed(r) \/ BillDie(r))
  BY <1>1 DEF BillProceed, BillDie, BillContinue, BillFail, BillRefuse, RegisterCommit, SyncCommit,
              ReviseRead, ReviseCommit, VoidCommit, DiscardCommit, VoucherSteps, BillSteps
<1>8. ~(OrderProceed(r) \/ OrderDie(r))
  BY <1>1 DEF OrderProceed, OrderDie, OrderContinue, OrderFail, OrderRefuse, ProduceCommit,
              RecallRead, RecallCommit, ReworkCommit, VoucherSteps, OrderSteps
<1>9. QED
  BY <1>3, <1>4, <1>5, <1>6, <1>7, <1>8

-----------------------------------------------------------------------------
(* The keeper sells: what leaves the shelf is held by invoices.            *)
LEMMA RowHolds ==
  ASSUME invoices \in [Invoices -> InvoiceRow], NEW i \in Invoices, NEW row \in InvoiceRow,
         invoices' = [invoices EXCEPT ![i] = row], NEW p \in Products
  PROVE  /\ Held(p)' = Held(p) - HeldOn(i, p)
                       + IF row.status \in {"PENDING_ISSUED", "ISSUED"} THEN row.lines[p] ELSE 0
         /\ Held(p) \in Int /\ HeldOn(i, p) \in Nat /\ row.lines[p] \in Nat
         /\ invoices[i].lines[p] \in Nat
<1>1. invoices' \in [Invoices -> InvoiceRow] /\ invoices'[i] = row
      /\ \A j \in Invoices \ {i} : /\ invoices'[j].lines = invoices[j].lines
                                   /\ Holding(j)' <=> Holding(j)
  BY DEF Holding
<1>2. /\ Held(p)' = Held(p) - HeldOn(i, p) + HeldOn(i, p)'
      /\ Held(p) \in Int /\ HeldOn(i, p) \in Nat
  BY <1>1, HeldMoves
<1>3. HeldOn(i, p)' = IF row.status \in {"PENDING_ISSUED", "ISSUED"} THEN row.lines[p] ELSE 0
  BY <1>1 DEF HeldOn, Holding
<1>4. row.lines[p] \in Nat /\ invoices[i].lines[p] \in Nat
  BY LinesAreNat DEF InvoiceRow
<1>5. QED
  BY <1>2, <1>3, <1>4

LEMMA StatusWritten ==
  ASSUME NEW row \in InvoiceRow, NEW s \in InvoiceStatus
  PROVE  /\ [row EXCEPT !.status = s] \in InvoiceRow
         /\ [row EXCEPT !.status = s].status = s
         /\ [row EXCEPT !.status = s].lines = row.lines
         /\ [row EXCEPT !.status = s, !.coded = TRUE] \in InvoiceRow
         /\ [row EXCEPT !.status = s, !.coded = TRUE].status = s
         /\ [row EXCEPT !.status = s, !.coded = TRUE].lines = row.lines
BY DEF InvoiceRow

LEMMA KeeperSells ==
  ASSUME NEW k \in Requests, KeeperInv(k), InvoiceBegin(k) \/ InvoiceContinue(k) \/ InvoiceFail(k)
  PROVE  /\ CertainSale(k)' /\ pc'[k] \in InvoicingSteps /\ UNCHANGED bills
         /\ \A p \in Goods : stock'[p] + Held(p)' = stock[p] + Held(p)
<1> DEFINE Even == \A p \in Goods : stock'[p] + Held(p)' = stock[p] + Held(p)
           row == invoices[doc[k]]
<1>1. /\ invoices \in [Invoices -> InvoiceRow] /\ stock \in [Products -> Int]
      /\ seen \in [Requests -> InvoiceRow] /\ pc \in [Requests -> ShopSteps]
      /\ doc \in [Requests -> Documents \cup {None}]
      /\ pc[k] \in InvoicingSteps \ {"idle"} => doc[k] \in Invoices
      /\ CertainSale(k) /\ \A p \in Goods : p \in Products
  BY SchemaAssumption
     DEF SchemaAssumption, KeeperInv, ShopTyped, TypedWith, HandlersOK, SchemaTypeOK
<1>2. UNCHANGED bills
  BY DEF InvoiceBegin, InvoiceContinue, InvoiceFail, Begin, Continue, Fail, Refuse, CreateInvoice,
         PublishBegin, CancelBegin, UpdateBegin, DeleteBegin, Reserve, LockRead, LockCommit,
         RollbackRead, RollbackCommit, CancelCommit, UpdateDetails, UpdateHeader, DeleteCommit,
         tables
<1>3. ASSUME UNCHANGED <<invoices, stock>>
      PROVE  Even
  <2>1. \A p : Held(p)' = Held(p)
    BY <1>3, HeldStays
  <2>2. QED
    BY <1>3, <2>1
<1>4. ASSUME pc'[k] = "idle"
      PROVE  CertainSale(k)' /\ pc'[k] \in InvoicingSteps
  BY <1>4 DEF CertainSale, InvoicingSteps
<1>5. Respond(k) => pc'[k] = "idle"
  BY <1>1 DEF Respond, Goto
<1>6. ASSUME NEW i \in Invoices, CreateInvoice(k, i)
      PROVE  Even /\ pc'[k] = "idle"
  <2>1. PICK x \in InvoiceRow : x.status = "DRAFT" /\ invoices' = [invoices EXCEPT ![i] = x]
    <3>1. PICK b \in Baskets : invoices' = [invoices EXCEPT ![i] =
            [NoInvoice EXCEPT !.status = "DRAFT", !.lines = b, !.total = Worth[b]]]
      BY <1>6 DEF CreateInvoice
    <3> DEFINE x == [NoInvoice EXCEPT !.status = "DRAFT", !.lines = b, !.total = Worth[b]]
    <3>2. x \in InvoiceRow /\ x.status = "DRAFT"
      BY RowTypes DEF NoInvoice
    <3> HIDE DEF x
    <3>3. QED
      BY <3>1, <3>2 DEF x
  <2>2. \A p \in Goods : Held(p)' = Held(p) - HeldOn(i, p) + 0
    BY <1>1, <2>1, RowHolds
  <2>3. \A p \in Goods : HeldOn(i, p) = 0 /\ Held(p) \in Int
    BY <1>1, <1>6, <2>1, RowHolds DEF CreateInvoice, HeldOn, Holding
  <2>4. QED
    BY <1>6, <2>2, <2>3 DEF CreateInvoice, Accept
<1>7. ASSUME NEW i \in Invoices,
             PublishBegin(k, i) \/ CancelBegin(k, i) \/ UpdateBegin(k, i) \/ DeleteBegin(k, i)
      PROVE  Even /\ CertainSale(k)' /\ pc'[k] \in InvoicingSteps
  <2>1. /\ UNCHANGED <<invoices, stock>> /\ doc'[k] = i /\ seen'[k] = invoices[i]
        /\ pc'[k] \in {"publishing", "canceling", "updating", "deleting"}
        /\ pc'[k] # "canceling" => Editable(invoices[i])
    BY <1>1, <1>7 DEF PublishBegin, CancelBegin, UpdateBegin, DeleteBegin, Goto, Remember, tables
  <2>2. QED
    BY <1>3, <2>1 DEF CertainSale, Editable, InvoicingSteps
<1>8. CASE Reserve(k)
  <2> DEFINE x == [row EXCEPT !.status = "PENDING_ISSUED"]
  <2>1. doc[k] \in Invoices /\ Editable(row) /\ seen[k].lines = row.lines
    BY <1>1, <1>8 DEF Reserve, CertainSale, InvoicingSteps
  <2>2. /\ x \in InvoiceRow /\ x.status = "PENDING_ISSUED" /\ x.lines = row.lines
        /\ invoices' = [invoices EXCEPT ![doc[k]] = x]
    <3>1. row \in InvoiceRow /\ "PENDING_ISSUED" \in InvoiceStatus
      BY <1>1, <2>1 DEF InvoiceStatus
    <3>2. invoices' = [invoices EXCEPT ![doc[k]] = x]
      BY <1>8 DEF Reserve, SetStatus
    <3> HIDE DEF row
    <3>3. QED
      BY <3>1, <3>2, StatusWritten
  <2> HIDE DEF x
  <2>3. \A p \in Goods : /\ Held(p)' = Held(p) - HeldOn(doc[k], p) + row.lines[p]
                         /\ Held(p) \in Int /\ row.lines[p] \in Nat /\ HeldOn(doc[k], p) = 0
    BY <1>1, <2>1, <2>2, RowHolds DEF HeldOn, Holding, Editable
  <2>4. \A p \in Goods : stock'[p] = stock[p] - row.lines[p] /\ stock[p] \in Int
    BY <1>1, <1>8, <2>1 DEF Reserve
  <2>5. Even
    BY <2>3, <2>4
  <2>6. pc'[k] = "awaiting" /\ doc'[k] = doc[k] /\ invoices'[doc[k]].status = "PENDING_ISSUED"
    BY <1>1, <1>8, <2>1, <2>2 DEF Reserve, Goto
  <2>7. QED
    BY <1>2, <2>5, <2>6 DEF CertainSale, InvoicingSteps
<1>9. CASE LockRead(k) \/ RollbackRead(k)
  <2>1. /\ UNCHANGED <<invoices, stock>> /\ doc'[k] = doc[k] /\ pc'[k] \in {"locking", "rollingBack"}
        /\ row.status = "PENDING_ISSUED"
    BY <1>1, <1>9 DEF LockRead, RollbackRead, Goto, tables, CertainSale
  <2>2. QED
    BY <1>2, <1>3, <2>1 DEF CertainSale, InvoicingSteps
<1>10. ASSUME NEW x \in InvoiceRow, doc[k] \in Invoices,
              invoices' = [invoices EXCEPT ![doc[k]] = x],
              ~Holding(doc[k]), x.status \notin {"PENDING_ISSUED", "ISSUED"}, UNCHANGED stock
       PROVE  Even
  <2>1. \A p \in Goods : /\ Held(p)' = Held(p) - HeldOn(doc[k], p) + 0
                         /\ Held(p) \in Int /\ HeldOn(doc[k], p) = 0
    BY <1>1, <1>10, RowHolds DEF HeldOn
  <2>2. QED
    BY <1>10, <2>1
<1>11. CASE LockCommit(k)
  <2> DEFINE x == [row EXCEPT !.status = "ISSUED", !.coded = TRUE]
  <2>1. doc[k] \in Invoices /\ row.status = "PENDING_ISSUED"
    BY <1>1, <1>11 DEF LockCommit, CertainSale, InvoicingSteps
  <2>2. /\ x \in InvoiceRow /\ x.status = "ISSUED" /\ x.lines = row.lines
        /\ invoices' = [invoices EXCEPT ![doc[k]] = x]
    <3>1. row \in InvoiceRow /\ "ISSUED" \in InvoiceStatus
      BY <1>1, <2>1 DEF InvoiceStatus
    <3>2. invoices' = [invoices EXCEPT ![doc[k]] = x]
      BY <1>1, <1>11, <2>1 DEF LockCommit
    <3> HIDE DEF row
    <3>3. QED
      BY <3>1, <3>2, StatusWritten
  <2> HIDE DEF x
  <2>3. \A p \in Goods : /\ Held(p)' = Held(p) - HeldOn(doc[k], p) + row.lines[p]
                         /\ Held(p) \in Int /\ row.lines[p] \in Nat
                         /\ HeldOn(doc[k], p) = row.lines[p]
    BY <1>1, <2>1, <2>2, RowHolds DEF HeldOn, Holding
  <2>4. Even
    BY <1>11, <2>3 DEF LockCommit
  <2>5. QED
    BY <1>2, <1>4, <1>5, <1>11, <2>4 DEF LockCommit
<1>12. CASE RollbackCommit(k) \/ CancelCommit(k)
  <2> DEFINE s == IF RollbackCommit(k) THEN "SYNC_FAILED" ELSE "CANCELED"
             x == [row EXCEPT !.status = s]
  <2>1. doc[k] \in Invoices /\ row.status \in {"PENDING_ISSUED", "ISSUED"}
    BY <1>1, <1>12
       DEF RollbackCommit, CancelCommit, CanCancel, Cancelable, CertainSale, InvoicingSteps
  <2>2. /\ s \in InvoiceStatus \ {"PENDING_ISSUED", "ISSUED"} /\ Respond(k)
        /\ invoices' = [invoices EXCEPT ![doc[k]] = x]
        /\ \A p \in Goods : stock'[p] = stock[p] + row.lines[p]
    BY <1>1, <1>12 DEF RollbackCommit, CancelCommit, SetStatus, InvoiceStatus
  <2> HIDE DEF s
  <2>3. x \in InvoiceRow /\ x.status = s
    BY <1>1, <2>1, <2>2, RowTypes DEF InvoiceRow
  <2> HIDE DEF x
  <2>4. \A p \in Goods : /\ Held(p)' = Held(p) - HeldOn(doc[k], p) + 0
                         /\ Held(p) \in Int /\ row.lines[p] \in Nat
                         /\ HeldOn(doc[k], p) = row.lines[p]
    BY <1>1, <2>1, <2>2, <2>3, RowHolds DEF HeldOn, Holding
  <2>5. Even
    BY <1>1, <2>2, <2>4
  <2>6. QED
    BY <1>2, <1>4, <1>5, <2>2, <2>5
<1>13. CASE UpdateDetails(k) \/ UpdateHeader(k) \/ DeleteCommit(k)
  <2>1. doc[k] \in Invoices /\ Editable(row) /\ row \in InvoiceRow
    BY <1>1, <1>13 DEF UpdateDetails, UpdateHeader, DeleteCommit, CertainSale, InvoicingSteps
  <2>2. PICK x \in InvoiceRow : /\ invoices' = [invoices EXCEPT ![doc[k]] = x]
                                /\ x.status \in {row.status, "DELETED"}
    <3>1. CASE UpdateDetails(k)
      <4>1. PICK b \in Baskets, l \in Quantities : invoices' =
              [invoices EXCEPT ![doc[k]].lines = l, ![doc[k]].total = Worth[b]]
        BY <1>1, <2>1, <3>1, DetailsWritten
      <4> DEFINE x == [row EXCEPT !.lines = l, !.total = Worth[b]]
      <4>2. x \in InvoiceRow /\ x.status = row.status
        BY <2>1, RowTypes DEF InvoiceRow
      <4>3. invoices' = [invoices EXCEPT ![doc[k]] = x]
        BY <1>1, <2>1, <4>1
      <4> HIDE DEF x
      <4>4. QED
        BY <4>2, <4>3
    <3>2. CASE UpdateHeader(k)
      <4> DEFINE x == [row EXCEPT !.total = seen[k].total]
      <4>1. seen[k].total \in Nat
        BY <1>1 DEF InvoiceRow
      <4>2. x \in InvoiceRow /\ x.status = row.status
        BY <2>1, <4>1, RowTypes DEF InvoiceRow
      <4>3. invoices' = [invoices EXCEPT ![doc[k]] = x]
        BY <3>2 DEF UpdateHeader
      <4> HIDE DEF x
      <4>4. QED
        BY <4>2, <4>3
    <3>3. CASE DeleteCommit(k)
      <4> DEFINE x == [row EXCEPT !.status = "DELETED"]
      <4>1. x \in InvoiceRow /\ x.status = "DELETED"
        BY <2>1, StatusWritten DEF InvoiceStatus
      <4>2. invoices' = [invoices EXCEPT ![doc[k]] = x]
        BY <3>3 DEF DeleteCommit, SetStatus
      <4> HIDE DEF x
      <4>3. QED
        BY <4>1, <4>2
    <3>4. QED
      BY <1>13, <3>1, <3>2, <3>3
  <2>3. UNCHANGED stock /\ Respond(k)
    BY <1>13 DEF UpdateDetails, UpdateHeader, DeleteCommit
  <2>4. ~Holding(doc[k]) /\ x.status \notin {"PENDING_ISSUED", "ISSUED"}
    BY <2>1, <2>2 DEF Holding, Editable
  <2>5. QED
    BY <1>2, <1>4, <1>5, <1>10, <2>1, <2>2, <2>3, <2>4
<1>14. CASE Refuse(k) \/ Fail(k)
  BY <1>2, <1>3, <1>4, <1>5, <1>14 DEF Refuse, Fail, tables
<1>15. QED
  BY <1>2, <1>4, <1>6, <1>7, <1>8, <1>9, <1>11, <1>12, <1>13, <1>14
     DEF InvoiceBegin, InvoiceContinue, InvoiceFail, Begin, Continue

-----------------------------------------------------------------------------
(* The keeper buys: what comes on the shelf is supplied by synced bills.   *)
LEMMA RowSupplies ==
  ASSUME bills \in [Bills -> BillRow], NEW b \in Bills, NEW row \in BillRow,
         bills' = [bills EXCEPT ![b] = row], NEW p
  PROVE  /\ Supplied(p)' = Supplied(p) - SuppliedOn(b, p)
                           + IF row.status = "ACTIVE" /\ row.synced THEN Quantity(row.lines, p) ELSE 0
         /\ Supplied(p) \in Int /\ SuppliedOn(b, p) \in Nat /\ Quantity(row.lines, p) \in Nat
<1>1. /\ bills' \in [Bills -> BillRow] /\ bills'[b] = row
      /\ \A c \in Bills \ {b} : bills'[c] = bills[c]
  OBVIOUS
<1>2. /\ Supplied(p)' = Supplied(p) - SuppliedOn(b, p) + SuppliedOn(b, p)'
      /\ Supplied(p) \in Int /\ SuppliedOn(b, p) \in Nat
  BY <1>1, SuppliedMoves
<1>3. SuppliedOn(b, p)' = IF row.status = "ACTIVE" /\ row.synced THEN Quantity(row.lines, p) ELSE 0
  BY <1>1 DEF SuppliedOn, Quantity
<1>4. Quantity(row.lines, p) \in Nat
  BY ListTypes DEF BillRow
<1>5. QED
  BY <1>2, <1>3, <1>4

(* A list that names each good once puts its quantities on the shelf.      *)
LEMMA KnownOnce ==
  ASSUME ListedOnce, NEW items \in Deliveries \cup {<<>>}
  PROVE  items \in Seq(Item) /\ \A p \in Goods : Cardinality(Listings(items, p)) <= 1
<1>1. CASE items \in Deliveries
  BY <1>1, DeliveryAssumption DEF DeliveryAssumption, ListedOnce
<1>2. CASE items = <<>>
  <2>1. \A p \in Goods : Listings(items, p) = {}
    BY <1>2 DEF Listings
  <2>2. QED
    BY <1>2, <2>1, FS_EmptySet
<1>3. QED
  BY <1>1, <1>2

LEMMA RestockedAdds ==
  ASSUME ListedOnce, stock \in [Products -> Int], NEW items \in Deliveries \cup {<<>>},
         NEW p \in Goods
  PROVE  /\ Restocked(items, stock)[p] = stock[p] + Quantity(items, p)
         /\ Quantity(items, p) \in Nat /\ stock[p] \in Int
<1>1. items \in Seq(Item) /\ Cardinality(Listings(items, p)) <= 1 /\ p \in Products
  BY KnownOnce, SchemaAssumption DEF SchemaAssumption
<1>2. Quantity(items, p) \in Nat /\ stock[p] \in Int
  BY <1>1, ListTypes
<1>3. CASE Listings(items, p) = {}
  BY <1>1, <1>2, <1>3, ListTypes DEF Restocked
<1>4. CASE Listings(items, p) # {}
  BY <1>1, <1>2, <1>4, OnceListed DEF Restocked
<1>5. QED
  BY <1>2, <1>3, <1>4

LEMMA EmptyAhead ==
  ASSUME NEW S, NEW s \in Seq(S)
  PROVE  <<>> \o s = s
BY SMT

LEMMA KeeperBuys ==
  ASSUME NoRestock, ListedOnce, NEW k \in Requests, KeeperInv(k),
         BillStart(k) \/ BillProceed(k) \/ BillDie(k)
  PROVE  /\ CertainBill(k)' /\ pc'[k] \in BillSteps /\ ListsKnown' /\ UNCHANGED <<invoices, orders>>
         /\ \A p \in Goods : stock'[p] - Supplied(p)' = stock[p] - Supplied(p)
<1> DEFINE Even == \A p \in Goods : stock'[p] - Supplied(p)' = stock[p] - Supplied(p)
           bill == bills[doc[k]]
<1>1. /\ bills \in [Bills -> BillRow] /\ stock \in [Products -> Int]
      /\ load \in [Requests -> Load] /\ pc \in [Requests -> ShopSteps]
      /\ doc \in [Requests -> Documents \cup {None}]
      /\ CertainBill(k) /\ AtBill(k) /\ ListsKnown
      /\ \A p \in Goods : p \in Products
  BY SchemaAssumption
     DEF SchemaAssumption, KeeperInv, ShopTyped, TypedWith, HandlersOK, SchemaTypeOK, LoadTypeOK, Load
<1>2. UNCHANGED <<invoices, orders>>
  BY DEF BillStart, BillProceed, BillDie, BillBegin, BillContinue, RegisterBegin, SyncBegin,
         ReviseBegin, VoidBegin, DiscardBegin, RegisterCommit, SyncCommit, ReviseRead, ReviseCommit,
         VoidCommit, DiscardCommit, BillRefuse, BillFail, tables
<1>3. ASSUME UNCHANGED <<bills, stock>>
      PROVE  Even /\ ListsKnown'
  <2>1. \A p : Supplied(p)' = Supplied(p)
    BY <1>3, SuppliedStays
  <2>2. QED
    BY <1>1, <1>3, <2>1 DEF ListsKnown
<1>4. GoIdle(k) => CertainBill(k)' /\ pc'[k] \in BillSteps
  BY <1>1 DEF GoIdle, Respond, Goto, CertainBill, BillSteps
<1>5. ASSUME NEW row \in BillRow, doc[k] \in Bills, bills' = [bills EXCEPT ![doc[k]] = row],
             row.lines \in Deliveries \cup {<<>>},
             \A p \in Goods : stock'[p] = stock[p] - SuppliedOn(doc[k], p)
               + IF row.status = "ACTIVE" /\ row.synced THEN Quantity(row.lines, p) ELSE 0
      PROVE  Even /\ ListsKnown'
  <2>1. Even
    <3> SUFFICES ASSUME NEW p \in Goods
                 PROVE  stock'[p] - Supplied(p)' = stock[p] - Supplied(p)
      OBVIOUS
    <3>1. /\ Supplied(p)' = Supplied(p) - SuppliedOn(doc[k], p)
               + IF row.status = "ACTIVE" /\ row.synced THEN Quantity(row.lines, p) ELSE 0
          /\ Supplied(p) \in Int /\ SuppliedOn(doc[k], p) \in Nat /\ Quantity(row.lines, p) \in Nat
      BY <1>1, <1>5, RowSupplies
    <3>2. stock[p] \in Int
      BY <1>1
    <3>3. QED
      BY <1>5, <3>1, <3>2
  <2>2. ListsKnown'
    BY <1>1, <1>5 DEF ListsKnown
  <2>3. QED
    BY <2>1, <2>2
<1>6. ASSUME NEW b \in Bills, BillBegin(k, b)
      PROVE  Even /\ ListsKnown' /\ CertainBill(k)' /\ pc'[k] \in BillSteps
  <2>1. UNCHANGED <<bills, stock>>
    BY <1>6 DEF BillBegin, RegisterBegin, SyncBegin, ReviseBegin, VoidBegin, DiscardBegin, tables
  <2>2. ASSUME NEW items, NEW sync, NEW step \in BillSteps,
               Loaded(k, b, items, sync), Goto(k, step, b),
               step = "registering" => bills[b].status = "ABSENT",
               step \in {"syncing", "voiding"} =>
                 bills[b].status = "ACTIVE" /\ items = bills[b].lines,
               step \in {"syncing", "revising", "rewriting", "discarding"} => ~bills[b].synced,
               step \in {"revising", "rewriting"} => ~sync, step # "rewriting",
               step = "voiding" => sync = bills[b].synced
        PROVE  CertainBill(k)' /\ pc'[k] \in BillSteps
    <3>1. pc'[k] = step /\ doc'[k] = b
      BY <1>1, <2>2 DEF Goto
    <3>2. /\ load'[k].onHand = stock /\ load'[k].items = items /\ load'[k].sync = sync
          /\ load'[k].bill = bills[b]
      BY <1>1, <2>2 DEF Loaded
    <3>3. QED
      BY <2>1, <2>2, <3>1, <3>2 DEF CertainBill
  <2>3. RegisterBegin(k, b) => CertainBill(k)' /\ pc'[k] \in BillSteps
    BY <2>2 DEF RegisterBegin, BillSteps
  <2>4. SyncBegin(k, b) => CertainBill(k)' /\ pc'[k] \in BillSteps
    BY <2>2 DEF SyncBegin, BillSteps
  <2>5. ASSUME ReviseBegin(k, b)
        PROVE  CertainBill(k)' /\ pc'[k] \in BillSteps
    <3>1. PICK sync \in BOOLEAN, items \in Deliveries \cup {None} :
            Accept(k, IF sync THEN "restock" ELSE "revise", b) /\ Loaded(k, b, items, sync)
      BY <2>5 DEF ReviseBegin
    <3>2. ~sync
      BY <3>1 DEF NoRestock, Accept
    <3>3. Goto(k, "revising", b) /\ ~bills[b].synced
      BY <2>5 DEF ReviseBegin, Revisable
    <3>4. QED
      BY <2>2, <3>1, <3>2, <3>3 DEF BillSteps
  <2>6. VoidBegin(k, b) => CertainBill(k)' /\ pc'[k] \in BillSteps
    BY <2>2 DEF VoidBegin, BillSteps
  <2>7. DiscardBegin(k, b) => CertainBill(k)' /\ pc'[k] \in BillSteps
    BY <2>2 DEF DiscardBegin, Revisable, BillSteps
  <2>8. QED
    BY <1>3, <1>6, <2>1, <2>3, <2>4, <2>5, <2>6, <2>7 DEF BillBegin
<1>7. CASE RegisterCommit(k)
  <2> DEFINE row == [NoBill EXCEPT !.status = "ACTIVE", !.lines = load[k].items,
                                   !.total = Cost[load[k].items], !.synced = load[k].sync]
  <2>1. /\ doc[k] \in Bills /\ load[k].items \in Deliveries /\ load[k].onHand = stock
        /\ load[k].sync \in BOOLEAN /\ bill.status = "ABSENT"
    BY <1>1, <1>7 DEF RegisterCommit, AtBill, CertainBill, BillSteps, Load
  <2>2. /\ row \in BillRow /\ row.status = "ACTIVE" /\ row.lines = load[k].items
        /\ row.synced = load[k].sync
    BY <2>1, BillRowTypes DEF NoBill
  <2>3. bills' = [bills EXCEPT ![doc[k]] = row]
    BY <1>7 DEF RegisterCommit
  <2> HIDE DEF row
  <2>4. ASSUME NEW p \in Goods
        PROVE  stock'[p] = stock[p] - SuppliedOn(doc[k], p)
                 + IF row.status = "ACTIVE" /\ row.synced THEN Quantity(row.lines, p) ELSE 0
    <3>1. SuppliedOn(doc[k], p) = 0
      BY <2>1 DEF SuppliedOn
    <3>2. /\ Restocked(load[k].items, stock)[p] = stock[p] + Quantity(load[k].items, p)
          /\ Quantity(load[k].items, p) \in Nat /\ stock[p] \in Int
      BY <1>1, <2>1, RestockedAdds
    <3>3. stock' = IF load[k].sync THEN Restocked(load[k].items, stock) ELSE stock
      BY <1>7, <2>1 DEF RegisterCommit
    <3>4. QED
      BY <2>2, <3>1, <3>2, <3>3
  <2>5. Even /\ ListsKnown'
    BY <1>5, <2>1, <2>2, <2>3, <2>4
  <2>6. QED
    BY <1>2, <1>4, <1>7, <2>5 DEF RegisterCommit
<1>8. CASE SyncCommit(k)
  <2> DEFINE row == [bill EXCEPT !.synced = TRUE]
  <2>1. /\ doc[k] \in Bills /\ bill \in BillRow /\ load[k].onHand = stock
        /\ bill.status = "ACTIVE" /\ load[k].items = bill.lines /\ ~bill.synced
        /\ bill.lines \in Deliveries \cup {<<>>}
    BY <1>1, <1>8 DEF SyncCommit, AtBill, CertainBill, BillSteps, ListsKnown
  <2>2. row \in BillRow /\ row.status = "ACTIVE" /\ row.lines = bill.lines /\ row.synced
    BY <2>1 DEF BillRow
  <2>3. bills' = [bills EXCEPT ![doc[k]] = row]
    BY <1>8 DEF SyncCommit
  <2> HIDE DEF row
  <2>4. ASSUME NEW p \in Goods
        PROVE  stock'[p] = stock[p] - SuppliedOn(doc[k], p)
                 + IF row.status = "ACTIVE" /\ row.synced THEN Quantity(row.lines, p) ELSE 0
    <3>1. SuppliedOn(doc[k], p) = 0
      BY <2>1 DEF SuppliedOn
    <3>2. /\ Restocked(bill.lines, stock)[p] = stock[p] + Quantity(bill.lines, p)
          /\ Quantity(bill.lines, p) \in Nat /\ stock[p] \in Int
      BY <1>1, <2>1, RestockedAdds
    <3>3. stock' = Restocked(bill.lines, stock)
      BY <1>8, <2>1 DEF SyncCommit
    <3>4. QED
      BY <2>2, <3>1, <3>2, <3>3
  <2>5. Even /\ ListsKnown'
    BY <1>5, <2>1, <2>2, <2>3, <2>4
  <2>6. QED
    BY <1>2, <1>4, <1>8, <2>5 DEF SyncCommit
<1>9. CASE ReviseRead(k)
  <2>1. UNCHANGED <<bills, stock>> /\ pc'[k] = "rewriting" /\ doc'[k] = doc[k]
    BY <1>1, <1>9 DEF ReviseRead, Goto, tables
  <2>2. /\ load[k] \in Load /\ ~bill.synced /\ ~load[k].sync
        /\ load[k].bill.edition = bill.edition
    BY <1>1, <1>9 DEF ReviseRead, CertainBill
  <2>3. PICK l : /\ load' = [load EXCEPT ![k].left = l, ![k].onHand = stock]
                 /\ load[k].items # None => l = <<>>
    BY <1>9, <2>2 DEF ReviseRead
  <2> DEFINE x == [load[k] EXCEPT !.left = l, !.onHand = stock]
  <2>4. /\ x.items = load[k].items /\ x.sync = load[k].sync /\ x.onHand = stock /\ x.left = l
    BY <2>2 DEF Load
  <2>5. load'[k] = x
    BY <1>1, <2>3
  <2> HIDE DEF x
  <2>6. CertainBill(k)'
    BY <2>1, <2>2, <2>3, <2>4, <2>5 DEF CertainBill
  <2>7. QED
    BY <1>2, <1>3, <2>1, <2>6 DEF BillSteps
<1>10. CASE ReviseCommit(k)
  <2>1. /\ doc[k] \in Bills /\ bill \in BillRow /\ load[k] \in Load
        /\ ~bill.synced /\ ~load[k].sync /\ bill.lines \in Deliveries \cup {<<>>}
        /\ load[k].items # None => load[k].items \in Deliveries /\ load[k].left = <<>>
    BY <1>1, <1>10 DEF ReviseCommit, AtBill, CertainBill, BillSteps, ListsKnown
  <2>2. NewTotal(k) \in Nat
    BY <2>1, DeliveryAssumption DEF NewTotal, Load, BillRow, DeliveryAssumption
  <2> DEFINE part == [bill EXCEPT !.total = NewTotal(k), !.synced = load[k].sync]
             row == Rewritten(k)
  <2>3. part \in BillRow /\ part.lines = bill.lines /\ ~part.synced
    BY <2>1, <2>2 DEF BillRow, Load
  <2>4. load[k].items # None =>
          load[k].left \o load[k].items = load[k].items /\ load[k].items \in Seq(Item)
    <3>1. load[k].items # None => load[k].items \in Seq(Item)
      BY <2>1, DeliveryAssumption DEF DeliveryAssumption
    <3>2. QED
      BY <2>1, <3>1, EmptyAhead
  <2>5. row = IF load[k].items = None THEN part
              ELSE [part EXCEPT !.lines = load[k].left \o load[k].items, !.edition = @ + 1]
    BY DEF Rewritten
  <2> HIDE DEF part, row
  <2>6. row \in BillRow /\ row.lines \in Deliveries \cup {<<>>} /\ ~row.synced
    <3>1. CASE load[k].items = None
      BY <2>1, <2>3, <2>5, <3>1
    <3>2. CASE load[k].items # None
      <4>1. row = [part EXCEPT !.lines = load[k].items, !.edition = @ + 1]
        BY <2>4, <2>5, <3>2
      <4>2. row \in BillRow
        BY <2>3, <2>4, <3>2, <4>1, BillRowTypes
      <4>3. row.lines = load[k].items /\ row.synced = part.synced
        BY <2>3, <4>1 DEF BillRow
      <4>4. QED
        BY <2>1, <2>3, <3>2, <4>2, <4>3
    <3>3. QED
      BY <3>1, <3>2
  <2>7. bills' = [bills EXCEPT ![doc[k]] = row] /\ UNCHANGED stock
    BY <1>10, <2>1 DEF ReviseCommit, row
  <2>8. \A p \in Goods : stock'[p] = stock[p] - SuppliedOn(doc[k], p)
          + IF row.status = "ACTIVE" /\ row.synced THEN Quantity(row.lines, p) ELSE 0
    BY <1>1, <2>1, <2>6, <2>7 DEF SuppliedOn
  <2>9. Even /\ ListsKnown'
    BY <1>5, <2>1, <2>6, <2>7, <2>8
  <2>10. QED
    BY <1>2, <1>4, <1>10, <2>9 DEF ReviseCommit
<1>11. CASE VoidCommit(k)
  <2> DEFINE row == [bill EXCEPT !.status = "CANCELED"]
  <2>1. /\ doc[k] \in Bills /\ bill \in BillRow /\ bill.status = "ACTIVE"
        /\ load[k].items = bill.lines /\ load[k].sync = bill.synced
        /\ bill.lines \in Deliveries \cup {<<>>}
    BY <1>1, <1>11 DEF VoidCommit, AtBill, CertainBill, BillSteps, ListsKnown
  <2>2. row \in BillRow /\ row.status = "CANCELED" /\ row.lines = bill.lines
    BY <2>1 DEF BillRow, BillStatus
  <2>3. bills' = [bills EXCEPT ![doc[k]] = row]
    BY <1>11 DEF VoidCommit
  <2> HIDE DEF row
  <2>4. ASSUME NEW p \in Goods
        PROVE  stock'[p] = stock[p] - SuppliedOn(doc[k], p)
                 + IF row.status = "ACTIVE" /\ row.synced THEN Quantity(row.lines, p) ELSE 0
    <3>1. stock[p] \in Int /\ p \in Products
      BY <1>1
    <3>2. SuppliedOn(doc[k], p) = IF load[k].sync THEN Quantity(load[k].items, p) ELSE 0
      BY <2>1 DEF SuppliedOn
    <3>3. Quantity(load[k].items, p) \in Nat
      BY <2>1, ListTypes DEF BillRow
    <3>4. stock'[p] = IF load[k].sync THEN stock[p] - Quantity(load[k].items, p) ELSE stock[p]
      BY <1>11, <3>1 DEF VoidCommit
    <3>5. QED
      BY <2>2, <3>1, <3>2, <3>3, <3>4
  <2>5. Even /\ ListsKnown'
    BY <1>5, <2>1, <2>2, <2>3, <2>4
  <2>6. QED
    BY <1>2, <1>4, <1>11, <2>5 DEF VoidCommit
<1>12. CASE DiscardCommit(k)
  <2> DEFINE row == [bill EXCEPT !.status = "DELETED"]
  <2>1. /\ doc[k] \in Bills /\ bill \in BillRow /\ ~bill.synced
        /\ bill.lines \in Deliveries \cup {<<>>}
    BY <1>1, <1>12 DEF DiscardCommit, AtBill, CertainBill, BillSteps, ListsKnown
  <2>2. row \in BillRow /\ row.status = "DELETED" /\ row.lines = bill.lines
    BY <2>1 DEF BillRow, BillStatus
  <2>3. bills' = [bills EXCEPT ![doc[k]] = row] /\ UNCHANGED stock
    BY <1>12 DEF DiscardCommit
  <2> HIDE DEF row
  <2>4. \A p \in Goods : stock'[p] = stock[p] - SuppliedOn(doc[k], p)
          + IF row.status = "ACTIVE" /\ row.synced THEN Quantity(row.lines, p) ELSE 0
    BY <1>1, <2>1, <2>2, <2>3 DEF SuppliedOn
  <2>5. Even /\ ListsKnown'
    BY <1>5, <2>1, <2>2, <2>3, <2>4
  <2>6. QED
    BY <1>2, <1>4, <1>12, <2>5 DEF DiscardCommit
<1>13. CASE BillRefuse(k) \/ BillFail(k)
  BY <1>2, <1>3, <1>4, <1>13 DEF BillRefuse, BillFail, tables
<1>14. QED
  BY <1>2, <1>6, <1>7, <1>8, <1>9, <1>10, <1>11, <1>12, <1>13
     DEF BillStart, BillProceed, BillDie, BillContinue

-----------------------------------------------------------------------------
(* The keeper makes: what comes on the shelf is made by orders in force,   *)
(* and what leaves it is used by them.                                     *)
LEMMA RecipeAdds ==
  ASSUME ListedOnce, NEW recipe \in Recipes \cup {NoRecipe}, NEW p \in Goods
  PROVE  /\ Produced(recipe, p) \in Nat /\ Issued(recipe, p) \in Nat
         /\ IF Listings(recipe.products, p) = {} THEN Produced(recipe, p) = 0
            ELSE Issued(recipe, p) = 0 /\ LastQuantity(recipe.products, p) = Produced(recipe, p)
<1> DEFINE M == Listings(recipe.materials, p)
           P == Listings(recipe.products, p)
<1>1. recipe.materials \in Seq(Item) /\ recipe.products \in Seq(Item)
  BY RecipeLists
<1>2. /\ IsFiniteSet(M) /\ IsFiniteSet(P)
      /\ Produced(recipe, p) \in Nat /\ Issued(recipe, p) \in Nat
      /\ P = {} => Produced(recipe, p) = 0
      /\ M = {} => Issued(recipe, p) = 0
  BY <1>1, ListTypes DEF Produced, Issued
<1>3. Cardinality(M) \in Nat /\ Cardinality(P) \in Nat /\ (Cardinality(P) = 0 <=> P = {})
      /\ (Cardinality(M) = 0 <=> M = {})
  BY <1>2, FS_CardinalityType, FS_EmptySet
<1>4. CASE recipe \in Recipes /\ P # {}
  <2>1. Cardinality(M) + Cardinality(P) <= 1
    BY <1>4, Zenon DEF ListedOnce, NoRepeats
  <2>2. Cardinality(M) = 0 /\ Cardinality(P) <= 1
    BY <1>3, <1>4, <2>1
  <2>3. LastQuantity(recipe.products, p) = Produced(recipe, p)
    BY <1>1, <1>4, <2>2, OnceListed DEF Produced
  <2>4. QED
    BY <1>2, <1>3, <1>4, <2>2, <2>3
<1>5. CASE recipe = NoRecipe
  <2>1. P = {}
    BY <1>5 DEF NoRecipe, Listings
  <2>2. QED
    BY <1>2, <2>1
<1>6. QED
  BY <1>2, <1>4, <1>5

(* Reverting details on the stock as it is takes back what they did.       *)
LEMMA RevertedTakesBack ==
  ASSUME ListedOnce, stock \in [Products -> Int], NEW old \in Recipes \cup {NoRecipe},
         NEW p \in Goods
  PROVE  Reverted(old, stock)[p] = stock[p] - Produced(old, p) + Issued(old, p)
<1>1. p \in Products /\ stock[p] \in Int
  BY SchemaAssumption DEF SchemaAssumption
<1>2. p \notin Touched(old) => Produced(old, p) = 0 /\ Issued(old, p) = 0
  <2>1. SUFFICES ASSUME p \notin Touched(old)
                 PROVE  Produced(old, p) = 0 /\ Issued(old, p) = 0
    OBVIOUS
  <2>2. Listings(old.materials, p) = {} /\ Listings(old.products, p) = {}
    BY <2>1 DEF Touched
  <2>3. QED
    BY <2>2, RecipeLists, ListTypes DEF Produced, Issued
<1>3. QED
  BY <1>1, <1>2 DEF Reverted

LEMMA RowMakes ==
  ASSUME orders \in [Orders -> OrderRow], NEW o \in Orders, NEW row \in OrderRow,
         orders' = [orders EXCEPT ![o] = row], NEW p
  PROVE  /\ Made(p)' = Made(p) - MadeOn(o, p)
                       + IF row.status = "ACTIVE" THEN Produced(row.recipe, p) ELSE 0
         /\ Used(p)' = Used(p) - UsedOn(o, p)
                       + IF row.status = "ACTIVE" THEN Issued(row.recipe, p) ELSE 0
         /\ Made(p) \in Int /\ MadeOn(o, p) \in Nat /\ Used(p) \in Int /\ UsedOn(o, p) \in Nat
<1>1. /\ orders' \in [Orders -> OrderRow] /\ orders'[o] = row
      /\ \A c \in Orders \ {o} : orders'[c] = orders[c]
  OBVIOUS
<1>2. /\ Made(p)' = Made(p) - MadeOn(o, p) + MadeOn(o, p)'
      /\ Used(p)' = Used(p) - UsedOn(o, p) + UsedOn(o, p)'
      /\ Made(p) \in Int /\ MadeOn(o, p) \in Nat /\ Used(p) \in Int /\ UsedOn(o, p) \in Nat
  BY <1>1, MadeMoves
<1>3. /\ MadeOn(o, p)' = IF row.status = "ACTIVE" THEN Produced(row.recipe, p) ELSE 0
      /\ UsedOn(o, p)' = IF row.status = "ACTIVE" THEN Issued(row.recipe, p) ELSE 0
  BY <1>1 DEF MadeOn, UsedOn, Produced, Issued, Quantity
<1>4. QED
  BY <1>2, <1>3

LEMMA KeeperMakes ==
  ASSUME ListedOnce, NEW k \in Requests, KeeperInv(k),
         OrderStart(k) \/ OrderProceed(k) \/ OrderDie(k)
  PROVE  /\ CertainOrder(k)' /\ pc'[k] \in OrderSteps /\ UNCHANGED <<invoices, bills>>
         /\ \A p \in Goods : stock'[p] + Used(p)' - Made(p)' = stock[p] + Used(p) - Made(p)
<1> DEFINE Even == \A p \in Goods : stock'[p] + Used(p)' - Made(p)' = stock[p] + Used(p) - Made(p)
           order == orders[doc[k]]
           j == job[k]
<1>1. /\ orders \in [Orders -> OrderRow] /\ stock \in [Products -> Int]
      /\ job \in [Requests -> Job] /\ pc \in [Requests -> ShopSteps]
      /\ doc \in [Requests -> Documents \cup {None}]
      /\ CertainOrder(k) /\ AtOrder(k)
      /\ \A p \in Goods : p \in Products
  BY SchemaAssumption
     DEF SchemaAssumption, KeeperInv, ShopTyped, TypedWith, HandlersOK, SchemaTypeOK, JobTypeOK, Job
<1>2. UNCHANGED <<invoices, bills>>
  BY DEF OrderStart, OrderProceed, OrderDie, OrderBegin, OrderContinue, ProduceBegin, RecallBegin,
         ReworkBegin, ProduceCommit, RecallRead, RecallCommit, ReworkCommit, OrderRefuse, OrderFail,
         tables
<1>3. ASSUME UNCHANGED <<orders, stock>>
      PROVE  Even
  BY <1>3, MadeStays
<1>4. EndJob(k) => CertainOrder(k)' /\ pc'[k] \in OrderSteps
  BY <1>1 DEF EndJob, Respond, Goto, CertainOrder, OrderSteps
<1>5. /\ j.new \in Recipes \cup {NoRecipe} /\ j.old \in Recipes \cup {NoRecipe}
      /\ doc[k] \in Orders => order \in OrderRow
  BY <1>1 DEF Job
<1>6. \A p \in Goods :
        /\ Produced(j.new, p) \in Nat /\ Issued(j.new, p) \in Nat
        /\ Produced(j.old, p) \in Nat /\ Issued(j.old, p) \in Nat
        /\ IF Listings(j.new.products, p) = {} THEN Produced(j.new, p) = 0
           ELSE Issued(j.new, p) = 0 /\ LastQuantity(j.new.products, p) = Produced(j.new, p)
        /\ Reverted(j.old, stock)[p] = stock[p] - Produced(j.old, p) + Issued(j.old, p)
        /\ stock[p] \in Int /\ p \in Products
  BY <1>1, <1>5, RecipeAdds, RevertedTakesBack
<1>7. ASSUME NEW row \in OrderRow, doc[k] \in Orders, orders' = [orders EXCEPT ![doc[k]] = row],
             \A p \in Goods : stock'[p] = stock[p] - MadeOn(doc[k], p) + UsedOn(doc[k], p)
               + (IF row.status = "ACTIVE" THEN Produced(row.recipe, p) ELSE 0)
               - (IF row.status = "ACTIVE" THEN Issued(row.recipe, p) ELSE 0)
      PROVE  Even
  <2> SUFFICES ASSUME NEW p \in Goods
               PROVE  stock'[p] + Used(p)' - Made(p)' = stock[p] + Used(p) - Made(p)
    OBVIOUS
  <2>1. /\ Made(p)' = Made(p) - MadeOn(doc[k], p)
                      + IF row.status = "ACTIVE" THEN Produced(row.recipe, p) ELSE 0
        /\ Used(p)' = Used(p) - UsedOn(doc[k], p)
                      + IF row.status = "ACTIVE" THEN Issued(row.recipe, p) ELSE 0
        /\ Made(p) \in Int /\ MadeOn(doc[k], p) \in Nat
        /\ Used(p) \in Int /\ UsedOn(doc[k], p) \in Nat
    BY <1>1, <1>7, RowMakes
  <2>2. stock[p] \in Int
    BY <1>6
  <2>3. Produced(row.recipe, p) \in Nat /\ Issued(row.recipe, p) \in Nat
    BY RecipeAdds DEF OrderRow
  <2>4. QED
    BY <1>7, <2>1, <2>2, <2>3
<1>8. ASSUME NEW step \in {"producing", "recalling", "reverting order", "reworking"}, NEW o \in Orders,
             NEW old, NEW new, Goto(k, step, o), Assigned(k, old, new), UNCHANGED <<orders, stock>>,
             IF step = "producing" THEN orders[o].status = "ABSENT"
             ELSE orders[o].status = "ACTIVE" /\ old = orders[o].recipe
      PROVE  Even /\ CertainOrder(k)' /\ pc'[k] \in OrderSteps
  <2>1. pc'[k] = step /\ doc'[k] = o
    BY <1>1, <1>8 DEF Goto
  <2>2. job'[k].onHand = stock /\ job'[k].old = old
    BY <1>1, <1>8 DEF Assigned
  <2>3. CertainOrder(k)' /\ pc'[k] \in OrderSteps
    BY <1>8, <2>1, <2>2 DEF CertainOrder, OrderSteps
  <2>4. QED
    BY <1>3, <1>8, <2>3
<1>9. ASSUME NEW o \in Orders, OrderBegin(k, o)
      PROVE  Even /\ CertainOrder(k)' /\ pc'[k] \in OrderSteps
  <2>1. UNCHANGED <<orders, stock>>
    BY <1>9 DEF OrderBegin, ProduceBegin, RecallBegin, ReworkBegin, tables
  <2>2. CASE ProduceBegin(k, o)
    <3>1. PICK recipe \in Recipes : Assigned(k, NoRecipe, recipe)
      BY <2>2 DEF ProduceBegin
    <3>2. Goto(k, "producing", o) /\ orders[o].status = "ABSENT"
      BY <2>2 DEF ProduceBegin
    <3>3. QED
      BY <1>8, <2>1, <3>1, <3>2
  <2>3. CASE RecallBegin(k, o)
    <3>1. /\ Goto(k, "recalling", o) /\ orders[o].status = "ACTIVE"
          /\ Assigned(k, orders[o].recipe, NoRecipe)
      BY <2>3 DEF RecallBegin
    <3>2. QED
      BY <1>8, <2>1, <3>1
  <2>4. CASE ReworkBegin(k, o)
    <3>1. PICK recipe \in Recipes : Assigned(k, orders[o].recipe, recipe)
      BY <2>4 DEF ReworkBegin
    <3>2. Goto(k, "reworking", o) /\ orders[o].status = "ACTIVE"
      BY <2>4 DEF ReworkBegin
    <3>3. QED
      BY <1>8, <2>1, <3>1, <3>2
  <2>5. QED
    BY <1>9, <2>2, <2>3, <2>4 DEF OrderBegin
<1>10. CASE ProduceCommit(k)
  <2> DEFINE row == [status |-> "ACTIVE", recipe |-> j.new]
  <2>1. /\ doc[k] \in Orders /\ j.onHand = stock /\ order.status = "ABSENT"
        /\ order \in OrderRow
    BY <1>1, <1>5, <1>10 DEF ProduceCommit, AtOrder, CertainOrder, OrderSteps
  <2>2. row \in OrderRow /\ row.status = "ACTIVE" /\ row.recipe = j.new
    BY <1>5 DEF OrderRow
  <2>3. orders' = [orders EXCEPT ![doc[k]] = row] /\ EndJob(k)
    BY <1>10 DEF ProduceCommit
  <2> HIDE DEF row
  <2>4. \A p \in Goods : MadeOn(doc[k], p) = 0 /\ UsedOn(doc[k], p) = 0
    BY <2>1 DEF MadeOn, UsedOn
  <2>5. \A p \in Goods : stock'[p] =
          IF Listings(j.new.products, p) # {} THEN stock[p] + LastQuantity(j.new.products, p)
          ELSE stock[p] - Issued(j.new, p)
    BY <1>6, <1>10, <2>1 DEF ProduceCommit
  <2>6. \A p \in Goods : stock'[p] = stock[p] + Produced(j.new, p) - Issued(j.new, p)
    BY <1>6, <2>5
  <2>7. \A p \in Goods : stock'[p] = stock[p] - MadeOn(doc[k], p) + UsedOn(doc[k], p)
          + (IF row.status = "ACTIVE" THEN Produced(row.recipe, p) ELSE 0)
          - (IF row.status = "ACTIVE" THEN Issued(row.recipe, p) ELSE 0)
    BY <1>6, <2>2, <2>4, <2>6
  <2>8. Even
    BY <1>7, <2>1, <2>2, <2>3, <2>7
  <2>9. QED
    BY <1>2, <1>4, <2>3, <2>8
<1>11. CASE RecallRead(k)
  <2>1. doc[k] \in Orders /\ order.status = "ACTIVE" /\ j.old = order.recipe
    BY <1>1, <1>11 DEF RecallRead, AtOrder, CertainOrder, OrderSteps
  <2>2. /\ UNCHANGED <<orders, stock>> /\ Assigned(k, j.old, NoRecipe)
        /\ Goto(k, "reverting order", doc[k])
    BY <1>11 DEF RecallRead, tables
  <2>3. QED
    BY <1>2, <1>8, <2>1, <2>2
<1>12. CASE RecallCommit(k)
  <2> DEFINE row == [order EXCEPT !.status = "CANCELED"]
  <2>1. /\ doc[k] \in Orders /\ j.onHand = stock /\ order.status = "ACTIVE"
        /\ j.old = order.recipe /\ order \in OrderRow
    BY <1>1, <1>5, <1>12 DEF RecallCommit, AtOrder, CertainOrder, OrderSteps
  <2>2. row \in OrderRow /\ row.status = "CANCELED"
    BY <2>1 DEF OrderRow
  <2>3. orders' = [orders EXCEPT ![doc[k]] = row] /\ EndJob(k) /\ stock' = Reverted(j.old, stock)
    BY <1>12, <2>1 DEF RecallCommit
  <2> HIDE DEF row
  <2>4. \A p \in Goods : MadeOn(doc[k], p) = Produced(j.old, p)
                         /\ UsedOn(doc[k], p) = Issued(j.old, p)
    BY <2>1 DEF MadeOn, UsedOn
  <2>5. \A p \in Goods : stock'[p] = stock[p] - MadeOn(doc[k], p) + UsedOn(doc[k], p)
          + (IF row.status = "ACTIVE" THEN Produced(row.recipe, p) ELSE 0)
          - (IF row.status = "ACTIVE" THEN Issued(row.recipe, p) ELSE 0)
    BY <1>6, <2>2, <2>3, <2>4
  <2>6. Even
    BY <1>7, <2>1, <2>2, <2>3, <2>5
  <2>7. QED
    BY <1>2, <1>4, <2>3, <2>6
<1>13. CASE ReworkCommit(k)
  <2> DEFINE row == [order EXCEPT !.recipe = j.new]
  <2>1. /\ doc[k] \in Orders /\ j.onHand = stock /\ order.status = "ACTIVE"
        /\ j.old = order.recipe /\ order \in OrderRow
    BY <1>1, <1>5, <1>13 DEF ReworkCommit, AtOrder, CertainOrder, OrderSteps
  <2>2. row \in OrderRow /\ row.status = "ACTIVE" /\ row.recipe = j.new
    BY <1>5, <2>1 DEF OrderRow
  <2>3. orders' = [orders EXCEPT ![doc[k]] = row] /\ EndJob(k)
    BY <1>13 DEF ReworkCommit
  <2> HIDE DEF row
  <2>4. \A p \in Goods : MadeOn(doc[k], p) = Produced(j.old, p)
                         /\ UsedOn(doc[k], p) = Issued(j.old, p)
    BY <2>1 DEF MadeOn, UsedOn
  <2>5. \A p \in Goods : p \notin Touched(j.old) => Reverted(j.old, stock)[p] = stock[p]
    BY <1>1 DEF Reverted
  <2>6. \A p \in Goods : stock'[p] =
          IF Listings(j.new.products, p) = {} THEN Reverted(j.old, stock)[p] - Issued(j.new, p)
          ELSE Produced(j.new, p) + IF p \in Touched(j.old) THEN Reverted(j.old, stock)[p]
                                    ELSE stock[p]
    BY <1>6, <1>13, <2>1 DEF ReworkCommit, Base
  <2> HIDE DEF j
  <2>7. \A p \in Goods : stock'[p] = stock[p] - Produced(j.old, p) + Issued(j.old, p)
                                     + Produced(j.new, p) - Issued(j.new, p)
    BY <1>6, <2>5, <2>6
  <2>8. Even
    BY <1>6, <1>7, <2>1, <2>2, <2>3, <2>4, <2>7
  <2>9. QED
    BY <1>2, <1>4, <2>3, <2>8
<1>14. CASE OrderRefuse(k) \/ OrderFail(k)
  <2>1. UNCHANGED <<orders, stock>> /\ EndJob(k)
    BY <1>14 DEF OrderRefuse, OrderFail, tables
  <2>2. QED
    BY <1>2, <1>3, <1>4, <2>1
<1>15. QED
  BY <1>2, <1>9, <1>10, <1>11, <1>12, <1>13, <1>14
     DEF OrderStart, OrderProceed, OrderDie, OrderContinue

-----------------------------------------------------------------------------
(* What another slot pays for leaves what the keeper has found certain.    *)
LEMMA PayingKeepsCertain ==
  ASSUME NEW k \in Requests, KeeperInv(k), NEW r \in Requests,
         VoucherStart(r) \/ VoucherProceed(r) \/ VoucherDie(r), UNCHANGED <<load, orders, job>>
  PROVE  CertainSale(k)' /\ CertainBill(k)' /\ CertainOrder(k)' /\ ListsKnown' /\ StockBalance'
<1>1. /\ pc \in [Requests -> ShopSteps] /\ doc \in [Requests -> Documents \cup {None}]
      /\ pc[k] \in InvoicingSteps \ {"idle"} => doc[k] \in Invoices
      /\ AtBill(k) /\ ShopTyped
  BY DEF KeeperInv, ShopTyped, TypedWith, HandlersOK, SchemaTypeOK
<1>2. /\ UNCHANGED <<stock, seen>>
      /\ \A i \in Invoices : /\ invoices'[i].lines = invoices[i].lines
                             /\ invoices'[i].status = invoices[i].status
      /\ \A b \in Bills : /\ bills'[b].lines = bills[b].lines
                          /\ bills'[b].status = bills[b].status
                          /\ bills'[b].synced = bills[b].synced
                          /\ bills'[b].edition = bills[b].edition
      /\ \/ UNCHANGED <<pc, doc>>
         \/ \E step \in VoucherSteps : \E d : Goto(r, step, d)
  BY <1>1, VouchersOnlyPay
<1>3. UNCHANGED <<pc[k], doc[k]>> \/ pc'[k] \in VoucherSteps
  BY <1>1, <1>2 DEF Goto
<1>4. ASSUME pc'[k] \in VoucherSteps
      PROVE  CertainSale(k)' /\ CertainBill(k)' /\ CertainOrder(k)'
  BY <1>4 DEF CertainSale, CertainBill, CertainOrder, VoucherSteps, BillSteps, OrderSteps
<1>5. ASSUME pc'[k] = pc[k], doc'[k] = doc[k]
      PROVE  CertainSale(k)' /\ CertainBill(k)' /\ CertainOrder(k)'
  <2>1. CertainSale(k)'
    BY <1>1, <1>2, <1>5 DEF KeeperInv, CertainSale, Editable, InvoicingSteps
  <2>2. CertainBill(k)'
    BY <1>1, <1>2, <1>5 DEF KeeperInv, CertainBill, AtBill, BillSteps
  <2>3. CertainOrder(k)'
    BY <1>2, <1>5 DEF KeeperInv, CertainOrder
  <2>4. QED
    BY <2>1, <2>2, <2>3
<1>6. ListsKnown'
  BY <1>2 DEF KeeperInv, ListsKnown
<1>7. StockBalance'
  <2>1. /\ \A p : Held(p)' = Held(p) /\ Supplied(p)' = Supplied(p)
        /\ \A p : Made(p)' = Made(p) /\ Used(p)' = Used(p)
    BY <1>2, HeldStays, SuppliedStays, MadeStays
  <2>2. QED
    BY <1>2, <2>1 DEF KeeperInv, StockBalance
<1>8. QED
  BY <1>3, <1>4, <1>5, <1>6, <1>7

(* A step of a handler of one request leaves the others where they are.    *)
LEMMA OnlyOwnStep ==
  ASSUME NEW r \in Requests, pc \in [Requests -> ShopSteps],
         \/ InvoiceBegin(r) \/ InvoiceContinue(r) \/ InvoiceFail(r)
         \/ BillStart(r) \/ BillProceed(r) \/ BillDie(r)
         \/ OrderStart(r) \/ OrderProceed(r) \/ OrderDie(r)
  PROVE  \A s \in Requests \ {r} : pc'[s] = pc[s]
<1>1. UNCHANGED pc \/ \E step : \E d : Goto(r, step, d)
  <2>1. CASE InvoiceBegin(r) \/ InvoiceContinue(r) \/ InvoiceFail(r)
    BY <2>1 DEF InvoiceBegin, InvoiceContinue, InvoiceFail, Begin, Continue, Fail, Refuse,
         CreateInvoice, PublishBegin, CancelBegin, UpdateBegin, DeleteBegin, Reserve, LockRead,
         LockCommit, RollbackRead, RollbackCommit, CancelCommit, UpdateDetails, UpdateHeader,
         DeleteCommit, Respond
  <2>2. CASE BillStart(r) \/ BillProceed(r) \/ BillDie(r)
    BY <2>2 DEF BillStart, BillProceed, BillDie, BillBegin, BillContinue, BillFail, BillRefuse,
         RegisterBegin, SyncBegin, ReviseBegin, VoidBegin, DiscardBegin, RegisterCommit, SyncCommit,
         ReviseRead, ReviseCommit, VoidCommit, DiscardCommit, GoIdle, Respond
  <2>3. CASE OrderStart(r) \/ OrderProceed(r) \/ OrderDie(r)
    BY <2>3 DEF OrderStart, OrderProceed, OrderDie, OrderBegin, OrderContinue, OrderFail,
         OrderRefuse, ProduceBegin, RecallBegin, ReworkBegin, ProduceCommit, RecallRead,
         RecallCommit, ReworkCommit, EndJob, Respond
  <2>4. QED
    BY <2>1, <2>2, <2>3
<1>2. QED
  BY <1>1 DEF Goto

(* One step of the keeper, as far as the balance goes.                     *)
BalanceInt ==
  \A p \in Goods : /\ stock[p] \in Int /\ Opening[p] \in Int /\ Held(p) \in Int
                   /\ Supplied(p) \in Int /\ Made(p) \in Int /\ Used(p) \in Int

LEMMA BalanceInts == ShopTyped => BalanceInt
BY BalanceTypes DEF BalanceInt

LEMMA KeeperBalances ==
  ASSUME NoRestock, ListedOnce, NEW k \in Requests, KeeperInv(k),
         \/ /\ InvoiceBegin(k) \/ InvoiceContinue(k) \/ InvoiceFail(k)
            /\ UNCHANGED <<load, orders, job>>
         \/ BillStart(k) \/ BillProceed(k) \/ BillDie(k)
         \/ OrderStart(k) \/ OrderProceed(k) \/ OrderDie(k)
  PROVE  CertainSale(k)' /\ CertainBill(k)' /\ CertainOrder(k)' /\ ListsKnown' /\ StockBalance'
<1>1. BalanceInt /\ StockBalance
  BY BalanceInts DEF KeeperInv
<1>2. ShopTyped'
  BY BillHandlerTypes, OrderHandlerTypes, SettlementHandlerTypes DEF KeeperInv
<1>3. BalanceInt'
  <2>1. (ShopTyped => BalanceInt)'
    BY BalanceInts, PTL
  <2>2. QED
    BY <1>2, <2>1
<1>4. CASE /\ InvoiceBegin(k) \/ InvoiceContinue(k) \/ InvoiceFail(k)
           /\ UNCHANGED <<load, orders, job>>
  <2>1. /\ CertainSale(k)' /\ pc'[k] \in InvoicingSteps /\ UNCHANGED bills
        /\ \A p \in Goods : stock'[p] + Held(p)' = stock[p] + Held(p)
    BY <1>4, KeeperSells
  <2>2. CertainBill(k)' /\ CertainOrder(k)'
    BY <2>1 DEF CertainBill, CertainOrder, InvoicingSteps, BillSteps, OrderSteps
  <2>3. /\ \A p : Supplied(p)' = Supplied(p)
        /\ \A p : Made(p)' = Made(p) /\ Used(p)' = Used(p)
    BY <1>4, <2>1, SuppliedStays, MadeStays
  <2>4. StockBalance'
    BY <1>1, <1>3, <2>1, <2>3 DEF StockBalance, BalanceInt
  <2>5. QED
    BY <2>1, <2>2, <2>4 DEF KeeperInv, ListsKnown
<1>5. CASE BillStart(k) \/ BillProceed(k) \/ BillDie(k)
  <2>1. /\ CertainBill(k)' /\ pc'[k] \in BillSteps /\ ListsKnown' /\ UNCHANGED <<invoices, orders>>
        /\ \A p \in Goods : stock'[p] - Supplied(p)' = stock[p] - Supplied(p)
    BY <1>5, KeeperBuys
  <2>2. CertainSale(k)' /\ CertainOrder(k)'
    BY <2>1 DEF CertainSale, CertainOrder, BillSteps, OrderSteps
  <2>3. /\ \A p : Held(p)' = Held(p)
        /\ \A p : Made(p)' = Made(p) /\ Used(p)' = Used(p)
    BY <2>1, HeldStays, MadeStays
  <2>4. StockBalance'
    <3> SUFFICES ASSUME NEW p \in Goods
                 PROVE  (stock[p] + Held(p) + Used(p) = Opening[p] + Supplied(p) + Made(p))'
      BY DEF StockBalance
    <3>1. /\ stock[p] \in Int /\ Opening[p] \in Int /\ Held(p) \in Int
          /\ Supplied(p) \in Int /\ Made(p) \in Int /\ Used(p) \in Int
          /\ stock[p] + Held(p) + Used(p) = Opening[p] + Supplied(p) + Made(p)
      BY <1>1 DEF StockBalance, BalanceInt
    <3>2. /\ stock'[p] \in Int /\ Held(p)' \in Int
          /\ Supplied(p)' \in Int /\ Made(p)' \in Int /\ Used(p)' \in Int
      BY <1>3 DEF BalanceInt
    <3>3. /\ stock'[p] - Supplied(p)' = stock[p] - Supplied(p)
          /\ Held(p)' = Held(p) /\ Made(p)' = Made(p) /\ Used(p)' = Used(p)
      BY <2>1, <2>3
    <3> DEFINE a == stock[p]
               b == stock'[p]
               h == Held(p)
               u == Used(p)
               n == Opening[p]
               m == Made(p)
               x == Supplied(p)
               y == Supplied(p)'
    <3>4. /\ a \in Int /\ b \in Int /\ h \in Int /\ u \in Int
          /\ n \in Int /\ x \in Int /\ y \in Int /\ m \in Int
      BY <3>1, <3>2
    <3>5. b - y = a - x /\ a + h + u = n + x + m
      BY <3>1, <3>3
    <3> HIDE DEF a, b, h, u, n, m, x, y
    <3>6. b + h + u = n + y + m
      BY <3>4, <3>5
    <3>7. QED
      BY <3>3, <3>6 DEF b, h, u, n, m, y
  <2>5. QED
    BY <2>1, <2>2, <2>4
<1>6. CASE OrderStart(k) \/ OrderProceed(k) \/ OrderDie(k)
  <2>1. /\ CertainOrder(k)' /\ pc'[k] \in OrderSteps /\ UNCHANGED <<invoices, bills>>
        /\ \A p \in Goods : stock'[p] + Used(p)' - Made(p)' = stock[p] + Used(p) - Made(p)
    BY <1>6, KeeperMakes
  <2>2. CertainSale(k)' /\ CertainBill(k)'
    BY <2>1 DEF CertainSale, CertainBill, BillSteps, OrderSteps
  <2>3. \A p : Held(p)' = Held(p) /\ Supplied(p)' = Supplied(p)
    BY <2>1, HeldStays, SuppliedStays
  <2>4. StockBalance'
    <3> SUFFICES ASSUME NEW p \in Goods
                 PROVE  (stock[p] + Held(p) + Used(p) = Opening[p] + Supplied(p) + Made(p))'
      BY DEF StockBalance
    <3>1. /\ stock[p] \in Int /\ Opening[p] \in Int /\ Held(p) \in Int
          /\ Supplied(p) \in Int /\ Made(p) \in Int /\ Used(p) \in Int
          /\ stock[p] + Held(p) + Used(p) = Opening[p] + Supplied(p) + Made(p)
      BY <1>1 DEF StockBalance, BalanceInt
    <3>2. /\ stock'[p] \in Int /\ Held(p)' \in Int
          /\ Supplied(p)' \in Int /\ Made(p)' \in Int /\ Used(p)' \in Int
      BY <1>3 DEF BalanceInt
    <3>3. QED
      BY <2>1, <2>3, <3>1, <3>2
  <2>5. QED
    BY <2>1, <2>2, <2>4 DEF KeeperInv, ListsKnown
<1>7. QED
  BY <1>4, <1>5, <1>6

(* And one step of anyone.                                                 *)
LEMMA OneKeeperStep ==
  ASSUME NoRestock, ListedOnce, NEW k \in Requests,
         \A r \in Requests \ {k} : Permits[r] \subseteq VoucherOps \X Documents,
         KeeperInv(k), [InventoryNext]_shopVars
  PROVE  KeeperInv(k)'
<1>1. ShopTyped' /\ pc \in [Requests -> ShopSteps] /\ \A s \in Requests \ {k} : pc[s] \in VoucherSteps
  BY StepShopTypes DEF KeeperInv, ShopTyped, TypedWith, HandlersOK, SchemaTypeOK
<1>2. CASE UNCHANGED shopVars
  <2>1. UNCHANGED <<stock, invoices, bills, orders, pc, doc, seen, load, job>>
    BY <1>2 DEF shopVars, allVars, vars, tables
  <2>2. /\ \A p : Held(p)' = Held(p) /\ Supplied(p)' = Supplied(p)
        /\ \A p : Made(p)' = Made(p) /\ Used(p)' = Used(p)
    BY <2>1, HeldStays, SuppliedStays, MadeStays
  <2>3. StockBalance'
    BY <2>1, <2>2 DEF KeeperInv, StockBalance
  <2>4. QED
    BY <1>1, <2>1, <2>3 DEF KeeperInv, CertainSale, CertainBill, CertainOrder, ListsKnown, Editable
<1>3. ASSUME NEW r \in Requests, VoucherStart(r) \/ VoucherProceed(r) \/ VoucherDie(r),
             UNCHANGED <<load, orders, job>>
      PROVE  KeeperInv(k)'
  <2>1. CertainSale(k)' /\ CertainBill(k)' /\ CertainOrder(k)' /\ ListsKnown' /\ StockBalance'
    BY <1>3, PayingKeepsCertain
  <2>2. UNCHANGED pc \/ \E step \in VoucherSteps : \E d : Goto(r, step, d)
    BY <1>3, VouchersOnlyPay DEF KeeperInv
  <2>3. \A s \in Requests \ {k} : pc'[s] \in VoucherSteps
    BY <1>1, <2>2 DEF Goto
  <2>4. QED
    BY <1>1, <2>1, <2>3 DEF KeeperInv
<1>4. ASSUME NEW r \in Requests,
             \/ /\ InvoiceBegin(r) \/ InvoiceContinue(r) \/ InvoiceFail(r)
                /\ UNCHANGED <<load, orders, job>>
             \/ BillStart(r) \/ BillProceed(r) \/ BillDie(r)
             \/ OrderStart(r) \/ OrderProceed(r) \/ OrderDie(r)
      PROVE  KeeperInv(k)'
  <2>1. r = k
    BY <1>4, OnlyKeeper
  <2>2. CertainSale(k)' /\ CertainBill(k)' /\ CertainOrder(k)' /\ ListsKnown' /\ StockBalance'
    BY <1>4, <2>1, KeeperBalances
  <2>3. \A s \in Requests \ {r} : pc'[s] = pc[s]
    BY <1>1, <1>4, OnlyOwnStep
  <2>4. QED
    BY <1>1, <2>1, <2>2, <2>3 DEF KeeperInv
<1>5. QED
  BY <1>2, <1>3, <1>4 DEF InventoryNext, SettlementNext, shopVars

LEMMA InitBalances ==
  ASSUME InventoryInit, NEW k \in Requests
  PROVE  KeeperInv(k)
<1>1. ShopTyped /\ \A r \in Requests : pc[r] = "idle"
  BY InitShopTypes DEF InventoryInit, SettlementInit, Init, SchemaInit
<1>2. /\ stock = Opening /\ \A b \in Bills : bills[b] = NoBill
      /\ \A i \in Invoices : invoices[i] = NoInvoice
      /\ \A o \in Orders : orders[o] = NoOrder
  BY DEF InventoryInit, SettlementInit, Init, SchemaInit
<1>3. \A p \in Goods : Held(p) = 0 /\ Supplied(p) = 0 /\ Made(p) = 0 /\ Used(p) = 0
  <2>1. {i \in Invoices : Holding(i)} = {}
    BY <1>2 DEF Holding, NoInvoice
  <2>2. {b \in Bills : bills[b].status = "ACTIVE" /\ bills[b].synced} = {}
    BY <1>2 DEF NoBill
  <2>3. InForce = {}
    BY <1>2 DEF InForce, NoOrder
  <2>4. QED
    BY <2>1, <2>2, <2>3, SumEmpty DEF Held, Supplied, Made, Used
<1>4. StockBalance
  <2>1. \A p \in Goods : stock[p] \in Int
    BY <1>1, BalanceInts DEF BalanceInt
  <2>2. QED
    BY <1>2, <1>3, <2>1 DEF StockBalance
<1>5. ListsKnown
  BY <1>2 DEF ListsKnown, NoBill
<1>6. CertainSale(k) /\ CertainBill(k) /\ CertainOrder(k)
  BY <1>1 DEF CertainSale, CertainBill, CertainOrder, BillSteps, OrderSteps
<1>7. QED
  BY <1>1, <1>4, <1>5, <1>6 DEF KeeperInv, VoucherSteps

LEMMA KeeperKeeps ==
  ASSUME NoRestock, ListedOnce, NEW k \in Requests,
         \A r \in Requests \ {k} : Permits[r] \subseteq VoucherOps \X Documents
  PROVE  InventorySpec => []KeeperInv(k)
<1>1. KeeperInv(k) /\ [InventoryNext]_shopVars => KeeperInv(k)'
  BY OneKeeperStep
<1>2. InventoryInit => KeeperInv(k)
  BY InitBalances
<1>3. QED
  BY <1>1, <1>2, PTL DEF InventorySpec

(* With one keeper, whatever the others pay and get back meanwhile, the    *)
(* stock book (S05) is straight: each good on the shelf, with those held   *)
(* by invoices and used by orders, was there at the opening, came with a   *)
(* synced bill in force or was made by an order in force.  Without         *)
(* NoRestock an update that syncs a canceled bill unbalances it, and       *)
(* without ListedOnce a good that is listed twice.                         *)
THEOREM StockBalances ==
  OneKeeper /\ NoRestock /\ ListedOnce => (InventorySpec => []StockBalance)
<1> SUFFICES ASSUME OneKeeper, NoRestock, ListedOnce
             PROVE  InventorySpec => []StockBalance
  OBVIOUS
<1>1. PICK k \in Requests : \A r \in Requests \ {k} : Permits[r] \subseteq VoucherOps \X Documents
  BY DEF OneKeeper
<1>2. InventorySpec => []KeeperInv(k)
  BY <1>1, KeeperKeeps
<1>3. KeeperInv(k) => StockBalance
  BY DEF KeeperInv
<1>4. QED
  BY <1>2, <1>3, PTL
=============================================================================
