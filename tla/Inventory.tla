----------------------------- MODULE Inventory -----------------------------
(***************************************************************************)
(* Goods come in with bills, are made by production orders and leave with  *)
(* invoices, and vouchers pay for what is bought and sold: the requests of *)
(* Settlement, Inbound and Production interleave on the same shelf.        *)
(***************************************************************************)
EXTENDS Settlement, Inbound, Production

shopVars == <<allVars, load, orders, job>>

(* Every transaction of these services inserts an audit row, whose foreign *)
(* key waits while another one holds the user's row; only handing back the *)
(* goods of a refused invoice inserts none.                                *)
UserRowFree ==
  UserLocked =>
    \/ UNCHANGED <<tables, orders>>
    \/ \E r \in Requests : pc[r] \in {"reworking", "rollingBack"} /\ pc'[r] = "idle"

BillStart(r)   == (\E b \in Bills : BillBegin(r, b)) /\ UNCHANGED <<seen, task, orders, job>>
BillProceed(r) == BillContinue(r) /\ VouchersFree(r) /\ UNCHANGED <<seen, task, orders, job>>
BillDie(r)     == BillFail(r) /\ UNCHANGED <<seen, task, orders, job>>

OrderStart(r)   == (\E o \in Orders : OrderBegin(r, o)) /\ UNCHANGED <<seen, task, load>>
OrderProceed(r) == OrderContinue(r) /\ UNCHANGED <<seen, task, load>>
OrderDie(r)     == OrderFail(r) /\ UNCHANGED <<seen, task, load>>

InventoryInit ==
  /\ SettlementInit
  /\ load = [r \in Requests |-> NoLoad]
  /\ orders = [o \in Orders |-> NoOrder]
  /\ job = [r \in Requests |-> NoJob]

InventoryNext ==
  /\ \/ SettlementNext /\ UNCHANGED <<load, orders, job>>
     \/ \E r \in Requests :
          \/ BillStart(r)
          \/ BillProceed(r)
          \/ BillDie(r)
          \/ OrderStart(r)
          \/ OrderProceed(r)
          \/ OrderDie(r)
  /\ UserRowFree

InventorySpec == InventoryInit /\ [][InventoryNext]_shopVars

-----------------------------------------------------------------------------
(* All rows and sessions have their types. *)
InventoryTypeOK ==
  /\ SchemaTypeOK(InvoicingSteps \cup VoucherSteps \cup BillSteps \cup OrderSteps)
  /\ seen \in [Requests -> InvoiceRow]
  /\ TaskTypeOK
  /\ LoadTypeOK
  /\ JobTypeOK

Supplied(p) ==
  SumFunctionOnSet([b \in Bills |-> Quantity(bills[b].lines, p)],
                   {b \in Bills : bills[b].status = "ACTIVE" /\ bills[b].synced})

InForce == {o \in Orders : orders[o].status = "ACTIVE"}
Made(p) == SumFunctionOnSet([o \in Orders |-> Produced(orders[o].recipe, p)], InForce)
Used(p) == SumFunctionOnSet([o \in Orders |-> Issued(orders[o].recipe, p)], InForce)

(* One keeper: whatever moves goods is asked for by the clients of one     *)
(* slot, which waits for its answers; the other slots are paid and pay.    *)
OneKeeper ==
  \E keeper \in Requests :
    \A r \in Requests \ {keeper} : Permits[r] \subseteq VoucherOps \X Documents

(* No update of a bill syncs it: one of a canceled bill would.             *)
NoRestock == \A r \in Requests, b \in Bills : <<"restock", b>> \notin Permits[r]

(* No list names a good twice: only its last listing would reach the shelf.*)
ListedOnce ==
  /\ \A items \in Deliveries, p \in Goods : Cardinality(Listings(items, p)) <= 1
  /\ \A recipe \in Recipes : NoRepeats(recipe)

(* What is on the shelf is what was there, plus the goods of the bills in  *)
(* force that are synced and the products of the orders in force, minus    *)
(* the goods of the invoices sent or issued and the materials of those     *)
(* orders: registering, syncing, voiding, publishing, canceling, making,   *)
(* remaking, recalling, refused and dying requests all keep the stock book *)
(* (S05) straight.                                                         *)
StockBalance ==
  \A p \in Goods : stock[p] + Held(p) + Used(p) = Opening[p] + Supplied(p) + Made(p)

(* A canceled production order is final: an update that began before or    *)
(* after the cancellation does not change its details (the order is not    *)
(* locked, but the user's row is).                                         *)
CanceledOrderFinal ==
  [][\A o \in Orders : orders[o].status = "CANCELED" => orders'[o] = orders[o]]_shopVars
=============================================================================
