----------------------------- MODULE Production -----------------------------
(***************************************************************************)
(* Internal production orders                                              *)
(* (src/internal-production-orders/internal-production-orders.service.ts): *)
(* an order takes materials off the shelf and puts products on it; it may  *)
(* be rewritten, which reverts its old details and applies the new ones,   *)
(* or recalled, which reverts them.  Materials leave by a conditional      *)
(* decrement; everything else is written as a value computed from a read.  *)
(***************************************************************************)
EXTENDS ItemLists

CONSTANT Recipes   \* the materials and products an order may be written with

Recipe == [materials : Seq(Item), products : Seq(Item)]

(* Services are neither issued nor received. *)
ASSUME RecipeAssumption ==
  /\ Recipes \subseteq Recipe
  /\ \A recipe \in Recipes :
       /\ recipe.materials # <<>> /\ recipe.products # <<>>
       /\ \A k \in DOMAIN recipe.materials : recipe.materials[k].product \in Goods
       /\ \A k \in DOMAIN recipe.products : recipe.products[k].product \in Goods

VARIABLES
  orders,   \* table internal_production_orders with its production_details
  job       \* what a request on an order read, and what it was sent

OrderSteps == {"idle", "producing", "recalling", "reverting order", "reworking"}

NoRecipe == [materials |-> <<>>, products |-> <<>>]
NoOrder  == [status |-> "ABSENT", recipe |-> NoRecipe]
OrderRow == [status : {"ABSENT", "ACTIVE", "CANCELED"}, recipe : Recipes \cup {NoRecipe}]

(* old: the details to revert; new: those to apply; onHand: the stock read. *)
NoJob == [old |-> NoRecipe, new |-> NoRecipe, onHand |-> Opening]

Assigned(r, old, new) ==
  job' = [job EXCEPT ![r] = [old |-> old, new |-> new, onHand |-> stock]]

EndJob(r) ==
  /\ Respond(r)
  /\ job' = [job EXCEPT ![r] = NoJob]

Issued(recipe, p)   == Quantity(recipe.materials, p)
Produced(recipe, p) == Quantity(recipe.products, p)
Touched(recipe) ==
  {p \in Goods : Listings(recipe.materials, p) \cup Listings(recipe.products, p) # {}}

(* An update refuses lists in which a product occurs twice; create does not. *)
NoRepeats(recipe) ==
  \A p \in Goods :
    Cardinality(Listings(recipe.materials, p)) + Cardinality(Listings(recipe.products, p)) <= 1

(* A plausible mistake: the update does not lock the user's row. *)
NobodyLocksUser == FALSE

(* An update holds the user's row FOR UPDATE from its first statement on;  *)
(* a creation locks it too, and waits for it.                              *)
UserLocked == \E s \in Requests : pc[s] = "reworking"

-----------------------------------------------------------------------------
(* create: the products are read before the transaction, and each material *)
(* must suffice for its quantity ...                                       *)
ProduceBegin(r, o) ==
  /\ Accept(r, "produce", o)
  /\ orders[o].status = "ABSENT" /\ \A s \in Requests : doc[s] # o
  /\ \E recipe \in Recipes :
       /\ \A k \in DOMAIN recipe.materials :
            recipe.materials[k].quantity <= stock[recipe.materials[k].product]
       /\ Assigned(r, NoRecipe, recipe)
  /\ Goto(r, "producing", o)
  /\ UNCHANGED <<tables, orders>>

(* ... then, with the user's row locked, the materials are decremented     *)
(* where the stock still suffices, the last listing of a product writes    *)
(* its quantity on top of the stock read, and the order is inserted.       *)
CanProduce(r) == \A p \in Goods : Issued(job[r].new, p) <= stock[p]

ProduceCommit(r) ==
  /\ pc[r] = "producing"
  /\ ~UserLocked
  /\ CanProduce(r)
  /\ stock' = [p \in Products |->
       IF Listings(job[r].new.products, p) # {}
       THEN job[r].onHand[p] + LastQuantity(job[r].new.products, p)
       ELSE stock[p] - Issued(job[r].new, p)]
  /\ orders' = [orders EXCEPT ![doc[r]] = [status |-> "ACTIVE", recipe |-> job[r].new]]
  /\ EndJob(r)
  /\ UNCHANGED <<invoices, bills, vouchers, revenue, served>>

-----------------------------------------------------------------------------
(* What reverting details does to the stock that was read: products leave, *)
(* where there are enough of them, and materials come back.                *)
Revertible(old, onHand) == \A p \in Goods : Produced(old, p) <= onHand[p]

Reverted(old, onHand) ==
  [p \in Products |-> IF p \in Touched(old)
                      THEN onHand[p] - Produced(old, p) + Issued(old, p)
                      ELSE stock[p]]

(* cancel: the order is read, and must not be canceled, ... *)
RecallBegin(r, o) ==
  /\ Accept(r, "recall", o)
  /\ orders[o].status = "ACTIVE"
  /\ Assigned(r, orders[o].recipe, NoRecipe)
  /\ Goto(r, "recalling", o)
  /\ UNCHANGED <<tables, orders>>

(* ... the stock of each product is read ... *)
RecallRead(r) ==
  /\ pc[r] = "recalling"
  /\ Revertible(job[r].old, stock)
  /\ Assigned(r, job[r].old, NoRecipe)
  /\ Goto(r, "reverting order", doc[r])
  /\ UNCHANGED <<tables, orders, served>>

(* ... and written back, and the order is canceled, whatever it is by now. *)
RecallCommit(r) ==
  /\ pc[r] = "reverting order"
  /\ stock' = Reverted(job[r].old, job[r].onHand)
  /\ orders' = [orders EXCEPT ![doc[r]].status = "CANCELED"]
  /\ EndJob(r)
  /\ UNCHANGED <<invoices, bills, vouchers, revenue, served>>

-----------------------------------------------------------------------------
(* update: with the user's row locked, the order is read, its old details  *)
(* are reverted and the stock that the new ones need is tested ...         *)
ReworkBegin(r, o) ==
  /\ Accept(r, "rework", o)
  /\ ~UserLocked
  /\ orders[o].status = "ACTIVE"
  /\ Revertible(orders[o].recipe, stock)
  /\ \E recipe \in Recipes :
       /\ NoRepeats(recipe)
       /\ \A p \in Goods : Issued(recipe, p) <= Reverted(orders[o].recipe, stock)[p]
       /\ Assigned(r, orders[o].recipe, recipe)
  /\ Goto(r, "reworking", o)
  /\ UNCHANGED <<tables, orders>>

(* ... and the new details are applied: materials by a decrement on the    *)
(* row as it is by now, products on top of the stock that was read.        *)
Base(r) == Reverted(job[r].old, job[r].onHand)

CanRework(r) == \A p \in Goods : Issued(job[r].new, p) <= Base(r)[p]

ReworkCommit(r) ==
  /\ pc[r] = "reworking"
  /\ CanRework(r)
  /\ stock' = [p \in Products |->
       IF Listings(job[r].new.products, p) = {} THEN Base(r)[p] - Issued(job[r].new, p)
       ELSE Produced(job[r].new, p)
            + IF p \in Touched(job[r].old) THEN Base(r)[p] ELSE job[r].onHand[p]]
  /\ orders' = [orders EXCEPT ![doc[r]].recipe = job[r].new]
  /\ EndJob(r)
  /\ UNCHANGED <<invoices, bills, vouchers, revenue, served>>

-----------------------------------------------------------------------------
(* An exception ends the request and rolls its transaction back. *)
OrderRefuse(r) ==
  /\ \/ pc[r] = "producing" /\ ~UserLocked /\ ~CanProduce(r)
     \/ pc[r] = "recalling" /\ ~Revertible(job[r].old, stock)
     \/ pc[r] = "reworking" /\ ~CanRework(r)
  /\ EndJob(r)
  /\ UNCHANGED <<tables, orders, served>>

(* The process crashes, a connection drops, a deadlock has its victim. *)
OrderFail(r) ==
  /\ MayFail
  /\ pc[r] \in OrderSteps \ {"idle"}
  /\ EndJob(r)
  /\ UNCHANGED <<tables, orders, served>>

OrderBegin(r, o) ==
  \/ ProduceBegin(r, o)
  \/ RecallBegin(r, o)
  \/ ReworkBegin(r, o)

OrderContinue(r) ==
  \/ ProduceCommit(r)
  \/ RecallRead(r)
  \/ RecallCommit(r)
  \/ ReworkCommit(r)
  \/ OrderRefuse(r)

JobTypeOK ==
  /\ orders \in [Orders -> OrderRow]
  /\ job \in [Requests -> [old : Recipes \cup {NoRecipe}, new : Recipes \cup {NoRecipe},
                           onHand : [Products -> Int]]]
=============================================================================
