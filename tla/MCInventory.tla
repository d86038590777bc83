---------------------------- MODULE MCInventory ----------------------------
(***************************************************************************)
(* Small instances of Inventory: one good and a service, bills that bring  *)
(* in one or two units, an invoice that sells one or two.                  *)
(***************************************************************************)
EXTENDS Inventory, TLC

CONSTANTS a, b, c, i1, b1, b2, v1, o1, pen, ink, repair

Basket(pens, repairs) == [p \in Products |-> IF p = pen THEN pens ELSE IF p = repair THEN repairs ELSE 0]
OneOrTwoPens == {Basket(1, 1), Basket(2, 0)}
PenWorth == [l \in Lines |-> 3 * l[pen] + l[repair]]
OnePenLeft == [p \in Products |-> IF p = pen THEN 1 ELSE IF p = ink THEN 2 ELSE 0]

Listing(p, n) == [product |-> p, quantity |-> n]

(* Two pens; or one, with a repair. *)
PenDeliveries == {<<Listing(pen, 2)>>, <<Listing(repair, 1), Listing(pen, 1)>>}
DeliveryCost == [d \in Deliveries |-> 2 * Quantity(d, pen) + Quantity(d, repair)]

(* One ink fills one or two pens; or a pen is taken to pieces. *)
FillPens(n) == [materials |-> <<Listing(ink, 1)>>, products |-> <<Listing(pen, n)>>]
EmptyPen == [materials |-> <<Listing(pen, 1)>>, products |-> <<Listing(ink, 1)>>]
PenRecipes == {FillPens(1), FillPens(2), EmptyPen}

Selling == {"create", "publish", "cancel"}
Buying == {"register", "sync", "revise", "void", "discard"}

(* One slot buys, makes and sells; the other pays. *)
OneKeeperPermits ==
  [r \in Requests |->
     IF r = a THEN (Selling \X Invoices) \cup (Buying \X Bills) \cup (OrderOps \X Orders)
              ELSE {"collect", "revoke"} \X Vouchers]

ASSUME OneKeeperKeeps ==
  Permits = OneKeeperPermits => OneKeeper /\ NoRestock /\ NoLinking /\ Serialized

ASSUME PensListedOnce == ListedOnce

(* All slots buy, make and sell, and sync by an update as well. *)
KeepersPermits ==
  [r \in Requests |-> (Selling \X Invoices) \cup (BillOps \X Bills) \cup (OrderOps \X Orders)]
=============================================================================
