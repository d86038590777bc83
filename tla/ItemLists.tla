----------------------------- MODULE ItemLists -----------------------------
(***************************************************************************)
(* Lists of products and quantities, as inbound invoices and production    *)
(* orders carry them; a product may be listed more than once.              *)
(***************************************************************************)
EXTENDS Schema, FiniteSetsExt

Listings(items, p) == {k \in DOMAIN items : items[k].product = p}

Quantity(items, p) ==
  SumFunctionOnSet([k \in DOMAIN items |-> items[k].quantity], Listings(items, p))

(* The quantity of the last listing, the one a loop of writes leaves.      *)
LastQuantity(items, p) == items[Max(Listings(items, p))].quantity
=============================================================================
