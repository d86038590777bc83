----------------------------- MODULE MCInvoicing -----------------------------
(***************************************************************************)
(* Small instances of Invoicing: two goods and a service, invoices that    *)
(* compete for scarce units of them.                                       *)
(***************************************************************************)
EXTENDS Invoicing, TLC

CONSTANTS a, b, c, i1, i2, pen, ink, repair

Bag(x, y, z) == (pen :> x) @@ (ink :> y) @@ (repair :> z)

AllProducts == {pen, ink, repair}
TwoGoods == {pen, ink}
OpeningStock == Bag(2, 1, 0)
SomeStock == Bag(3, 2, 0)

(* Two pens; a pen, an ink and a repair: either empties part of the shelf. *)
TwoBaskets == {Bag(2, 0, 0), Bag(1, 1, 1)}
LineTotals == [l \in Lines |-> 2 * l[pen] + 3 * l[ink] + 5 * l[repair]]

(* Nothing is bought. *)
NoCosts == [d \in Deliveries |-> 0]

(* One client per invoice publishes and edits it; a third slot may cancel. *)
SerialPermits == (a :> (InvoiceOps \X {i1})) @@ (b :> (InvoiceOps \X {i2}))
                 @@ (c :> ({"cancel"} \X {i1, i2}))

(* Slots that may do anything to the same invoices. *)
RacingPermits == [r \in Requests |-> InvoiceOps \X Invoices]

(* Slots that race to publish and cancel what the first of them writes. *)
PublishRacePermits ==
  [r \in Requests |-> ((IF r = a THEN {"create"} ELSE {}) \cup {"publish", "cancel"}) \X Invoices]

ASSUME SerialIsSerialized == Requests = {a, b, c} => (Permits = SerialPermits => Serialized)

ASSUME PublishRacesEditNothing == Permits = PublishRacePermits => NoEdits
=============================================================================
