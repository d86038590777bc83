---------------------------- MODULE MCSettlement ----------------------------
(***************************************************************************)
(* Small instances of Settlement: one good, invoices worth three and two   *)
(* vouchers of one or two units of money.                                  *)
(***************************************************************************)
EXTENDS Settlement

CONSTANTS a, b, i1, i2, v1, v2, pen

OnePen == {[p \in Products |-> 1]}
OneOrTwoPens == {[p \in Products |-> 1], [p \in Products |-> 2]}
PenWorth == [l \in Lines |-> 3 * l[pen]]
PlentyPens == [p \in Products |-> 3]

NoCosts == [d \in Deliveries |-> 0]

Paying == {"collect", "amend", "revoke", "remove"}

(* One slot writes, edits, deletes and publishes invoices; both cancel     *)
(* them, and write, edit, cancel and remove vouchers, which are linked     *)
(* when they are written.                                                  *)
EditPermits ==
  [r \in Requests |-> (IF r = a THEN InvoiceOps ELSE {"cancel"}) \X Invoices
                      \cup (Paying \X Vouchers)]

ASSUME EditsLinkNothing == Permits = EditPermits => NoLinking /\ Serialized

(* Vouchers that are written already are linked as well, and no invoice is *)
(* edited.                                                                 *)
LinkPermits ==
  [r \in Requests |-> (IF r = a THEN {"create", "publish", "cancel"} ELSE {"cancel"}) \X Invoices
                      \cup (VoucherOps \X Vouchers)]

ASSUME LinksEditNothing == Permits = LinkPermits => NoEdits /\ NothingFree
=============================================================================
