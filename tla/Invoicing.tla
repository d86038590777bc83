------------------------------ MODULE Invoicing ------------------------------
(***************************************************************************)
(* Outbound invoices (src/invoices/invoices.service.ts): a draft is        *)
(* published in three phases (reserve the stock, ask the tax authority for *)
(* a code, book the revenue or put the stock back), edited, deleted or     *)
(* canceled, by requests that interleave between their database            *)
(* statements and that may die at any of them.                             *)
(***************************************************************************)
EXTENDS Schema, FiniteSetsExt

VARIABLE seen   \* the invoice row a request read and still relies on

vars == <<tables, pc, doc, served, seen>>

InvoicingSteps == {"idle", "publishing", "awaiting", "locking", "rollingBack",
                   "updating", "deleting", "canceling"}

Remember(r, i) == seen' = [seen EXCEPT ![r] = invoices[i]]
Forget(r)      == seen' = [seen EXCEPT ![r] = NoInvoice]

SetStatus(i, s) == invoices' = [invoices EXCEPT ![i].status = s]

-----------------------------------------------------------------------------
(* Plausible mistakes: forms of the definitions below that a slip in the   *)
(* code would give them, each caught by a property of a run.               *)

(* The edit replaces the details and leaves the total of the header. *)
UpdateDetailsOnly(r) ==
  /\ pc[r] = "updating"
  /\ Exists(doc[r])
  /\ \E b \in Baskets : InStock(b) /\ invoices' = [invoices EXCEPT ![doc[r]].lines = b]
  /\ Respond(r)
  /\ Forget(r)
  /\ UNCHANGED <<bills, vouchers, stock, revenue, served>>

(* The decrement without its condition currentStock >= quantity. *)
CanReserveUnconditionally(r) == Exists(doc[r])

(* The cancellation without its condition status = ISSUED. *)
CanCancelUnconditionally(r) == Exists(doc[r])

(* The cancellation also takes an invoice that waits for its code. *)
CancelableWhenSent(row) == row.status \in {"PENDING_ISSUED", "ISSUED"}

(* Locked statuses missing from the list of those that refuse an edit. *)
EditableUnlessCanceled(row) == row.status \notin {"ABSENT", "DELETED", "CANCELED"}
EditableUnlessIssued(row) == row.status \notin {"ABSENT", "DELETED", "PENDING_ISSUED", "ISSUED"}

(* The refused publication puts the goods back and forgets the status. *)
RollbackStockOnly(r) ==
  /\ pc[r] = "rollingBack"
  /\ Exists(doc[r])
  /\ stock' = [p \in Products |-> stock[p] + invoices[doc[r]].lines[p]]
  /\ Respond(r)
  /\ Forget(r)
  /\ UNCHANGED <<invoices, bills, vouchers, revenue, served>>

-----------------------------------------------------------------------------
(* What a request may do to the row it finds (validateInvoiceAccess). *)

Editable(row)   == row.status \in {"DRAFT", "SYNC_FAILED"}
Cancelable(row) == row.status = "ISSUED"

(* A draft touches neither stock nor revenue, and nobody knows its id yet: *)
(* the stock check before the transaction and the insert are one step.     *)
CreateInvoice(r, i) ==
  /\ Accept(r, "create", i)
  /\ invoices[i].status = "ABSENT"
  /\ \E b \in Baskets :
       /\ InStock(b)
       /\ invoices' = [invoices EXCEPT ![i] =
            [NoInvoice EXCEPT !.status = "DRAFT", !.lines = b, !.total = Worth[b]]]
  /\ UNCHANGED <<bills, vouchers, stock, revenue, pc, doc, seen>>

-----------------------------------------------------------------------------
(* publishInvoice, phase 1: the status, the details and the stock are read *)
(* without a lock ...                                                      *)
PublishBegin(r, i) ==
  /\ Accept(r, "publish", i)
  /\ Editable(invoices[i])
  /\ InStock(invoices[i].lines)
  /\ Goto(r, "publishing", i)
  /\ Remember(r, i)
  /\ UNCHANGED tables

(* ... then the row becomes PENDING_ISSUED, whatever its status is by now, *)
(* and each product is decremented where its stock still suffices; one     *)
(* that does not rolls the transaction back (see Refuse).                  *)
CanReserve(r) == Exists(doc[r]) /\ InStock(seen[r].lines)

Reserve(r) ==
  /\ pc[r] = "publishing"
  /\ CanReserve(r)
  /\ SetStatus(doc[r], "PENDING_ISSUED")
  /\ stock' = [p \in Products |->
       IF p \in Goods THEN stock[p] - seen[r].lines[p] ELSE stock[p]]
  /\ Goto(r, "awaiting", doc[r])
  /\ Forget(r)
  /\ UNCHANGED <<bills, vouchers, revenue, served>>

(* The authority grants a code: lockInvoice reads the row.  A status other *)
(* than PENDING_ISSUED is logged, and nothing else.                        *)
LockRead(r) ==
  /\ pc[r] = "awaiting"
  /\ Exists(doc[r])
  /\ Goto(r, "locking", doc[r])
  /\ Remember(r, doc[r])
  /\ UNCHANGED <<tables, served>>

(* The invoice is ISSUED and the total read above is added to the revenue. *)
LockCommit(r) ==
  /\ pc[r] = "locking"
  /\ Exists(doc[r])
  /\ invoices' = [invoices EXCEPT ![doc[r]].status = "ISSUED",
                                  ![doc[r]].coded = TRUE]
  /\ revenue' = revenue + seen[r].total
  /\ Respond(r)
  /\ Forget(r)
  /\ UNCHANGED <<bills, vouchers, stock, served>>

(* The authority refuses or times out: the status must be PENDING_ISSUED ... *)
RollbackRead(r) ==
  /\ pc[r] = "awaiting"
  /\ invoices[doc[r]].status = "PENDING_ISSUED"
  /\ Goto(r, "rollingBack", doc[r])
  /\ Remember(r, doc[r])
  /\ UNCHANGED <<tables, served>>

(* ... and the current details, goods and services alike, go back to stock. *)
RollbackCommit(r) ==
  /\ pc[r] = "rollingBack"
  /\ Exists(doc[r])
  /\ SetStatus(doc[r], "SYNC_FAILED")
  /\ stock' = [p \in Products |-> stock[p] + invoices[doc[r]].lines[p]]
  /\ Respond(r)
  /\ Forget(r)
  /\ UNCHANGED <<bills, vouchers, revenue, served>>

-----------------------------------------------------------------------------
(* canceledInvoice: the status is read before the transaction ... *)
CancelBegin(r, i) ==
  /\ Accept(r, "cancel", i)
  /\ Cancelable(invoices[i])
  /\ Goto(r, "canceling", i)
  /\ Remember(r, i)
  /\ UNCHANGED tables

(* ... and tested again by the UPDATE that cancels.  The goods go back to  *)
(* stock, the vouchers of the invoice are canceled (bulkCancelByInvoice),  *)
(* and the total read above is taken off the revenue.                      *)
CanCancel(r) == Cancelable(invoices[doc[r]])

CancelCommit(r) ==
  /\ pc[r] = "canceling"
  /\ CanCancel(r)
  /\ SetStatus(doc[r], "CANCELED")
  /\ stock' = [p \in Products |->
       IF p \in Goods THEN stock[p] + invoices[doc[r]].lines[p] ELSE stock[p]]
  /\ vouchers' = BulkCancelByInvoice(doc[r])
  /\ revenue' = revenue - seen[r].total
  /\ Respond(r)
  /\ Forget(r)
  /\ UNCHANGED <<bills, served>>

-----------------------------------------------------------------------------
Both(lines, more) == [p \in Products |-> lines[p] + more[p]]

(* updateInvoice: the status is read before the transaction ... *)
UpdateBegin(r, i) ==
  /\ Accept(r, "update", i)
  /\ Editable(invoices[i])
  /\ Goto(r, "updating", i)
  /\ Remember(r, i)
  /\ UNCHANGED tables

(* ... and not again.  New details come with a new total, and the old ones *)
(* are deleted.  Nothing locks the invoice meanwhile: the details that     *)
(* another edit has written since the read are missed, and stay, when the  *)
(* deletion began before that edit was committed;                          *)
UpdateDetails(r) ==
  /\ pc[r] = "updating"
  /\ Exists(doc[r])
  /\ \E b \in Baskets, missed \in BOOLEAN :
       /\ InStock(b)
       /\ missed => invoices[doc[r]].lines # seen[r].lines
       /\ invoices' = [invoices EXCEPT ![doc[r]].lines = IF missed THEN Both(@, b) ELSE b,
                                       ![doc[r]].total = Worth[b]]
  /\ Respond(r)
  /\ Forget(r)
  /\ UNCHANGED <<bills, vouchers, stock, revenue, served>>

(* an edit of the header alone writes back the total it read. *)
UpdateHeader(r) ==
  /\ pc[r] = "updating"
  /\ Exists(doc[r])
  /\ invoices' = [invoices EXCEPT ![doc[r]].total = seen[r].total]
  /\ Respond(r)
  /\ Forget(r)
  /\ UNCHANGED <<bills, vouchers, stock, revenue, served>>

(* delete: the status is read without a lock, in the transaction ... *)
DeleteBegin(r, i) ==
  /\ Accept(r, "delete", i)
  /\ Editable(invoices[i])
  /\ Goto(r, "deleting", i)
  /\ Remember(r, i)
  /\ UNCHANGED tables

(* ... that deletes the row whatever its status is by now; its vouchers    *)
(* lose their link (onDelete: SetNull).                                    *)
DeleteCommit(r) ==
  /\ pc[r] = "deleting"
  /\ Exists(doc[r])
  /\ SetStatus(doc[r], "DELETED")
  /\ vouchers' = Unlinked(doc[r])
  /\ Respond(r)
  /\ Forget(r)
  /\ UNCHANGED <<bills, stock, revenue, served>>

-----------------------------------------------------------------------------
(* An exception ends the request and rolls its transaction back: the stock *)
(* fell short, the row is gone, the status is no longer the expected one.  *)
Refuse(r) ==
  /\ \/ pc[r] = "publishing" /\ ~CanReserve(r)
     \/ pc[r] = "awaiting" /\ invoices[doc[r]].status # "PENDING_ISSUED"
     \/ pc[r] = "canceling" /\ ~CanCancel(r)
     \/ pc[r] \in {"locking", "rollingBack", "updating", "deleting"} /\ ~Exists(doc[r])
     \/ pc[r] = "updating" /\ \E b \in Baskets : ~InStock(b)
  /\ Respond(r)
  /\ Forget(r)
  /\ UNCHANGED <<tables, served>>

(* The process crashes, the connection drops or the transaction times out: *)
(* what was committed stays, the rest of the request never happens.        *)
Fail(r) ==
  /\ MayFail
  /\ pc[r] # "idle"
  /\ Respond(r)
  /\ Forget(r)
  /\ UNCHANGED <<tables, served>>

-----------------------------------------------------------------------------
Init == SchemaInit /\ seen = [r \in Requests |-> NoInvoice]

Begin(r, i) ==
  \/ CreateInvoice(r, i)
  \/ PublishBegin(r, i)
  \/ CancelBegin(r, i)
  \/ UpdateBegin(r, i)
  \/ DeleteBegin(r, i)

Continue(r) ==
  \/ Reserve(r)
  \/ LockRead(r)
  \/ LockCommit(r)
  \/ RollbackRead(r)
  \/ RollbackCommit(r)
  \/ CancelCommit(r)
  \/ UpdateDetails(r)
  \/ UpdateHeader(r)
  \/ DeleteCommit(r)
  \/ Refuse(r)

(* Nothing is in flight: the server waits. *)
Waiting == Idle /\ UNCHANGED vars

Next ==
  \/ \E r \in Requests :
       \/ \E i \in Invoices : Begin(r, i)
       \/ Continue(r)
       \/ Fail(r)
  \/ Waiting

Spec == Init /\ [][Next]_vars

(* The runtime resolves every promise and the database answers every       *)
(* statement, so a request that does not die goes on.                      *)
Fairness == \A r \in Requests : WF_vars(Continue(r))
FairSpec == Spec /\ Fairness

-----------------------------------------------------------------------------
(* Every variable holds what its column or its session can hold. *)
TypeOK ==
  /\ SchemaTypeOK(InvoicingSteps)
  /\ seen \in [Requests -> InvoiceRow]
  /\ \A r \in Requests : pc[r] # "idle" => doc[r] \in Invoices

(* The stock of a good never goes below zero, however publications, edits, *)
(* cancellations and deletions of the same invoices interleave: the        *)
(* decrement of publishInvoice carries the condition currentStock >= qty.  *)
StockNonNegative == \A p \in Goods : stock[p] >= 0

(* Serialized: only one slot creates, publishes, edits or deletes a given  *)
(* invoice, as a client does that waits for each answer.  Any number of    *)
(* slots may ask to cancel it at any time.                                 *)
Serialized ==
  \A i \in Invoices, r, s \in Requests :
    (\E op, oq \in InvoiceOps \ {"cancel"} :
       <<op, i>> \in Permits[r] /\ <<oq, i>> \in Permits[s]) => r = s

(* No edits: no slot edits an invoice after it is written. *)
NoEdits == \A r \in Requests, i \in Invoices : <<"update", i>> \notin Permits[r]

Holding(i) == invoices[i].status \in {"PENDING_ISSUED", "ISSUED"}

(* What makes the properties below inductive when writers are serialized:  *)
(* the row a request relies on still has the status and the content that   *)
(* the request found, although nothing locks it.                           *)
Operation(step) ==
  CASE step \in {"publishing", "awaiting", "locking", "rollingBack"} -> "publish"
    [] step = "updating"  -> "update"
    [] step = "deleting"  -> "delete"
    [] step = "canceling" -> "cancel"

(* A request is at work on an invoice its slot is permitted to work on.    *)
Permitted ==
  \A r \in Requests : pc[r] # "idle" => <<Operation(pc[r]), doc[r]>> \in Permits[r]

(* The stored total is always the sum of the stored lines.                 *)
TotalsMatch == \A i \in Invoices : invoices[i].total = Worth[invoices[i].lines]

(* What each step may take for granted about the row.                      *)
Fresh(r) ==
  LET row == invoices[doc[r]] IN
  /\ pc[r] \in {"publishing", "updating"} => Editable(row) /\ seen[r].lines = row.lines
  /\ pc[r] \in {"awaiting", "locking", "rollingBack"} => row.status = "PENDING_ISSUED"
  /\ pc[r] = "deleting" => Editable(row)
  /\ pc[r] = "canceling" => row.status \in {"ISSUED", "CANCELED"}
  /\ pc[r] \in {"locking", "updating", "canceling"} => seen[r].total = row.total

IInv ==
  /\ TypeOK
  /\ Permitted
  /\ TotalsMatch
  /\ \A r \in Requests : Fresh(r)

(* The units of a product on the invoices that hold their goods, and the   *)
(* stored totals of the issued ones.                                       *)
Held(p) == SumFunctionOnSet([i \in Invoices |-> invoices[i].lines[p]],
                            {i \in Invoices : Holding(i)})

IssuedTotal == SumFunctionOnSet([i \in Invoices |-> invoices[i].total],
                                {i \in Invoices : invoices[i].status = "ISSUED"})

(* The units of a good on the shelf and those of the invoices pending or   *)
(* issued add up to the opening stock: no publication, refusal, rollback,  *)
(* cancellation or crash loses or invents goods.                           *)
StockConservation == \A p \in Goods : stock[p] + Held(p) = Opening[p]

(* Goods may get lost when requests race for one invoice, but none are     *)
(* invented: every unit put back was taken off by a publication before.    *)
GoodsNotInvented == \A p \in Goods : stock[p] + Held(p) <= Opening[p]

(* Racing publications may book a sale twice, but the revenue declared is  *)
(* never less than what the issued invoices say.                           *)
RevenueNotUnderstated == revenue >= IssuedTotal

(* The revenue booked for the year is the sum of the issued invoices.      *)
RevenueIsIssuedTotal == revenue = IssuedTotal

(* An invoice that is pending, issued or canceled keeps its lines, its     *)
(* total and its code, and is not deleted: "locked, no editing" in the     *)
(* lifecycle table of invoices/README.md.                                  *)
Locked == {"PENDING_ISSUED", "ISSUED", "CANCELED"}

ContentLocked ==
  [][\A i \in Invoices : invoices[i].status \in Locked =>
       /\ invoices'[i].lines = invoices[i].lines
       /\ invoices'[i].total = invoices[i].total
       /\ invoices[i].coded => invoices'[i].coded
       /\ invoices'[i].status # "DELETED"]_vars

(* A canceled invoice stays canceled: no late answer of the authority and  *)
(* no second publication revives it ("already canceled" in the "publish"   *)
(* column of the same table).                                              *)
CanceledIsFinal ==
  [][\A i \in Invoices : invoices[i].status = "CANCELED" => invoices'[i].status = "CANCELED"]_vars

(* And an issued invoice can only become canceled ("already issued").      *)
StatusLocked ==
  /\ CanceledIsFinal
  /\ [][\A i \in Invoices :
          invoices[i].status = "ISSUED" => invoices'[i].status \in {"ISSUED", "CANCELED"}]_vars

(* Invoicing implements the ledger it promises. *)
Phase(row) ==
  CASE row.status = "PENDING_ISSUED" -> "held"
    [] row.status = "ISSUED"         -> "sold"
    [] row.status = "CANCELED"       -> "void"
    [] OTHER                         -> "open"

Ledger == INSTANCE SalesLedger WITH
  phase   <- [i \in Invoices |-> Phase(invoices[i])],
  content <- [i \in Invoices |-> invoices[i].lines],
  onHand  <- [p \in Goods |-> stock[p]],
  income  <- revenue

ImplementsLedger == Ledger!LedgerSpec

(* An invoice sent to the tax authority gets its code or is handed back:   *)
(* it does not stay PENDING_ISSUED when no request dies.                   *)
PublicationEnds ==
  \A i \in Invoices : invoices[i].status = "PENDING_ISSUED"
                       ~> invoices[i].status # "PENDING_ISSUED"
=============================================================================
