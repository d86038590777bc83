------------------------------- MODULE Schema -------------------------------
(***************************************************************************)
(* The database tables (prisma/schema.prisma) that the handlers of         *)
(* invoices, inbound invoices and vouchers share, and the HTTP requests    *)
(* that work on them.  One user (one tenant): every query of the code is   *)
(* restricted to the user of the request.                                  *)
(*                                                                         *)
(* PostgreSQL runs every transaction at its default level, READ COMMITTED: *)
(* a statement sees what was committed when it started, and two statements *)
(* of one transaction may see different commits of other transactions.     *)
(* A handler is therefore a sequence of steps.  A step ends where the code *)
(* has read rows without locking them; what it read stays in variables of  *)
(* the request.  All writes of a transaction are one step, its commit: an  *)
(* UPDATE ... WHERE and an increment work on the committed row, a value    *)
(* computed by the code from an earlier read may be stale.                 *)
(***************************************************************************)
EXTENDS Integers, Sequences, FiniteSets

CONSTANTS
  Requests,    \* slots for requests in flight; a slot serves one at a time
  Invoices,    \* identities of outbound invoices, past and future
  Bills,       \* identities of inbound invoices, past and future
  Vouchers,    \* identities of receipts and payments, past and future
  Orders,      \* identities of production orders, past and future
  Products,    \* the products and services of the catalogue
  Goods,       \* those that are not of type SERVICE
  Baskets,     \* the line-item sets a client may submit
  Worth,       \* sum of the line totals of a basket
  Deliveries,  \* the lists of items an inbound invoice may be written with
  Cost,        \* sum of quantity times unit cost of such a list
  Opening,     \* stock of each product before the first request
  Amounts,     \* the amounts a voucher may be written for
  Permits,     \* the operations each slot's clients ask for, and on what
  MaxRequests, \* bound on the number of requests served in a behaviour
  MayFail,     \* whether a request in flight may die before its next step
  None         \* no document, no link

Item == [product : Products, quantity : Nat]

NoLines == [p \in Products |-> 0]
Lines == Baskets \cup {NoLines}
Quantities == [Products -> Nat]

InvoiceOps == {"create", "publish", "update", "delete", "cancel"}
VoucherOps == {"collect", "amend", "link", "revoke", "remove"}
BillOps == {"register", "sync", "revise", "restock", "void", "discard"}
OrderOps == {"produce", "rework", "recall"}
DocumentOps == InvoiceOps \cup BillOps \cup VoucherOps \cup OrderOps
Payables == Invoices \cup Bills
Documents == Payables \cup Vouchers \cup Orders

ASSUME SchemaAssumption ==
  /\ Goods \subseteq Products
  /\ Baskets \subseteq Quantities
  /\ Worth \in [Lines -> Nat] /\ Worth[NoLines] = 0
  /\ Opening \in [Products -> Nat]
  /\ Amounts \subseteq Nat
  /\ Permits \in [Requests -> SUBSET (DocumentOps \X Documents)]
  /\ MaxRequests \in Nat
  /\ MayFail \in BOOLEAN
  /\ None \notin Documents

(* Ids are values of a finite column type (uuid, integer), and a server has *)
(* finitely many connections.                                              *)
ASSUME FiniteAssumption ==
  /\ IsFiniteSet(Requests)
  /\ IsFiniteSet(Invoices)
  /\ IsFiniteSet(Bills)
  /\ IsFiniteSet(Vouchers)
  /\ IsFiniteSet(Orders)

ASSUME DeliveryAssumption ==
  /\ Deliveries \subseteq Seq(Item) \ {<<>>}
  /\ Cost \in [Deliveries -> Nat]
  /\ None \notin Seq(Item)

VARIABLES
  invoices,    \* table invoices with its invoice_details
  bills,       \* table inbound_invoices with its inbound_invoice_details
  vouchers,    \* table vouchers
  stock,       \* products.current_stock
  revenue,     \* revenue_trackers.revenue_ytd of the year
  pc,          \* the step each request slot is at
  doc,         \* the document its request is about
  served       \* number of requests accepted so far

tables == <<invoices, bills, vouchers, stock, revenue>>

-----------------------------------------------------------------------------
(* Rows.  ABSENT: not inserted yet; DELETED: removed, its id never reused. *)

InvoiceStatus == {"ABSENT", "DRAFT", "PENDING_ISSUED", "ISSUED",
                  "SYNC_FAILED", "CANCELED", "DELETED"}

InvoiceRow == [status : InvoiceStatus, lines : Quantities, total : Nat,
               coded : BOOLEAN, paid : Int, isPaid : BOOLEAN]

NoInvoice == [status |-> "ABSENT", lines |-> NoLines, total |-> 0,
              coded |-> FALSE, paid |-> 0, isPaid |-> FALSE]

BillStatus == {"ABSENT", "ACTIVE", "CANCELED", "DELETED"}

(* edition stands for the ids of the detail rows: each replacement of the  *)
(* details inserts rows with new ids.                                      *)
BillRow == [status : BillStatus, lines : Seq(Item), edition : Nat, total : Nat,
            synced : BOOLEAN, paid : Int, isPaid : BOOLEAN]

NoBill == [status |-> "ABSENT", lines |-> <<>>, edition |-> 0, total |-> 0,
           synced |-> FALSE, paid |-> 0, isPaid |-> FALSE]

VoucherStatus == {"ABSENT", "ACTIVE", "CANCELED", "DELETED"}

VoucherRow == [status : VoucherStatus, type : {"RECEIPT", "PAYMENT"},
               amount : Amounts \cup {0}, link : Payables \cup {None}]

NoVoucher == [status |-> "ABSENT", type |-> "RECEIPT",
              amount |-> 0, link |-> None]

Exists(i) == invoices[i].status \notin {"ABSENT", "DELETED"}

(* A plausible mistake: canceling looks for vouchers without a link. *)
BulkCancelUnlinked(d) ==
  [v \in Vouchers |-> IF vouchers[v].link = None /\ vouchers[v].status = "ACTIVE"
                      THEN [vouchers[v] EXCEPT !.status = "CANCELED"]
                      ELSE vouchers[v]]

(* What canceling an invoice does to its vouchers (bulkCancelByInvoice). *)
BulkCancelByInvoice(d) ==
  [v \in Vouchers |-> IF vouchers[v].link = d /\ vouchers[v].status = "ACTIVE"
                      THEN [vouchers[v] EXCEPT !.status = "CANCELED"]
                      ELSE vouchers[v]]

(* And what deleting it does to them (onDelete: SetNull). *)
Unlinked(d) ==
  [v \in Vouchers |-> IF vouchers[v].link = d THEN [vouchers[v] EXCEPT !.link = None]
                                              ELSE vouchers[v]]

(* Goods are counted, services are not. *)
InStock(lines) == \A p \in Goods : lines[p] <= stock[p]

-----------------------------------------------------------------------------
(* Requests. *)

(* A slot accepts a request of its clients: operation op on document d. *)
Accept(r, op, d) ==
  /\ pc[r] = "idle"
  /\ <<op, d>> \in Permits[r]
  /\ served < MaxRequests
  /\ served' = served + 1

Goto(r, step, d) ==
  /\ pc'  = [pc  EXCEPT ![r] = step]
  /\ doc' = [doc EXCEPT ![r] = d]

Respond(r) == Goto(r, "idle", None)

Idle == \A r \in Requests : pc[r] = "idle"

SchemaInit ==
  /\ invoices = [i \in Invoices |-> NoInvoice]
  /\ bills = [b \in Bills |-> NoBill]
  /\ vouchers = [v \in Vouchers |-> NoVoucher]
  /\ stock = Opening
  /\ revenue = 0
  /\ pc = [r \in Requests |-> "idle"]
  /\ doc = [r \in Requests |-> None]
  /\ served = 0

SchemaTypeOK(Steps) ==
  /\ invoices \in [Invoices -> InvoiceRow]
  /\ bills \in [Bills -> BillRow]
  /\ vouchers \in [Vouchers -> VoucherRow]
  /\ stock \in [Products -> Int]
  /\ revenue \in Int
  /\ pc \in [Requests -> Steps]
  /\ doc \in [Requests -> Documents \cup {None}]
  /\ served \in Nat
=============================================================================
