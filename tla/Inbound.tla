------------------------------ MODULE Inbound ------------------------------
(***************************************************************************)
(* Inbound invoices (src/inbound-invoices/inbound-invoices.service.ts):    *)
(* the bills of suppliers.  A bill is synced to the inventory at most      *)
(* once, when it is registered, later on request, or by an update, and may *)
(* be revised or discarded before that; voiding it takes its goods off the *)
(* shelf.  Goods are added by writing a stock computed from an earlier,    *)
(* unlocked read, and taken off by a conditional decrement.                *)
(***************************************************************************)
EXTENDS ItemLists

VARIABLE load   \* what a request on a bill found, and what it was sent

BillSteps == {"idle", "registering", "syncing", "revising", "rewriting",
              "voiding", "discarding"}

(* items, None: not sent; sync: whether to sync; left: the detail rows the *)
(* request does not replace; onHand: the stock it read.                    *)
NoLoad == [bill |-> NoBill, items |-> None, sync |-> FALSE,
           left |-> <<>>, onHand |-> Opening]

Loaded(r, b, items, sync) ==
  load' = [load EXCEPT ![r] = [bill |-> bills[b], items |-> items, sync |-> sync,
                               left |-> <<>>, onHand |-> stock]]

GoIdle(r) ==
  /\ Respond(r)
  /\ load' = [load EXCEPT ![r] = NoLoad]

BillStored(b) == bills[b].status \notin {"ABSENT", "DELETED"}

-----------------------------------------------------------------------------
(* Plausible mistakes: forms of the definitions below that a slip in the   *)
(* code would give them, each caught by a property of a run.               *)

(* A synced bill is updated like any other. *)
RevisableWhenSynced(bill) == bill.status \notin {"ABSENT", "DELETED"}

(* The total of new items is stored as a difference. *)
NewTotalByDifference(r) ==
  IF load[r].items = None THEN load[r].bill.total
  ELSE Cost[load[r].items] - load[r].bill.total

(* The whole row that was read is written back, payments included. *)
RewrittenAsRead(r) == [load[r].bill EXCEPT !.synced = load[r].sync]

(* The decrement of a voided bill without its condition. *)
CanVoidUnconditionally(r) == bills[doc[r]].status = "ACTIVE"

-----------------------------------------------------------------------------
(* Every item writes the stock that was read once plus its own quantity:   *)
(* the last item of a product decides.                                     *)
Restocked(items, onHand) ==
  [p \in Products |-> IF p \in Goods /\ Listings(items, p) # {}
                      THEN onHand[p] + LastQuantity(items, p)
                      ELSE stock[p]]

(* syncToInventory holds the row of the bill from its first statement on. *)
BillLocked(b) == \E s \in Requests : pc[s] = "syncing" /\ doc[s] = b

(* A request that has deleted detail rows holds them until it ends. *)
DetailsLocked(b) ==
  \E s \in Requests : pc[s] = "rewriting" /\ doc[s] = b /\ load[s].items # None

-----------------------------------------------------------------------------
(* create: the products are read before the transaction ... *)
RegisterBegin(r, b) ==
  /\ Accept(r, "register", b)
  /\ bills[b].status = "ABSENT" /\ \A s \in Requests : doc[s] # b
  /\ \E items \in Deliveries, sync \in BOOLEAN : Loaded(r, b, items, sync)
  /\ Goto(r, "registering", b)
  /\ UNCHANGED tables

(* ... that inserts the bill and, if asked to, writes the stock. *)
RegisterCommit(r) ==
  /\ pc[r] = "registering"
  /\ bills' = [bills EXCEPT ![doc[r]] =
       [NoBill EXCEPT !.status = "ACTIVE", !.lines = load[r].items,
                      !.total = Cost[load[r].items], !.synced = load[r].sync]]
  /\ stock' = IF load[r].sync THEN Restocked(load[r].items, load[r].onHand) ELSE stock
  /\ GoIdle(r)
  /\ UNCHANGED <<invoices, vouchers, revenue, served>>

-----------------------------------------------------------------------------
(* syncToInventory: marks the bill if it is active and not synced yet, and *)
(* reads its details with the stock of the products ...                    *)
SyncBegin(r, b) ==
  /\ Accept(r, "sync", b)
  /\ ~BillLocked(b)
  /\ bills[b].status = "ACTIVE" /\ ~bills[b].synced
  /\ Loaded(r, b, bills[b].lines, TRUE)
  /\ Goto(r, "syncing", b)
  /\ UNCHANGED tables

(* ... that it writes. *)
SyncCommit(r) ==
  /\ pc[r] = "syncing"
  /\ bills' = [bills EXCEPT ![doc[r]].synced = TRUE]
  /\ stock' = Restocked(load[r].items, load[r].onHand)
  /\ GoIdle(r)
  /\ UNCHANGED <<invoices, vouchers, revenue, served>>

-----------------------------------------------------------------------------
(* update: the bill is read without a lock and must not be synced; whether *)
(* it is canceled does not matter.                                         *)
Revisable(bill) == bill.status \notin {"ABSENT", "DELETED"} /\ ~bill.synced

ReviseBegin(r, b) ==
  /\ \E sync \in BOOLEAN, items \in Deliveries \cup {None} :
       /\ Accept(r, IF sync THEN "restock" ELSE "revise", b)
       /\ Loaded(r, b, items, sync)
  /\ Revisable(bills[b])
  /\ Goto(r, "revising", b)
  /\ UNCHANGED tables

(* When items are sent, the details that are there are deleted: also those *)
(* another update has inserted meanwhile, unless the deletion began before *)
(* they were committed and waited for it.  Then the products are read.     *)
ReviseRead(r) ==
  /\ pc[r] = "revising"
  /\ BillStored(doc[r])
  /\ load[r].items # None => ~DetailsLocked(doc[r])
  /\ \E left \in {<<>>, bills[doc[r]].lines} :
       /\ load[r].items = None => left = bills[doc[r]].lines
       /\ load[r].items # None /\ bills[doc[r]].edition = load[r].bill.edition => left = <<>>
       /\ load' = [load EXCEPT ![r].left = left, ![r].onHand = stock]
  /\ Goto(r, "rewriting", doc[r])
  /\ UNCHANGED <<tables, served>>

(* Everything is written, the flag and the total of the first read too.    *)
NewTotal(r) == IF load[r].items = None THEN load[r].bill.total ELSE Cost[load[r].items]

Rewritten(r) ==
  LET row == [bills[doc[r]] EXCEPT !.total = NewTotal(r), !.synced = load[r].sync]
  IN IF load[r].items = None THEN row
     ELSE [row EXCEPT !.lines = load[r].left \o load[r].items, !.edition = @ + 1]

ToSync(r) == IF load[r].items = None THEN load[r].left ELSE load[r].items

ReviseCommit(r) ==
  /\ pc[r] = "rewriting"
  /\ BillStored(doc[r])
  /\ ~BillLocked(doc[r])
  /\ bills' = [bills EXCEPT ![doc[r]] = Rewritten(r)]
  /\ stock' = IF load[r].sync THEN Restocked(ToSync(r), load[r].onHand) ELSE stock
  /\ GoIdle(r)
  /\ UNCHANGED <<invoices, vouchers, revenue, served>>

-----------------------------------------------------------------------------
(* cancel: the bill and its details are read without a lock ... *)
VoidBegin(r, b) ==
  /\ Accept(r, "void", b)
  /\ bills[b].status = "ACTIVE"
  /\ Loaded(r, b, bills[b].lines, bills[b].synced)
  /\ Goto(r, "voiding", b)
  /\ UNCHANGED tables

(* ... and if it was synced then, its goods leave the shelf, where they    *)
(* must be; its vouchers are canceled, and it must still be active.        *)
CanVoid(r) ==
  /\ bills[doc[r]].status = "ACTIVE"
  /\ load[r].sync => \A p \in Goods : Quantity(load[r].items, p) <= stock[p]

VoidCommit(r) ==
  /\ pc[r] = "voiding"
  /\ CanVoid(r)
  /\ ~BillLocked(doc[r])
  /\ bills' = [bills EXCEPT ![doc[r]].status = "CANCELED"]
  /\ vouchers' = BulkCancelByInvoice(doc[r])
  /\ stock' = IF load[r].sync
              THEN [p \in Products |-> IF p \in Goods
                                       THEN stock[p] - Quantity(load[r].items, p)
                                       ELSE stock[p]]
              ELSE stock
  /\ GoIdle(r)
  /\ UNCHANGED <<invoices, revenue, served>>

-----------------------------------------------------------------------------
(* remove: the bill is read without a lock and must not be synced ... *)
DiscardBegin(r, b) ==
  /\ Accept(r, "discard", b)
  /\ Revisable(bills[b])
  /\ Loaded(r, b, None, FALSE)
  /\ Goto(r, "discarding", b)
  /\ UNCHANGED tables

(* ... and is deleted whatever it is by now. *)
DiscardCommit(r) ==
  /\ pc[r] = "discarding"
  /\ BillStored(doc[r])
  /\ ~BillLocked(doc[r]) /\ ~DetailsLocked(doc[r])
  /\ bills' = [bills EXCEPT ![doc[r]].status = "DELETED"]
  /\ vouchers' = Unlinked(doc[r])
  /\ GoIdle(r)
  /\ UNCHANGED <<invoices, stock, revenue, served>>

-----------------------------------------------------------------------------
(* An exception ends the request and rolls its transaction back. *)
BillRefuse(r) ==
  /\ \/ pc[r] \in {"revising", "rewriting", "discarding"} /\ ~BillStored(doc[r])
     \/ pc[r] = "voiding" /\ ~BillLocked(doc[r]) /\ ~CanVoid(r)
  /\ GoIdle(r)
  /\ UNCHANGED <<tables, served>>

(* The process crashes, a connection drops, a deadlock has its victim. *)
BillFail(r) ==
  /\ MayFail
  /\ pc[r] \in BillSteps \ {"idle"}
  /\ GoIdle(r)
  /\ UNCHANGED <<tables, served>>

BillBegin(r, b) ==
  \/ RegisterBegin(r, b)
  \/ SyncBegin(r, b)
  \/ ReviseBegin(r, b)
  \/ VoidBegin(r, b)
  \/ DiscardBegin(r, b)

BillContinue(r) ==
  \/ RegisterCommit(r)
  \/ SyncCommit(r)
  \/ ReviseRead(r)
  \/ ReviseCommit(r)
  \/ VoidCommit(r)
  \/ DiscardCommit(r)
  \/ BillRefuse(r)

LoadTypeOK ==
  load \in [Requests -> [bill : BillRow, items : Seq(Item) \cup {None}, sync : BOOLEAN,
                         left : Seq(Item), onHand : [Products -> Int]]]
=============================================================================
