------------------------------ MODULE Vouchers ------------------------------
(***************************************************************************)
(* Receipts and payments (src/vouchers/vouchers.service.ts).  A receipt    *)
(* may be linked to an outbound invoice, a payment to an inbound one; the  *)
(* invoice then keeps how much of it is paid.  Vouchers are written,       *)
(* edited, linked, canceled and removed by requests that interleave with   *)
(* each other and with those that work on the invoices.                    *)
(***************************************************************************)
EXTENDS Schema

VARIABLE task   \* what a voucher request found and is about to write

VoucherSteps == {"idle", "amending", "linking", "revoking", "reverting", "removing"}

VoucherTypes == {"RECEIPT", "PAYMENT"}

(* The fields an edit sends; None: not sent. *)
Edits == [type : VoucherTypes \cup {None}, amount : Amounts \cup {None},
          link : Payables \cup {None}]

NoEdit == [type |-> None, amount |-> None, link |-> None]

(* An edit relies on the voucher it read, and pays the invoice to link     *)
(* with an amount computed from what it read there.                        *)
NoTask == [voucher |-> NoVoucher, edit |-> NoEdit, paid |-> 0, isPaid |-> FALSE]

Begun(r, v, edit) ==
  task' = [task EXCEPT ![r] = [NoTask EXCEPT !.voucher = vouchers[v], !.edit = edit]]

EndTask(r) == task' = [task EXCEPT ![r] = NoTask]

-----------------------------------------------------------------------------
(* The invoice a voucher pays. *)

Payable(d) == IF d \in Invoices THEN invoices[d] ELSE bills[d]
TypeFor(d) == IF d \in Invoices THEN "RECEIPT" ELSE "PAYMENT"
Stored(d)  == Payable(d).status \notin {"ABSENT", "DELETED"}

SetPayable(d, n, full) ==
  /\ invoices' = [i \in Invoices |-> IF i = d THEN [invoices[i] EXCEPT !.paid = n, !.isPaid = full]
                                              ELSE invoices[i]]
  /\ bills' = [b \in Bills |-> IF b = d THEN [bills[b] EXCEPT !.paid = n, !.isPaid = full]
                                        ELSE bills[b]]

(* revertInvoicePayment: what canceling a voucher gives back, if anything. *)
Pays(voucher) ==
  /\ voucher.link # None
  /\ voucher.type = TypeFor(voucher.link)
  /\ voucher.amount > 0

-----------------------------------------------------------------------------
(* Plausible mistakes: forms of the definitions below that a slip in the   *)
(* code would give them, each caught by a property of a run.               *)

(* An edit of a linked voucher may send another amount. *)
KeepsLockedLink(v, edit) ==
  /\ edit.type \in {None, vouchers[v].type}
  /\ edit.link \in {None, vouchers[v].link}

(* The limit is tested before the new amount is added. *)
CanPayAny(d, n) ==
  /\ Stored(d) /\ Payable(d).status # "CANCELED"
  /\ ~Payable(d).isPaid
  /\ Payable(d).paid <= Payable(d).total

(* The cancellation without its condition status = ACTIVE. *)
CanRevokeAgain(r) == vouchers[doc[r]].status \in {"ACTIVE", "CANCELED"}

(* The amount is taken off and the flag stays. *)
RevertAmountOnly(voucher) ==
  IF Pays(voucher)
  THEN SetPayable(voucher.link, Payable(voucher.link).paid - voucher.amount,
                  Payable(voucher.link).isPaid)
  ELSE UNCHANGED <<invoices, bills>>

-----------------------------------------------------------------------------
(* resolveVoucherType: the invoice accepts n more.  Paying writes the new  *)
(* total itself, on condition that the invoice is not fully paid by then.  *)
CanPay(d, n) ==
  /\ Stored(d) /\ Payable(d).status # "CANCELED"
  /\ ~Payable(d).isPaid
  /\ Payable(d).paid + n <= Payable(d).total

Unpaid(d) == Stored(d) /\ ~Payable(d).isPaid

(* A voucher that is being canceled is locked until the transaction ends. *)
VoucherLocked(v) == \E s \in Requests : pc[s] = "reverting" /\ doc[s] = v

-----------------------------------------------------------------------------
(* create holds the user's row FOR UPDATE from its first statement on.     *)
(* Every other transaction here inserts an audit row, whose foreign key    *)
(* needs that row too, and so commits before or after: it is one step.     *)
(* (Handing a refused invoice back inserts none, and touches no payment.)  *)
Collect(r, v) ==
  /\ Accept(r, "collect", v)
  /\ vouchers[v].status = "ABSENT"
  /\ \E n \in Amounts, t \in VoucherTypes, d \in Payables \cup {None} :
       /\ d # None => t = TypeFor(d) /\ CanPay(d, n)
       /\ IF d = None THEN UNCHANGED <<invoices, bills>>
          ELSE SetPayable(d, Payable(d).paid + n, Payable(d).paid + n = Payable(d).total)
       /\ vouchers' = [vouchers EXCEPT ![v] =
            [status |-> "ACTIVE", type |-> t, amount |-> n, link |-> d]]
  /\ UNCHANGED <<stock, revenue, pc, doc, task>>

-----------------------------------------------------------------------------
(* update: the voucher is read without a lock.  One that is linked keeps   *)
(* its type, amount and link, but the same link may be sent again.         *)
Given(sent, old) == IF sent = None THEN old ELSE sent

KeepsLockedFields(v, edit) ==
  /\ edit.type \in {None, vouchers[v].type}
  /\ edit.amount \in {None, vouchers[v].amount}
  /\ edit.link \in {None, vouchers[v].link}

Edit(r, op, v, step) ==
  /\ Accept(r, op, v)
  /\ vouchers[v].status = "ACTIVE"
  /\ \E edit \in Edits :
       /\ (edit.link # None) <=> (op = "link")
       /\ vouchers[v].link # None => KeepsLockedFields(v, edit)
       /\ Begun(r, v, edit)
  /\ Goto(r, step, v)
  /\ UNCHANGED tables

AmendBegin(r, v) == Edit(r, "amend", v, "amending")
LinkBegin(r, v)  == Edit(r, "link", v, "linking")

NewType(r)   == Given(task[r].edit.type, task[r].voucher.type)
NewAmount(r) == Given(task[r].edit.amount, task[r].voucher.amount)
NewLink(r)   == task[r].edit.link

(* The invoice to link is read, without a lock either. *)
CanLink(r) == NewType(r) = TypeFor(NewLink(r)) /\ CanPay(NewLink(r), NewAmount(r))

LinkRead(r) ==
  /\ pc[r] = "linking"
  /\ CanLink(r)
  /\ LET paid == Payable(NewLink(r)).paid + NewAmount(r) IN
       task' = [task EXCEPT ![r].paid = paid,
                            ![r].isPaid = (paid = Payable(NewLink(r)).total)]
  /\ Goto(r, "amending", doc[r])
  /\ UNCHANGED <<tables, served>>

(* The fields sent are written to the voucher, whatever it is by now. *)
AmendCommit(r) ==
  /\ pc[r] = "amending"
  /\ vouchers[doc[r]].status \notin {"ABSENT", "DELETED"}
  /\ ~VoucherLocked(doc[r])
  /\ IF NewLink(r) = None THEN UNCHANGED <<invoices, bills>>
     ELSE Unpaid(NewLink(r)) /\ SetPayable(NewLink(r), task[r].paid, task[r].isPaid)
  /\ vouchers' = [vouchers EXCEPT ![doc[r]].type = Given(task[r].edit.type, @),
                                  ![doc[r]].amount = Given(task[r].edit.amount, @),
                                  ![doc[r]].link = Given(NewLink(r), @)]
  /\ Respond(r)
  /\ EndTask(r)
  /\ UNCHANGED <<stock, revenue, served>>

-----------------------------------------------------------------------------
(* cancel: the voucher is read ... *)
RevokeBegin(r, v) ==
  /\ Accept(r, "revoke", v)
  /\ vouchers[v].status = "ACTIVE"
  /\ Begun(r, v, NoEdit)
  /\ Goto(r, "revoking", v)
  /\ UNCHANGED tables

(* ... and canceled if it is still ACTIVE, which locks it; the invoice it  *)
(* was linked to must have received its amount; ...                        *)
CanRevoke(r) == vouchers[doc[r]].status = "ACTIVE"

CanRevert(r) ==
  Pays(task[r].voucher) =>
    /\ Stored(task[r].voucher.link)
    /\ task[r].voucher.amount <= Payable(task[r].voucher.link).paid

RevokeMark(r) ==
  /\ pc[r] = "revoking"
  /\ ~VoucherLocked(doc[r])
  /\ CanRevoke(r)
  /\ CanRevert(r)
  /\ Goto(r, "reverting", doc[r])
  /\ UNCHANGED <<tables, served, task>>

(* ... and is decremented by it. *)
RevertInvoicePayment(voucher) ==
  IF Pays(voucher)
  THEN SetPayable(voucher.link, Payable(voucher.link).paid - voucher.amount, FALSE)
  ELSE UNCHANGED <<invoices, bills>>

RevokeCommit(r) ==
  /\ pc[r] = "reverting"
  /\ Pays(task[r].voucher) => Stored(task[r].voucher.link)
  /\ vouchers' = [vouchers EXCEPT ![doc[r]].status = "CANCELED"]
  /\ RevertInvoicePayment(task[r].voucher)
  /\ Respond(r)
  /\ EndTask(r)
  /\ UNCHANGED <<stock, revenue, served>>

-----------------------------------------------------------------------------
(* remove: the voucher is read, and must not be linked ... *)
RemoveBegin(r, v) ==
  /\ Accept(r, "remove", v)
  /\ vouchers[v].status \in {"ACTIVE", "CANCELED"}
  /\ vouchers[v].link = None
  /\ Begun(r, v, NoEdit)
  /\ Goto(r, "removing", v)
  /\ UNCHANGED tables

(* ... when it is read: it is deleted whatever it is by now. *)
RemoveCommit(r) ==
  /\ pc[r] = "removing"
  /\ vouchers[doc[r]].status \in {"ACTIVE", "CANCELED"}
  /\ ~VoucherLocked(doc[r])
  /\ vouchers' = [vouchers EXCEPT ![doc[r]].status = "DELETED"]
  /\ Respond(r)
  /\ EndTask(r)
  /\ UNCHANGED <<invoices, bills, stock, revenue, served>>

-----------------------------------------------------------------------------
(* An exception ends the request and rolls its transaction back. *)
VoucherRefuse(r) ==
  /\ \/ pc[r] = "linking" /\ ~CanLink(r)
     \/ pc[r] = "amending" /\ NewLink(r) # None /\ ~Unpaid(NewLink(r))
     \/ /\ pc[r] \in {"amending", "removing"}
        /\ vouchers[doc[r]].status \in {"ABSENT", "DELETED"}
     \/ /\ pc[r] = "revoking"
        /\ ~VoucherLocked(doc[r])
        /\ ~(CanRevoke(r) /\ CanRevert(r))
     \/ pc[r] = "reverting" /\ Pays(task[r].voucher) /\ ~Stored(task[r].voucher.link)
  /\ Respond(r)
  /\ EndTask(r)
  /\ UNCHANGED <<tables, served>>

(* The process crashes, a connection drops, a deadlock has its victim. *)
VoucherFail(r) ==
  /\ MayFail
  /\ pc[r] \in VoucherSteps \ {"idle"}
  /\ Respond(r)
  /\ EndTask(r)
  /\ UNCHANGED <<tables, served>>

VoucherBegin(r, v) ==
  \/ Collect(r, v)
  \/ AmendBegin(r, v)
  \/ LinkBegin(r, v)
  \/ RevokeBegin(r, v)
  \/ RemoveBegin(r, v)

VoucherContinue(r) ==
  \/ LinkRead(r)
  \/ AmendCommit(r)
  \/ RevokeMark(r)
  \/ RevokeCommit(r)
  \/ RemoveCommit(r)
  \/ VoucherRefuse(r)

TaskTypeOK ==
  task \in [Requests -> [voucher : VoucherRow, edit : Edits, paid : Int, isPaid : BOOLEAN]]
=============================================================================
