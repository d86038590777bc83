----------------------------- MODULE Settlement -----------------------------
(***************************************************************************)
(* Invoices and the vouchers that pay them, served together: the requests  *)
(* of Invoicing and of Vouchers interleave on the same rows.               *)
(***************************************************************************)
EXTENDS Invoicing, Vouchers

allVars == <<vars, task>>

(* Canceling or deleting an invoice writes its vouchers, and waits for one *)
(* that is being canceled itself.                                          *)
VouchersFree(r) ==
  \A v \in Vouchers : vouchers'[v] # vouchers[v] => ~VoucherLocked(v)

InvoiceBegin(r)    == (\E i \in Invoices : Begin(r, i)) /\ UNCHANGED task
InvoiceContinue(r) == Continue(r) /\ VouchersFree(r) /\ UNCHANGED task
InvoiceFail(r)     == pc[r] \in InvoicingSteps /\ Fail(r) /\ UNCHANGED task

VoucherStart(r)    == (\E v \in Vouchers : VoucherBegin(r, v)) /\ UNCHANGED seen
VoucherProceed(r)  == VoucherContinue(r) /\ UNCHANGED seen
VoucherDie(r)      == VoucherFail(r) /\ UNCHANGED seen

SettlementInit == Init /\ task = [r \in Requests |-> NoTask]

SettlementNext ==
  \/ \E r \in Requests :
       \/ InvoiceBegin(r)
       \/ InvoiceContinue(r)
       \/ InvoiceFail(r)
       \/ VoucherStart(r)
       \/ VoucherProceed(r)
       \/ VoucherDie(r)
  \/ Idle /\ UNCHANGED allVars

SettlementSpec == SettlementInit /\ [][SettlementNext]_allVars

-----------------------------------------------------------------------------
(* Vouchers are linked only as they are written, not by a later update.    *)
NoLinking == \A r \in Requests, v \in Vouchers : <<"link", v>> \notin Permits[r]

(* No basket is worth nothing.  The client may set a price of zero, and an *)
(* invoice worth zero is not flagged as paid although it is.               *)
NothingFree == \A b \in Baskets : Worth[b] > 0

Due == {d \in Payables : Stored(d) /\ Payable(d).status # "CANCELED"}

(* What the vouchers say was paid for d. *)
Received(d) ==
  SumFunctionOnSet([v \in Vouchers |-> vouchers[v].amount],
                   {v \in Vouchers : vouchers[v].status = "ACTIVE" /\ vouchers[v].link = d})

(* No payment is forgotten: what an invoice counts as paid is at least     *)
(* what its active vouchers add up to.                                     *)
PaidCoversReceived == \A d \in Due : Payable(d).paid >= Received(d)

(* No payment is invented: it is at most that.                             *)
PaidIsBacked == \A d \in Due : Payable(d).paid <= Received(d)

(* paidAmount is the total of the receipts of the invoice, as its column   *)
(* comment says (prisma/schema.prisma), whoever collects and cancels when. *)
PaidIsReceived == PaidCoversReceived /\ PaidIsBacked

(* An invoice is flagged as paid exactly while nothing remains to be paid. *)
FlagIsRight == \A d \in Due : Payable(d).isPaid <=> Payable(d).paid = Payable(d).total

(* Nobody collects more than an invoice is worth ("over-collection" in     *)
(* vouchers/README.md).                                                    *)
NotOverCollected == \A d \in Due : Payable(d).paid <= Payable(d).total

(* Canceling an invoice cancels its vouchers: none is active afterwards.   *)
NoVoucherOnCanceled ==
  \A v \in Vouchers :
    vouchers[v].status = "ACTIVE" /\ vouchers[v].link # None
      => Payable(vouchers[v].link).status # "CANCELED"

(* A voucher pays one invoice for good: its link, its type and its amount  *)
(* stay while it is linked, unless the invoice itself is deleted.          *)
LinkedVoucherLocked ==
  [][\A v \in Vouchers, d \in Payables :
       vouchers[v].link = d =>
         \/ /\ vouchers'[v].link = d
            /\ vouchers'[v].type = vouchers[v].type
            /\ vouchers'[v].amount = vouchers[v].amount
            /\ vouchers'[v].status # "DELETED"
         \/ ~Stored(d)']_allVars
=============================================================================
