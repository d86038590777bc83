-------------------------- MODULE SettlementProofs --------------------------
(***************************************************************************)
(* What holds of vouchers and the invoices they pay for every set of       *)
(* requests, invoices, vouchers and amounts, when vouchers are linked only *)
(* as they are written.                                                    *)
(***************************************************************************)
EXTENDS Settlement, InvoicingProofs

(* Every row has its columns, and a voucher that is not stored no link.    *)
Shapes ==
  /\ DOMAIN invoices = Invoices /\ DOMAIN bills = Bills
  /\ \A i \in Invoices : "status" \in DOMAIN invoices[i]
  /\ \A b \in Bills : "status" \in DOMAIN bills[b]
  /\ vouchers \in [Vouchers -> VoucherRow]
  /\ \A v \in Vouchers : vouchers[v].status \in {"ABSENT", "DELETED"} => vouchers[v].link = None
  /\ DOMAIN pc = Requests /\ DOMAIN doc = Requests /\ DOMAIN task = Requests

(* What a request at work may take for granted about its document, which   *)
(* it read without a lock.                                                 *)
AtWork(r) ==
  /\ pc[r] # "linking"
  /\ pc[r] \in InvoicingSteps \ {"idle"} => doc[r] \in Invoices
  /\ pc[r] \in VoucherSteps \ {"idle"} =>
       doc[r] \in Vouchers /\ vouchers[doc[r]].status # "ABSENT"
  /\ pc[r] = "amending" =>
       /\ task[r].edit \in Edits /\ task[r].edit.link = None
       /\ vouchers[doc[r]].link # None => KeepsLockedFields(doc[r], task[r].edit)
  /\ pc[r] = "removing" => vouchers[doc[r]].link = None

SettleInv == Shapes /\ (\A r \in Requests : AtWork(r)) /\ NoVoucherOnCanceled

-----------------------------------------------------------------------------
(* What a step may do to a voucher: write a new one for an invoice that is *)
(* not canceled, ...                                                       *)
Written(v) ==
  /\ vouchers[v].status = "ABSENT"
  /\ vouchers'[v].status = "ACTIVE"
  /\ \A d \in Payables : vouchers'[v].link = d => Payable(d)'.status # "CANCELED"

(* ... or change one that keeps what it pays, unless that is deleted.      *)
Kept(v) ==
  /\ vouchers'[v].status = "ABSENT" => vouchers[v].status = "ABSENT"
  /\ vouchers'[v].status = "ACTIVE" => vouchers[v].status = "ACTIVE"
  /\ vouchers'[v].status \in {"ABSENT", "DELETED"} => vouchers'[v].link = None
  /\ vouchers[v].link = None => vouchers'[v].link = None
  /\ \A d \in Payables : vouchers[v].link = d =>
       \/ /\ vouchers'[v].link = d
          /\ vouchers'[v].type = vouchers[v].type
          /\ vouchers'[v].amount = vouchers[v].amount
       \/ vouchers'[v].link = None /\ ~Stored(d)'

(* What it may do to an invoice: cancel it together with its vouchers.     *)
Canceled(d) ==
  Payable(d)'.status = "CANCELED" =>
    \/ Payable(d).status = "CANCELED"
    \/ \A v \in Vouchers : vouchers'[v].link = d => vouchers'[v].status # "ACTIVE"

RowsFollow ==
  /\ vouchers' \in [Vouchers -> VoucherRow]
  /\ DOMAIN invoices' = Invoices /\ DOMAIN bills' = Bills
  /\ \A i \in Invoices : "status" \in DOMAIN invoices'[i]
  /\ \A b \in Bills : "status" \in DOMAIN bills'[b]
  /\ \A v \in Vouchers : Written(v) \/ Kept(v)
  /\ \A d \in Payables : Canceled(d)

(* The identity of nothing is that of no document.                         *)
LEMMA NoneIsNoPayable == None \notin Payables
BY SchemaAssumption DEF SchemaAssumption, Documents

(* A step that leaves the rows alone, ...                                  *)
LEMMA SameRows ==
  ASSUME Shapes, UNCHANGED <<invoices, bills, vouchers>>
  PROVE  RowsFollow
<1>1. \A v \in Vouchers : Kept(v)
  BY DEF Shapes, Kept
<1>2. \A d \in Payables : Canceled(d)
  BY DEF Canceled, Payable
<1>3. QED
  BY <1>1, <1>2 DEF Shapes, RowsFollow

(* ... or changes one invoice, but does not cancel it.                     *)
LEMMA InvoiceChanged ==
  ASSUME Shapes, UNCHANGED <<bills, vouchers>>, DOMAIN invoices' = Invoices,
         \A i \in Invoices :
           /\ "status" \in DOMAIN invoices'[i]
           /\ invoices'[i].status = "CANCELED" => invoices[i].status = "CANCELED"
  PROVE  RowsFollow
<1>1. \A v \in Vouchers : Kept(v)
  BY DEF Shapes, Kept
<1>2. \A d \in Payables : Canceled(d)
  BY DEF Canceled, Payable
<1>3. QED
  BY <1>1, <1>2 DEF Shapes, RowsFollow

(* Paying an invoice leaves its status.                                    *)
LEMMA PayingKeepsStatus ==
  ASSUME Shapes, NEW d, NEW n, NEW full, SetPayable(d, n, full)
  PROVE  /\ DOMAIN invoices' = Invoices /\ DOMAIN bills' = Bills
         /\ \A i \in Invoices : "status" \in DOMAIN invoices'[i] /\ invoices'[i].status = invoices[i].status
         /\ \A b \in Bills : "status" \in DOMAIN bills'[b] /\ bills'[b].status = bills[b].status
BY DEF SetPayable, Shapes

(* A step of the invoices' handlers.                                       *)
LEMMA InvoiceSteps ==
  ASSUME Shapes, NEW r \in Requests, AtWork(r),
         InvoiceBegin(r) \/ InvoiceContinue(r) \/ InvoiceFail(r)
  PROVE  RowsFollow
<1>1. CASE UNCHANGED <<invoices, bills, vouchers>>
  BY <1>1, SameRows
<1>2. ASSUME NEW i \in Invoices, CreateInvoice(r, i)
      PROVE  RowsFollow
  <2> DEFINE draft(b) == [NoInvoice EXCEPT !.status = "DRAFT", !.lines = b, !.total = Worth[b]]
  <2>0. \A b \in Baskets : "status" \in DOMAIN draft(b) /\ draft(b).status = "DRAFT"
    BY DEF NoInvoice
  <2>1. PICK b \in Baskets : invoices' = [invoices EXCEPT ![i] = draft(b)]
    BY <1>2 DEF CreateInvoice
  <2> HIDE DEF draft
  <2>2. QED
    BY <1>2, <2>0, <2>1, InvoiceChanged DEF CreateInvoice, Shapes
<1>3. CASE Reserve(r)
  BY <1>3, InvoiceChanged DEF Reserve, SetStatus, Shapes
<1>4. CASE LockCommit(r)
  BY <1>4, InvoiceChanged DEF LockCommit, Shapes
<1>5. CASE RollbackCommit(r)
  BY <1>5, InvoiceChanged DEF RollbackCommit, SetStatus, Shapes
<1>6. CASE UpdateDetails(r)
  <2>1. PICK l, n : invoices' = [invoices EXCEPT ![doc[r]].lines = l, ![doc[r]].total = n]
    BY <1>6 DEF UpdateDetails
  <2>2. QED
    BY <1>6, <2>1, InvoiceChanged DEF UpdateDetails, Shapes
<1>7. CASE UpdateHeader(r)
  BY <1>7, InvoiceChanged DEF UpdateHeader, Shapes
<1>8. CASE CancelCommit(r)
  <2>1. /\ DOMAIN invoices' = Invoices /\ bills' = bills
        /\ \A i \in Invoices : "status" \in DOMAIN invoices'[i]
        /\ \A i \in Invoices \ {doc[r]} : invoices'[i] = invoices[i]
    BY <1>8 DEF CancelCommit, SetStatus, Shapes
  <2>2. /\ vouchers' \in [Vouchers -> VoucherRow]
        /\ \A v \in Vouchers :
             /\ vouchers'[v].link = vouchers[v].link
             /\ vouchers'[v].type = vouchers[v].type
             /\ vouchers'[v].amount = vouchers[v].amount
             /\ vouchers'[v].status = vouchers[v].status \/ vouchers'[v].status = "CANCELED"
             /\ vouchers'[v].link = doc[r] => vouchers'[v].status # "ACTIVE"
    BY <1>8 DEF CancelCommit, BulkCancelByInvoice, Shapes, VoucherRow, VoucherStatus
  <2>3. \A v \in Vouchers : Kept(v)
    BY <2>2 DEF Shapes, Kept
  <2>4. \A d \in Payables : Canceled(d)
    BY <2>1, <2>2 DEF Canceled, Payable
  <2>5. QED
    BY <2>1, <2>2, <2>3, <2>4 DEF Shapes, RowsFollow
<1>9. CASE DeleteCommit(r)
  <2>1. /\ DOMAIN invoices' = Invoices /\ bills' = bills
        /\ \A i \in Invoices : "status" \in DOMAIN invoices'[i]
        /\ \A i \in Invoices \ {doc[r]} : invoices'[i] = invoices[i]
        /\ doc[r] \in Invoices /\ invoices'[doc[r]].status = "DELETED"
    BY <1>9 DEF DeleteCommit, SetStatus, Shapes, AtWork, InvoicingSteps
  <2>2. /\ vouchers' \in [Vouchers -> VoucherRow]
        /\ \A v \in Vouchers :
             /\ vouchers'[v].link = IF vouchers[v].link = doc[r] THEN None ELSE vouchers[v].link
             /\ vouchers'[v].type = vouchers[v].type
             /\ vouchers'[v].amount = vouchers[v].amount
             /\ vouchers'[v].status = vouchers[v].status
    BY <1>9 DEF DeleteCommit, Unlinked, Shapes, VoucherRow
  <2>3. \A v \in Vouchers : Kept(v)
    <3>1. \A d \in Payables : d = doc[r] => ~Stored(d)'
      BY <2>1 DEF Stored, Payable
    <3>2. QED
      BY <2>2, <3>1 DEF Shapes, Kept
  <2>4. \A d \in Payables : Canceled(d)
    BY <2>1, <2>2 DEF Canceled, Payable
  <2>5. QED
    BY <2>1, <2>2, <2>3, <2>4 DEF Shapes, RowsFollow
<1>10. QED
  BY <1>1, <1>2, <1>3, <1>4, <1>5, <1>6, <1>7, <1>8, <1>9
     DEF InvoiceBegin, InvoiceContinue, InvoiceFail, Begin, Continue, Fail, Refuse, PublishBegin,
         CancelBegin, UpdateBegin, DeleteBegin, LockRead, RollbackRead, tables

(* A step of the vouchers' handlers.                                       *)
LEMMA VoucherStepsFollow ==
  ASSUME NoLinking, Shapes, NEW r \in Requests, AtWork(r),
         VoucherStart(r) \/ VoucherProceed(r) \/ VoucherDie(r)
  PROVE  RowsFollow
<1>1. CASE UNCHANGED <<invoices, bills, vouchers>>
  BY <1>1, SameRows
<1>2. ASSUME NEW v \in Vouchers, Collect(r, v)
      PROVE  RowsFollow
  <2>1. PICK n \in Amounts, t \in VoucherTypes, d \in Payables \cup {None} :
          /\ d # None => CanPay(d, n)
          /\ IF d = None THEN UNCHANGED <<invoices, bills>>
             ELSE SetPayable(d, Payable(d).paid + n, Payable(d).paid + n = Payable(d).total)
          /\ vouchers' = [vouchers EXCEPT ![v] =
               [status |-> "ACTIVE", type |-> t, amount |-> n, link |-> d]]
    BY <1>2 DEF Collect
  <2>2. /\ DOMAIN invoices' = Invoices /\ DOMAIN bills' = Bills
        /\ \A i \in Invoices : "status" \in DOMAIN invoices'[i] /\ invoices'[i].status = invoices[i].status
        /\ \A b \in Bills : "status" \in DOMAIN bills'[b] /\ bills'[b].status = bills[b].status
    BY <2>1, PayingKeepsStatus DEF Shapes
  <2>3. vouchers' \in [Vouchers -> VoucherRow]
    BY <2>1 DEF Shapes, VoucherRow, VoucherStatus, VoucherTypes
  <2>4. \A p \in Payables : Payable(p)'.status = Payable(p).status
    BY <2>2 DEF Payable, Payables
  <2>5. Written(v)
    <3>1. vouchers[v].status = "ABSENT" /\ vouchers'[v].status = "ACTIVE" /\ vouchers'[v].link = d
      BY <1>2, <2>1 DEF Collect, Shapes
    <3>2. QED
      BY <2>1, <2>4, <3>1, NoneIsNoPayable DEF Written, CanPay
  <2>6. \A u \in Vouchers \ {v} : Kept(u)
    BY <2>1 DEF Shapes, Kept
  <2>7. \A p \in Payables : Canceled(p)
    BY <2>4 DEF Canceled
  <2>8. QED
    BY <2>2, <2>3, <2>5, <2>6, <2>7 DEF RowsFollow
<1>3. CASE AmendCommit(r)
  <2> DEFINE v == doc[r]
             edit == task[r].edit
  <2>1. /\ v \in Vouchers /\ edit \in Edits /\ edit.link = None
        /\ vouchers[v].link # None => KeepsLockedFields(v, edit)
        /\ vouchers[v].status \notin {"ABSENT", "DELETED"}
    BY <1>3 DEF AmendCommit, AtWork, VoucherSteps
  <2>2. UNCHANGED <<invoices, bills>>
    BY <1>3, <2>1 DEF AmendCommit, NewLink
  <2>3. vouchers' = [vouchers EXCEPT ![v].type = Given(edit.type, @),
                                     ![v].amount = Given(edit.amount, @),
                                     ![v].link = @]
    BY <1>3, <2>1 DEF AmendCommit, NewLink, Given
  <2>4. Given(edit.type, vouchers[v].type) \in VoucherTypes
        /\ Given(edit.amount, vouchers[v].amount) \in Amounts \cup {0}
    BY <2>1 DEF Given, Edits, Shapes, VoucherRow, VoucherTypes
  <2>5. vouchers' = [vouchers EXCEPT ![v] =
          [status |-> vouchers[v].status, type |-> Given(edit.type, vouchers[v].type),
           amount |-> Given(edit.amount, vouchers[v].amount), link |-> vouchers[v].link]]
    <3> DEFINE row == vouchers[v]
               typed == [vouchers EXCEPT ![v].type = Given(edit.type, @)]
               both == [typed EXCEPT ![v].amount = Given(edit.amount, @)]
    <3>1. vouchers \in [Vouchers -> VoucherRow] /\ row \in VoucherRow /\ v \in Vouchers
      BY <2>1 DEF Shapes
    <3>2. vouchers' = [both EXCEPT ![v].link = @]
      BY <2>3
    <3> HIDE DEF edit, v
    <3>3. typed = [vouchers EXCEPT ![v] = [row EXCEPT !.type = Given(edit.type, row.type)]]
      OBVIOUS
    <3>4. typed[v].amount = row.amount /\ typed[v].link = row.link /\ DOMAIN typed = Vouchers
      BY <3>1, <3>3 DEF VoucherRow
    <3>5. both = [typed EXCEPT ![v] = [typed[v] EXCEPT !.amount = Given(edit.amount, row.amount)]]
      BY <3>4
    <3>6. both[v] = [status |-> row.status, type |-> Given(edit.type, row.type),
                     amount |-> Given(edit.amount, row.amount), link |-> row.link]
      BY <3>1, <3>3, <3>4, <3>5 DEF VoucherRow
    <3>7. QED
      BY <3>1, <3>2, <3>3, <3>5, <3>6
  <2>6. vouchers' \in [Vouchers -> VoucherRow]
    BY <2>1, <2>4, <2>5 DEF Shapes, VoucherRow, VoucherTypes
  <2>7. vouchers[v].link # None =>
          /\ Given(edit.type, vouchers[v].type) = vouchers[v].type
          /\ Given(edit.amount, vouchers[v].amount) = vouchers[v].amount
    BY <2>1 DEF KeepsLockedFields, Given
  <2>8. Kept(v)
    <3>1. /\ vouchers'[v].status = vouchers[v].status /\ vouchers'[v].link = vouchers[v].link
          /\ vouchers'[v].type = Given(edit.type, vouchers[v].type)
          /\ vouchers'[v].amount = Given(edit.amount, vouchers[v].amount)
      BY <2>1, <2>5 DEF Shapes
    <3>2. QED
      BY <2>1, <2>7, <3>1, NoneIsNoPayable DEF Kept
  <2>9. \A u \in Vouchers \ {v} : Kept(u)
    BY <2>5 DEF Shapes, Kept
  <2>10. \A d \in Payables : Canceled(d)
    BY <2>2 DEF Canceled, Payable
  <2>11. QED
    BY <2>2, <2>6, <2>8, <2>9, <2>10 DEF Shapes, RowsFollow
<1>4. CASE RevokeCommit(r)
  <2>1. /\ DOMAIN invoices' = Invoices /\ DOMAIN bills' = Bills
        /\ \A i \in Invoices : "status" \in DOMAIN invoices'[i] /\ invoices'[i].status = invoices[i].status
        /\ \A b \in Bills : "status" \in DOMAIN bills'[b] /\ bills'[b].status = bills[b].status
    BY <1>4, PayingKeepsStatus DEF RevokeCommit, RevertInvoicePayment, Shapes
  <2>2. /\ vouchers' \in [Vouchers -> VoucherRow]
        /\ doc[r] \in Vouchers /\ vouchers[doc[r]].status # "ABSENT"
    BY <1>4 DEF RevokeCommit, Shapes, VoucherRow, VoucherStatus, AtWork, VoucherSteps
  <2>3. \A v \in Vouchers : Kept(v)
    BY <1>4, <2>2 DEF RevokeCommit, Shapes, Kept, VoucherRow
  <2>4. \A d \in Payables : Canceled(d)
    BY <2>1 DEF Canceled, Payable, Payables
  <2>5. QED
    BY <2>1, <2>2, <2>3, <2>4 DEF RowsFollow
<1>5. CASE RemoveCommit(r)
  <2>1. /\ vouchers' \in [Vouchers -> VoucherRow]
        /\ doc[r] \in Vouchers /\ vouchers[doc[r]].status # "ABSENT" /\ vouchers[doc[r]].link = None
    BY <1>5 DEF RemoveCommit, Shapes, VoucherRow, VoucherStatus, AtWork, VoucherSteps
  <2>2. \A v \in Vouchers : Kept(v)
    BY <1>5, <2>1, NoneIsNoPayable DEF RemoveCommit, Shapes, Kept, VoucherRow
  <2>3. \A d \in Payables : Canceled(d)
    BY <1>5 DEF RemoveCommit, Canceled, Payable
  <2>4. QED
    BY <1>5, <2>1, <2>2, <2>3 DEF RemoveCommit, Shapes, RowsFollow
<1>6. QED
  BY <1>1, <1>2, <1>3, <1>4, <1>5
     DEF VoucherStart, VoucherProceed, VoucherDie, VoucherBegin, VoucherContinue, VoucherFail,
         VoucherRefuse, AmendBegin, LinkBegin, Edit, RevokeBegin, RemoveBegin, LinkRead, RevokeMark,
         tables

(* Every step.                                                             *)
LEMMA StepRows ==
  ASSUME NoLinking, Shapes, \A r \in Requests : AtWork(r), [SettlementNext]_allVars
  PROVE  RowsFollow
<1>1. ASSUME NEW r \in Requests, InvoiceBegin(r) \/ InvoiceContinue(r) \/ InvoiceFail(r)
      PROVE  RowsFollow
  BY <1>1, InvoiceSteps
<1>2. ASSUME NEW r \in Requests, VoucherStart(r) \/ VoucherProceed(r) \/ VoucherDie(r)
      PROVE  RowsFollow
  BY <1>2, VoucherStepsFollow
<1>3. CASE UNCHANGED allVars
  BY <1>3, SameRows DEF allVars, vars, tables
<1>4. QED
  BY <1>1, <1>2, <1>3 DEF SettlementNext

-----------------------------------------------------------------------------
(* The rows keep their shape.                                              *)
LEMMA StepShapes ==
  ASSUME Shapes, RowsFollow, [SettlementNext]_allVars
  PROVE  Shapes'
<1>1. \A v \in Vouchers :
        vouchers'[v].status \in {"ABSENT", "DELETED"} => vouchers'[v].link = None
  BY DEF RowsFollow, Written, Kept
<1>2. DOMAIN pc' = Requests /\ DOMAIN doc' = Requests /\ DOMAIN task' = Requests
  <2>1. ASSUME NEW r \in Requests, InvoiceBegin(r) \/ InvoiceContinue(r) \/ InvoiceFail(r)
        PROVE  DOMAIN pc' = Requests /\ DOMAIN doc' = Requests /\ DOMAIN task' = Requests
    BY <2>1 DEF Shapes, InvoiceBegin, InvoiceContinue, InvoiceFail, Begin, Continue, Fail, Refuse,
                CreateInvoice, PublishBegin, CancelBegin, UpdateBegin, DeleteBegin, Reserve,
                LockRead, LockCommit, RollbackRead, RollbackCommit, CancelCommit, UpdateDetails,
                UpdateHeader, DeleteCommit, Respond, Goto
  <2>2. ASSUME NEW r \in Requests, VoucherStart(r) \/ VoucherProceed(r) \/ VoucherDie(r)
        PROVE  DOMAIN pc' = Requests /\ DOMAIN doc' = Requests /\ DOMAIN task' = Requests
    BY <2>2 DEF Shapes, VoucherStart, VoucherProceed, VoucherDie, VoucherBegin, VoucherContinue,
                VoucherFail, VoucherRefuse, Collect, AmendBegin, LinkBegin, Edit, RevokeBegin,
                RemoveBegin, LinkRead, AmendCommit, RevokeMark, RevokeCommit, RemoveCommit,
                Begun, EndTask, Respond, Goto
  <2>3. CASE UNCHANGED allVars
    BY <2>3 DEF Shapes, allVars, vars, tables
  <2>4. QED
    BY <2>1, <2>2, <2>3 DEF SettlementNext
<1>3. QED
  BY <1>1, <1>2 DEF RowsFollow, Shapes

(* What a request relies on is not taken from it by the step of another.   *)
LEMMA OthersAtWork ==
  ASSUME Shapes, RowsFollow, NEW s \in Requests, AtWork(s),
         pc'[s] = pc[s], doc'[s] = doc[s], task'[s] = task[s]
  PROVE  AtWork(s)'
<1>1. CASE pc[s] \in VoucherSteps \ {"idle"}
  <2> DEFINE v == doc[s]
  <2>1. v \in Vouchers /\ vouchers[v].status # "ABSENT" /\ Kept(v) /\ vouchers[v] \in VoucherRow
    BY <1>1 DEF AtWork, RowsFollow, Written, Shapes
  <2>2. vouchers'[v].status # "ABSENT"
    BY <2>1 DEF Kept
  <2>3. pc[s] = "removing" => vouchers'[v].link = None
    BY <2>1 DEF AtWork, Kept
  <2>4. vouchers'[v].link # None =>
          /\ vouchers'[v].link = vouchers[v].link
          /\ vouchers'[v].type = vouchers[v].type
          /\ vouchers'[v].amount = vouchers[v].amount
    BY <2>1 DEF Kept, VoucherRow
  <2>5. pc[s] = "amending" /\ vouchers'[v].link # None =>
          /\ task[s].edit.type \in {None, vouchers'[v].type}
          /\ task[s].edit.amount \in {None, vouchers'[v].amount}
          /\ task[s].edit.link \in {None, vouchers'[v].link}
    BY <2>1, <2>4 DEF AtWork, KeepsLockedFields
  <2>6. QED
    BY <1>1, <2>1, <2>2, <2>3, <2>5 DEF AtWork, KeepsLockedFields, VoucherSteps, InvoicingSteps
<1>2. CASE pc[s] \notin VoucherSteps \ {"idle"}
  BY <1>2 DEF AtWork, VoucherSteps
<1>3. QED
  BY <1>1, <1>2

(* A step of a request leaves the others where they are, and itself idle   *)
(* or at a step that it has prepared.                                      *)
LEMMA StepAtWork ==
  ASSUME NoLinking, SettleInv, RowsFollow, [SettlementNext]_allVars
  PROVE  \A r \in Requests : AtWork(r)'
<1> DEFINE Alone(r) == \A s \in Requests \ {r} :
             pc'[s] = pc[s] /\ doc'[s] = doc[s] /\ task'[s] = task[s]
<1>1. ASSUME NEW r \in Requests, Alone(r), AtWork(r)'
      PROVE  \A s \in Requests : AtWork(s)'
  BY <1>1, OthersAtWork DEF SettleInv
<1>2. ASSUME NEW r \in Requests, Alone(r), pc'[r] = "idle"
      PROVE  \A s \in Requests : AtWork(s)'
  BY <1>1, <1>2 DEF AtWork
<1>3. ASSUME NEW r \in Requests, InvoiceBegin(r) \/ InvoiceContinue(r) \/ InvoiceFail(r)
      PROVE  \A s \in Requests : AtWork(s)'
  <2>1. Alone(r)
    BY <1>3 DEF SettleInv, Shapes, InvoiceBegin, InvoiceContinue, InvoiceFail, Begin, Continue, Fail,
                Refuse, CreateInvoice, PublishBegin, CancelBegin, UpdateBegin, DeleteBegin, Reserve,
                LockRead, LockCommit, RollbackRead, RollbackCommit, CancelCommit, UpdateDetails,
                UpdateHeader, DeleteCommit, Respond, Goto
  <2>2. CASE \E i \in Invoices : CreateInvoice(r, i)
    <3>1. UNCHANGED <<pc, doc, task>>
      BY <1>3, <2>2 DEF InvoiceBegin, InvoiceContinue, InvoiceFail, CreateInvoice
    <3>2. QED
      BY <3>1, OthersAtWork DEF SettleInv
  <2>3. CASE pc'[r] = "idle"
    BY <1>2, <2>1, <2>3
  <2>4. CASE pc'[r] \in InvoicingSteps \ {"idle"} /\ doc'[r] \in Invoices
    BY <1>1, <2>1, <2>4 DEF AtWork, InvoicingSteps, VoucherSteps
  <2>5. QED
    BY <1>3, <2>2, <2>3, <2>4
       DEF SettleInv, Shapes, AtWork, InvoiceBegin, InvoiceContinue, InvoiceFail, Begin, Continue,
           Fail, Refuse, PublishBegin, CancelBegin, UpdateBegin, DeleteBegin, Reserve,
           LockRead, LockCommit, RollbackRead, RollbackCommit, CancelCommit, UpdateDetails,
           UpdateHeader, DeleteCommit, Respond, Goto, InvoicingSteps
<1>4. ASSUME NEW r \in Requests, NEW v \in Vouchers, VoucherBegin(r, v), UNCHANGED seen
      PROVE  \A s \in Requests : AtWork(s)'
  <2>1. Alone(r)
    BY <1>4 DEF SettleInv, Shapes, VoucherBegin, Collect, AmendBegin, LinkBegin, Edit, RevokeBegin,
                RemoveBegin, Begun, Goto
  <2>2. CASE Collect(r, v)
    BY <2>1, <2>2, OthersAtWork DEF SettleInv, Collect
  <2>3. CASE AmendBegin(r, v)
    <3>1. PICK edit \in Edits :
            /\ edit.link = None
            /\ vouchers[v].link # None => KeepsLockedFields(v, edit)
            /\ Begun(r, v, edit)
      BY <2>3 DEF AmendBegin, Edit
    <3>2. /\ pc'[r] = "amending" /\ doc'[r] = v /\ task'[r].edit = edit
          /\ vouchers[v].status # "ABSENT" /\ UNCHANGED vouchers
      BY <2>3, <3>1 DEF AmendBegin, Edit, Begun, NoTask, Goto, tables, SettleInv, Shapes
    <3>3. AtWork(r)'
      BY <3>1, <3>2 DEF AtWork, KeepsLockedFields, InvoicingSteps, VoucherSteps
    <3>4. QED
      BY <1>1, <2>1, <3>3
  <2>4. CASE LinkBegin(r, v)
    BY <2>4 DEF NoLinking, LinkBegin, Edit, Accept
  <2>5. CASE RevokeBegin(r, v)
    BY <1>1, <2>1, <2>5 DEF RevokeBegin, Goto, tables, SettleInv, Shapes, AtWork, InvoicingSteps
  <2>6. CASE RemoveBegin(r, v)
    BY <1>1, <2>1, <2>6 DEF RemoveBegin, Goto, tables, SettleInv, Shapes, AtWork, InvoicingSteps
  <2>7. QED
    BY <1>4, <2>2, <2>3, <2>4, <2>5, <2>6 DEF VoucherBegin
<1>5. ASSUME NEW r \in Requests, VoucherProceed(r) \/ VoucherDie(r)
      PROVE  \A s \in Requests : AtWork(s)'
  <2>1. Alone(r)
    BY <1>5 DEF SettleInv, Shapes, VoucherProceed, VoucherDie, VoucherContinue, VoucherFail,
                VoucherRefuse, LinkRead, AmendCommit, RevokeMark, RevokeCommit, RemoveCommit,
                EndTask, Respond, Goto
  <2>2. CASE RevokeMark(r)
    <3>1. pc'[r] = "reverting" /\ doc'[r] = doc[r] /\ UNCHANGED vouchers
      BY <2>2 DEF RevokeMark, Goto, tables, SettleInv, Shapes
    <3>2. doc[r] \in Vouchers /\ vouchers[doc[r]].status # "ABSENT"
      BY <2>2 DEF RevokeMark, SettleInv, AtWork, VoucherSteps
    <3>3. QED
      BY <1>1, <2>1, <3>1, <3>2 DEF AtWork, InvoicingSteps
  <2>3. CASE pc'[r] = "idle"
    BY <1>2, <2>1, <2>3
  <2>4. QED
    BY <1>5, <2>2, <2>3
       DEF SettleInv, Shapes, AtWork, VoucherProceed, VoucherDie, VoucherContinue, VoucherFail,
           VoucherRefuse, LinkRead, AmendCommit, RevokeCommit, RemoveCommit, Respond, Goto
<1>6. CASE UNCHANGED allVars
  BY <1>6, OthersAtWork DEF SettleInv, allVars, vars
<1>7. QED
  BY <1>3, <1>4, <1>5, <1>6 DEF SettlementNext, VoucherStart

(* No step leaves an active voucher on a canceled invoice.                 *)
LEMMA StepNoVoucherOnCanceled ==
  ASSUME SettleInv, RowsFollow
  PROVE  NoVoucherOnCanceled'
<1> SUFFICES ASSUME NEW v \in Vouchers, NEW d \in Payables,
                    vouchers'[v].status = "ACTIVE", vouchers'[v].link = d
             PROVE  Payable(d)'.status # "CANCELED"
  <2>1. \A v \in Vouchers : vouchers'[v].link # None => vouchers'[v].link \in Payables
    BY DEF RowsFollow, VoucherRow
  <2>2. QED
    BY <2>1 DEF NoVoucherOnCanceled, Payable
<1>1. CASE Written(v)
  BY <1>1 DEF Written
<1>2. CASE Kept(v)
  <2>1. vouchers[v].status = "ACTIVE" /\ vouchers[v].link = d
    BY <1>2, NoneIsNoPayable DEF Kept, SettleInv, Shapes, VoucherRow
  <2>2. Payable(d).status # "CANCELED"
    BY <2>1, NoneIsNoPayable DEF SettleInv, NoVoucherOnCanceled
  <2>3. QED
    BY <2>2 DEF RowsFollow, Canceled
<1>3. QED
  BY <1>1, <1>2 DEF RowsFollow

(* Nothing is stored and nobody is at work at first.                       *)
LEMMA InitSettle == SettlementInit => SettleInv
<1> SUFFICES ASSUME SettlementInit PROVE SettleInv
  OBVIOUS
<1>1. NoVoucher \in VoucherRow
  BY DEF NoVoucher, VoucherRow, VoucherStatus
<1>2. Shapes
  BY <1>1 DEF SettlementInit, Init, SchemaInit, Shapes, NoInvoice, NoBill, NoVoucher
<1>3. \A r \in Requests : AtWork(r)
  BY DEF SettlementInit, Init, SchemaInit, AtWork
<1>4. NoVoucherOnCanceled
  BY DEF SettlementInit, Init, SchemaInit, NoVoucherOnCanceled, NoVoucher
<1>5. QED
  BY <1>2, <1>3, <1>4 DEF SettleInv

(* The invariant of the theorems on vouchers: what a request read about    *)
(* its voucher without a lock still holds when it is written               *)
(* (update, cancel and remove of vouchers.service.ts).                     *)
THEOREM Settling == NoLinking => (SettlementSpec => []SettleInv)
<1> SUFFICES ASSUME NoLinking PROVE SettlementSpec => []SettleInv
  OBVIOUS
<1>1. SettleInv /\ [SettlementNext]_allVars => SettleInv'
  BY StepRows, StepShapes, StepAtWork, StepNoVoucherOnCanceled DEF SettleInv
<1>2. QED
  BY <1>1, InitSettle, PTL DEF SettlementSpec

(* Whoever collects, edits, revokes and cancels at once, an invoice that   *)
(* is canceled has no active voucher (canceledInvoice with                 *)
(* bulkCancelByInvoice, create of vouchers).                               *)
THEOREM CanceledHasNoVoucher == NoLinking => (SettlementSpec => []NoVoucherOnCanceled)
<1>1. SettleInv => NoVoucherOnCanceled
  BY DEF SettleInv
<1>2. QED
  BY <1>1, Settling, PTL

(* A linked voucher keeps its link, its type and its amount until its      *)
(* invoice is deleted, although no request locks it before it edits        *)
(* (update and remove of vouchers).                                        *)
THEOREM LinkedStaysLocked == NoLinking => (SettlementSpec => LinkedVoucherLocked)
<1> SUFFICES ASSUME NoLinking PROVE SettlementSpec => LinkedVoucherLocked
  OBVIOUS
<1>1. ASSUME SettleInv, [SettlementNext]_allVars, NEW v \in Vouchers, NEW d \in Payables,
             vouchers[v].link = d
      PROVE  \/ /\ vouchers'[v].link = d
                /\ vouchers'[v].type = vouchers[v].type
                /\ vouchers'[v].amount = vouchers[v].amount
                /\ vouchers'[v].status # "DELETED"
             \/ ~Stored(d)'
  <2>1. RowsFollow
    BY <1>1, StepRows DEF SettleInv
  <2>2. Kept(v)
    BY <1>1, <2>1, NoneIsNoPayable DEF SettleInv, Shapes, RowsFollow, Written
  <2>3. QED
    BY <1>1, <2>2, NoneIsNoPayable DEF Kept
<1>2. SettleInv /\ [SettlementNext]_allVars =>
        [\A v \in Vouchers, d \in Payables :
           vouchers[v].link = d =>
             \/ /\ vouchers'[v].link = d
                /\ vouchers'[v].type = vouchers[v].type
                /\ vouchers'[v].amount = vouchers[v].amount
                /\ vouchers'[v].status # "DELETED"
             \/ ~Stored(d)']_allVars
  BY <1>1
<1>3. QED
  BY <1>2, Settling, PTL DEF SettlementSpec, LinkedVoucherLocked

-----------------------------------------------------------------------------
(* From here on the columns have their types, with and without NoLinking.  *)
(* They have them whatever other handlers, with steps of their own, work   *)
(* on the same tables.                                                     *)
AllSteps == InvoicingSteps \cup VoucherSteps

TypedWith(Steps) ==
  /\ HandlersOK(Steps)
  /\ TaskTypeOK
  /\ \A r \in Requests : pc[r] \in VoucherSteps \ {"idle"} =>
       /\ doc[r] \in Vouchers
       /\ pc[r] = "linking" => task[r].edit.link \in Payables

Typed == TypedWith(AllSteps)

(* An invoice that is paid keeps the types of its columns.                 *)
LEMMA PaidRowTypes ==
  ASSUME NEW n \in Int, NEW full \in BOOLEAN
  PROVE  /\ \A row \in InvoiceRow : [row EXCEPT !.paid = n, !.isPaid = full] \in InvoiceRow
         /\ \A row \in BillRow : [row EXCEPT !.paid = n, !.isPaid = full] \in BillRow
BY DEF InvoiceRow, BillRow

LEMMA SetPayableTypes ==
  ASSUME invoices \in [Invoices -> InvoiceRow], bills \in [Bills -> BillRow],
         NEW d, NEW n \in Int, NEW full \in BOOLEAN, SetPayable(d, n, full)
  PROVE  invoices' \in [Invoices -> InvoiceRow] /\ bills' \in [Bills -> BillRow]
BY PaidRowTypes DEF SetPayable

(* What is read of an invoice has its type.                                *)
LEMMA PayableTypes ==
  ASSUME invoices \in [Invoices -> InvoiceRow], bills \in [Bills -> BillRow],
         NEW d \in Payables
  PROVE  /\ Payable(d).paid \in Int /\ Payable(d).total \in Nat
         /\ Payable(d).isPaid \in BOOLEAN
BY DEF Payable, Payables, InvoiceRow, BillRow

(* So has what is read of a voucher.                                       *)
LEMMA VoucherValues ==
  ASSUME NEW w \in VoucherRow
  PROVE  /\ w.amount \in Nat /\ w.link \in Payables \cup {None}
         /\ w.status \in VoucherStatus /\ w.type \in VoucherTypes
<1>1. \A n \in Amounts \cup {0} : n \in Nat
  BY SchemaAssumption DEF SchemaAssumption
<1>2. QED
  BY <1>1 DEF VoucherRow, VoucherTypes

(* The fields an edit sends are written one by one: the row that results.  *)
LEMMA AmendWrites ==
  ASSUME vouchers \in [Vouchers -> VoucherRow], NEW v \in Vouchers, NEW e \in Edits,
         vouchers' = [vouchers EXCEPT ![v].type = Given(e.type, @),
                                      ![v].amount = Given(e.amount, @),
                                      ![v].link = Given(e.link, @)]
  PROVE  /\ vouchers' = [vouchers EXCEPT ![v] =
              [status |-> vouchers[v].status,
               type |-> Given(e.type, vouchers[v].type),
               amount |-> Given(e.amount, vouchers[v].amount),
               link |-> Given(e.link, vouchers[v].link)]]
         /\ vouchers' \in [Vouchers -> VoucherRow]
<1> DEFINE row == vouchers[v]
           ty == Given(e.type, row.type)
           am == Given(e.amount, row.amount)
           li == Given(e.link, row.link)
           one == [row EXCEPT !.type = ty]
           two == [one EXCEPT !.amount = am]
           three == [two EXCEPT !.link = li]
           typed == [vouchers EXCEPT ![v].type = Given(e.type, @)]
           both == [typed EXCEPT ![v].amount = Given(e.amount, @)]
<1>1. row \in VoucherRow
  OBVIOUS
<1>2. ty \in VoucherTypes /\ am \in Amounts \cup {0} /\ li \in Payables \cup {None}
  BY <1>1 DEF Given, Edits, VoucherRow, VoucherTypes
<1>3. vouchers' = [both EXCEPT ![v].link = Given(e.link, @)]
  OBVIOUS
<1> HIDE DEF ty, am, li
<1>4. typed = [vouchers EXCEPT ![v] = one]
  BY DEF ty
<1>5. typed[v] = one /\ DOMAIN typed = Vouchers /\ one.amount = row.amount
  BY <1>1, <1>4 DEF VoucherRow
<1>6. both = [typed EXCEPT ![v] = two]
  BY <1>5 DEF am
<1>7. both[v] = two /\ DOMAIN both = Vouchers /\ two.link = row.link
  BY <1>1, <1>5, <1>6 DEF VoucherRow
<1>8. vouchers' = [both EXCEPT ![v] = three]
  BY <1>3, <1>7 DEF li
<1>9. three = [status |-> row.status, type |-> ty, amount |-> am, link |-> li]
  <2> HIDE DEF row
  <2>1. row = [status |-> row.status, type |-> row.type, amount |-> row.amount, link |-> row.link]
    BY <1>1 DEF VoucherRow
  <2>2. one = [status |-> row.status, type |-> ty, amount |-> row.amount, link |-> row.link]
    BY <2>1
  <2> HIDE DEF one
  <2>3. two = [status |-> row.status, type |-> ty, amount |-> am, link |-> row.link]
    BY <2>2
  <2> HIDE DEF two
  <2>4. QED
    BY <2>3
<1> HIDE DEF row, one, two, three, typed, both
<1>10. vouchers' = [vouchers EXCEPT ![v] = three]
  BY <1>4, <1>6, <1>8 DEF typed
<1>11. three \in VoucherRow
  BY <1>1, <1>2, <1>9 DEF VoucherRow, VoucherTypes
<1>12. QED
  BY <1>9, <1>10, <1>11 DEF row, ty, am, li

(* The handlers of vouchers keep the types.                                *)
LEMMA VoucherHandlerTypes ==
  ASSUME NEW Steps, AllSteps \subseteq Steps, TypedWith(Steps), NEW r \in Requests,
         VoucherStart(r) \/ VoucherProceed(r) \/ VoucherDie(r)
  PROVE  TypedWith(Steps)'
<1> DEFINE Task == [voucher : VoucherRow, edit : Edits, paid : Int, isPaid : BOOLEAN]
           Rows == /\ invoices' \in [Invoices -> InvoiceRow] /\ bills' \in [Bills -> BillRow]
                   /\ vouchers' \in [Vouchers -> VoucherRow]
           Sessions == \E step \in VoucherSteps, d \in Documents \cup {None}, x \in Task :
             /\ pc' = [pc EXCEPT ![r] = step] /\ doc' = [doc EXCEPT ![r] = d]
             /\ task' = [task EXCEPT ![r] = x]
             /\ step # "idle" => d \in Vouchers
             /\ step = "linking" => x.edit.link \in Payables
<1>1. /\ invoices \in [Invoices -> InvoiceRow] /\ bills \in [Bills -> BillRow]
      /\ vouchers \in [Vouchers -> VoucherRow]
      /\ pc \in [Requests -> Steps] /\ doc \in [Requests -> Documents \cup {None}]
      /\ task \in [Requests -> Task]
      /\ pc[r] \in VoucherSteps \ {"idle"} => doc[r] \in Vouchers
  BY DEF TypedWith, HandlersOK, SchemaTypeOK, TaskTypeOK
<1>2. NoTask \in Task /\ \A v \in Vouchers, e \in Edits :
        [NoTask EXCEPT !.voucher = vouchers[v], !.edit = e] \in Task
  <2>1. NoVoucher \in VoucherRow /\ NoEdit \in Edits
    BY DEF NoVoucher, NoEdit, VoucherRow, VoucherStatus, Edits
  <2>2. NoTask \in Task
    BY <2>1 DEF NoTask
  <2>3. QED
    BY <1>1, <2>2
<1>3. ASSUME Rows, Sessions, UNCHANGED <<stock, revenue, seen>>, served' \in Nat
      PROVE  TypedWith(Steps)'
  BY <1>3 DEF TypedWith, HandlersOK, SchemaTypeOK, TaskTypeOK, AllSteps, InvoicingSteps, VoucherSteps
<1>4. served' \in Nat /\ UNCHANGED <<stock, revenue, seen>>
  <2>1. served \in Nat /\ served + 1 \in Nat
    BY DEF TypedWith, HandlersOK, SchemaTypeOK
  <2>2. CASE VoucherStart(r)
    BY <2>1, <2>2 DEF VoucherStart, VoucherBegin, Collect, AmendBegin, LinkBegin, Edit,
                      RevokeBegin, RemoveBegin, Accept, tables
  <2>3. CASE VoucherProceed(r)
    BY <2>1, <2>3 DEF VoucherProceed, VoucherContinue, VoucherRefuse, LinkRead, AmendCommit,
                      RevokeMark, RevokeCommit, RemoveCommit, tables
  <2>4. CASE VoucherDie(r)
    BY <2>1, <2>4 DEF VoucherDie, VoucherFail, tables
  <2>5. QED
    BY <2>2, <2>3, <2>4
<1>5. ASSUME Rows, Respond(r), EndTask(r)
      PROVE  TypedWith(Steps)'
  <2>1. Sessions
    BY <1>2, <1>5 DEF Respond, Goto, EndTask, VoucherSteps
  <2>2. QED
    BY <1>3, <1>4, <1>5, <2>1
<1>6. ASSUME NEW v \in Vouchers, Collect(r, v)
      PROVE  TypedWith(Steps)'
  <2>1. PICK n \in Amounts, ty \in VoucherTypes, d \in Payables \cup {None} :
          /\ IF d = None THEN UNCHANGED <<invoices, bills>>
             ELSE SetPayable(d, Payable(d).paid + n, Payable(d).paid + n = Payable(d).total)
          /\ vouchers' = [vouchers EXCEPT ![v] =
               [status |-> "ACTIVE", type |-> ty, amount |-> n, link |-> d]]
    BY <1>6 DEF Collect
  <2>2. vouchers' \in [Vouchers -> VoucherRow]
    BY <1>1, <2>1 DEF VoucherRow, VoucherStatus, VoucherTypes
  <2>3. invoices' \in [Invoices -> InvoiceRow] /\ bills' \in [Bills -> BillRow]
    <3>1. CASE d = None
      BY <1>1, <2>1, <3>1
    <3>2. CASE d # None
      <4> DEFINE m == Payable(d).paid + n
                 full == (m = Payable(d).total)
      <4>1. n \in Int /\ Payable(d).paid \in Int
        BY <1>1, <3>2, PayableTypes, SchemaAssumption DEF SchemaAssumption
      <4>2. m \in Int /\ full \in BOOLEAN /\ SetPayable(d, m, full)
        BY <2>1, <3>2, <4>1
      <4> HIDE DEF m, full
      <4>3. QED
        BY <1>1, <4>2, SetPayableTypes
    <3>3. QED
      BY <3>1, <3>2
  <2>4. Sessions
    <3>1. pc[r] = "idle" /\ UNCHANGED <<pc, doc, task>>
      BY <1>6 DEF Collect, Accept
    <3>2. /\ pc' = [pc EXCEPT ![r] = "idle"] /\ doc' = [doc EXCEPT ![r] = doc[r]]
          /\ task' = [task EXCEPT ![r] = task[r]]
      BY <1>1, <3>1
    <3>3. doc[r] \in Documents \cup {None} /\ task[r] \in Task
      BY <1>1
    <3>4. QED
      BY <3>2, <3>3 DEF VoucherSteps
  <2>5. QED
    BY <1>3, <1>4, <2>2, <2>3, <2>4
<1>7. ASSUME NEW v \in Vouchers, AmendBegin(r, v) \/ LinkBegin(r, v) \/ RevokeBegin(r, v) \/ RemoveBegin(r, v)
      PROVE  TypedWith(Steps)'
  <2>1. PICK e \in Edits, step \in {"amending", "linking", "revoking", "removing"} :
          /\ Begun(r, v, e) /\ Goto(r, step, v)
          /\ step = "linking" => e.link # None
    <3>1. NoEdit \in Edits
      BY DEF NoEdit, Edits
    <3>2. QED
      BY <1>7, <3>1 DEF AmendBegin, LinkBegin, Edit, RevokeBegin, RemoveBegin
  <2>2. Rows
    BY <1>1, <1>7 DEF AmendBegin, LinkBegin, Edit, RevokeBegin, RemoveBegin, tables
  <2>3. Sessions
    <3> DEFINE x == [NoTask EXCEPT !.voucher = vouchers[v], !.edit = e]
    <3>1. x \in Task /\ x.edit = e
      BY <1>2 DEF NoTask
    <3>2. pc' = [pc EXCEPT ![r] = step] /\ doc' = [doc EXCEPT ![r] = v]
          /\ task' = [task EXCEPT ![r] = x]
      BY <2>1 DEF Begun, Goto
    <3>3. step = "linking" => x.edit.link \in Payables
      BY <2>1, <3>1 DEF Edits
    <3> HIDE DEF x
    <3>4. QED
      BY <2>1, <3>1, <3>2, <3>3 DEF VoucherSteps, Documents
  <2>4. QED
    BY <1>3, <1>4, <2>2, <2>3
<1>8. CASE LinkRead(r)
  <2> DEFINE n == Payable(NewLink(r)).paid + NewAmount(r)
             full == (n = Payable(NewLink(r)).total)
             x == [task[r] EXCEPT !.paid = n, !.isPaid = full]
  <2>1. task' = [task EXCEPT ![r] = x]
    BY <1>1, <1>8 DEF LinkRead
  <2>2. NewLink(r) \in Payables /\ NewAmount(r) \in Int
    BY <1>1, <1>8, SchemaAssumption
       DEF LinkRead, TypedWith, NewLink, NewAmount, Given, SchemaAssumption, VoucherSteps, Edits, VoucherRow
  <2>3. n \in Int /\ full \in BOOLEAN
    BY <1>1, <2>2, PayableTypes
  <2> HIDE DEF n, full
  <2>4. x \in Task
    BY <1>1, <2>3
  <2>5. pc' = [pc EXCEPT ![r] = "amending"] /\ doc' = [doc EXCEPT ![r] = doc[r]] /\ doc[r] \in Vouchers
    BY <1>1, <1>8 DEF LinkRead, Goto, VoucherSteps
  <2> HIDE DEF x
  <2>6. Sessions
    BY <2>1, <2>4, <2>5 DEF VoucherSteps, Documents
  <2>7. Rows
    BY <1>1, <1>8 DEF LinkRead, tables
  <2>8. QED
    BY <1>3, <1>4, <2>6, <2>7
<1>9. CASE AmendCommit(r)
  <2>1. doc[r] \in Vouchers /\ task[r] \in Task
    BY <1>1, <1>9 DEF AmendCommit, VoucherSteps
  <2>2. vouchers' \in [Vouchers -> VoucherRow]
    BY <1>1, <1>9, <2>1, AmendWrites DEF AmendCommit, NewLink
  <2>3. invoices' \in [Invoices -> InvoiceRow] /\ bills' \in [Bills -> BillRow]
    <3>1. CASE NewLink(r) = None
      BY <1>1, <1>9, <3>1 DEF AmendCommit
    <3>2. CASE NewLink(r) # None
      <4>1. /\ task[r].paid \in Int /\ task[r].isPaid \in BOOLEAN
            /\ SetPayable(NewLink(r), task[r].paid, task[r].isPaid)
        BY <1>9, <2>1, <3>2 DEF AmendCommit
      <4>2. QED
        BY <1>1, <4>1, SetPayableTypes
    <3>3. QED
      BY <3>1, <3>2
  <2>4. QED
    BY <1>5, <1>9, <2>2, <2>3 DEF AmendCommit
<1>10. CASE RevokeMark(r)
  <2>1. /\ pc' = [pc EXCEPT ![r] = "reverting"] /\ doc' = [doc EXCEPT ![r] = doc[r]]
        /\ task' = [task EXCEPT ![r] = task[r]]
    BY <1>1, <1>10 DEF RevokeMark, Goto
  <2>2. doc[r] \in Vouchers /\ task[r] \in Task
    BY <1>1, <1>10 DEF RevokeMark, VoucherSteps
  <2>3. Sessions
    BY <2>1, <2>2 DEF VoucherSteps, Documents
  <2>4. Rows
    BY <1>1, <1>10 DEF RevokeMark, tables
  <2>5. QED
    BY <1>3, <1>4, <2>3, <2>4
<1>11. CASE RevokeCommit(r)
  <2> DEFINE w == task[r].voucher
  <2>1. w \in VoucherRow /\ doc[r] \in Vouchers
    BY <1>1, <1>11 DEF RevokeCommit, VoucherSteps
  <2>2. vouchers' \in [Vouchers -> VoucherRow]
    BY <1>1, <1>11, <2>1, VoucherRowTypes DEF RevokeCommit
  <2>3. invoices' \in [Invoices -> InvoiceRow] /\ bills' \in [Bills -> BillRow]
    <3>1. CASE Pays(w)
      <4>1. SetPayable(w.link, Payable(w.link).paid - w.amount, FALSE)
        BY <1>11, <3>1 DEF RevokeCommit, RevertInvoicePayment
      <4>2. w.link \in Payables /\ w.amount \in Int
        BY <2>1, <3>1, VoucherValues DEF Pays
      <4>3. Payable(w.link).paid - w.amount \in Int
        BY <1>1, <4>2, PayableTypes
      <4>4. QED
        BY <1>1, <4>1, <4>3, SetPayableTypes
    <3>2. CASE ~Pays(w)
      BY <1>1, <1>11, <3>2 DEF RevokeCommit, RevertInvoicePayment
    <3>3. QED
      BY <3>1, <3>2
  <2>4. QED
    BY <1>5, <1>11, <2>2, <2>3 DEF RevokeCommit
<1>12. CASE RemoveCommit(r)
  <2>1. \A row \in VoucherRow : [row EXCEPT !.status = "DELETED"] \in VoucherRow
    BY DEF VoucherRow, VoucherStatus
  <2>2. Rows
    BY <1>1, <1>12, <2>1 DEF RemoveCommit
  <2>3. QED
    BY <1>5, <1>12, <2>2 DEF RemoveCommit
<1>13. CASE VoucherRefuse(r) \/ VoucherFail(r)
  <2>1. Rows
    BY <1>1, <1>13 DEF VoucherRefuse, VoucherFail, tables
  <2>2. QED
    BY <1>5, <1>13, <2>1 DEF VoucherRefuse, VoucherFail
<1>14. QED
  BY <1>6, <1>7, <1>8, <1>9, <1>10, <1>11, <1>12, <1>13
     DEF VoucherStart, VoucherProceed, VoucherDie, VoucherBegin, VoucherContinue

(* So do those of invoices, which leave the vouchers' sessions alone.      *)
LEMMA InvoiceHandlerTypes ==
  ASSUME NEW Steps, AllSteps \subseteq Steps, TypedWith(Steps), NEW r \in Requests,
         InvoiceBegin(r) \/ InvoiceContinue(r) \/ InvoiceFail(r)
  PROVE  TypedWith(Steps)'
<1>1. HandlersOK(Steps)'
  BY HandlerTypes DEF TypedWith, AllSteps, InvoiceBegin, InvoiceContinue, InvoiceFail
<1>2. UNCHANGED task /\ \E step \in InvoicingSteps : \E d :
        \/ pc' = [pc EXCEPT ![r] = step] /\ doc' = [doc EXCEPT ![r] = d]
        \/ UNCHANGED <<pc, doc>>
  BY DEF InvoiceBegin, InvoiceContinue, InvoiceFail, Begin, Continue, Fail, Refuse, CreateInvoice,
         PublishBegin, CancelBegin, UpdateBegin, DeleteBegin, Reserve, LockRead, LockCommit,
         RollbackRead, RollbackCommit, CancelCommit, UpdateDetails, UpdateHeader, DeleteCommit,
         Respond, Goto, InvoicingSteps
<1>3. QED
  BY <1>1, <1>2 DEF TypedWith, TaskTypeOK, HandlersOK, SchemaTypeOK, InvoicingSteps, VoucherSteps

(* Together: every column and every session of the two sets of handlers    *)
(* holds a value of its type, whoever works on the same rows.              *)
THEOREM SettlementTyping == SettlementSpec => []Typed
<1>1. SettlementInit => Typed
  <2> SUFFICES ASSUME SettlementInit PROVE Typed
    OBVIOUS
  <2>1. TypeOK
    BY InitTypes DEF SettlementInit
  <2>2. HandlersOK(AllSteps)
    BY <2>1 DEF TypeOK, HandlersOK, SchemaTypeOK, AllSteps
  <2>3. NoTask \in [voucher : VoucherRow, edit : Edits, paid : Int, isPaid : BOOLEAN]
    BY DEF NoTask, NoVoucher, NoEdit, VoucherRow, VoucherStatus, Edits
  <2>4. QED
    BY <2>2, <2>3 DEF Typed, TypedWith, TaskTypeOK, SettlementInit, Init, SchemaInit
<1>2. Typed /\ [SettlementNext]_allVars => Typed'
  <2> SUFFICES ASSUME Typed, [SettlementNext]_allVars PROVE Typed'
    OBVIOUS
  <2>1. CASE UNCHANGED allVars
    BY <2>1 DEF Typed, TypedWith, HandlersOK, SchemaTypeOK, TaskTypeOK, allVars, vars, tables
  <2>2. QED
    BY <2>1, VoucherHandlerTypes, InvoiceHandlerTypes DEF SettlementNext, Typed
<1>3. QED
  BY <1>1, <1>2, PTL DEF SettlementSpec

-----------------------------------------------------------------------------
(* From here on what an invoice counts as paid is held against the sum of  *)
(* its active vouchers.                                                    *)

(* A linked voucher pays an invoice that is there, of the kind its type    *)
(* says.                                                                   *)
Linked(v) ==
  vouchers[v].link # None =>
    Stored(vouchers[v].link) /\ vouchers[v].type = TypeFor(vouchers[v].link)

(* What a cancellation read of its voucher is still what it pays, unless   *)
(* the invoice was deleted meanwhile; from the mark on it stays ACTIVE, ...*)
Relied(r) ==
  pc[r] \in {"revoking", "reverting"} =>
    LET row == vouchers[doc[r]]
        w   == task[r].voucher
    IN  /\ w.link = None => row.link = None
        /\ w.link # None =>
             /\ w.type = TypeFor(w.link)
             /\ \/ row.link = w.link /\ row.amount = w.amount
                \/ row.link = None /\ Payable(w.link).status = "DELETED"
        /\ pc[r] = "reverting" => row.status = "ACTIVE"

(* ... and no other request takes its amount off again.                    *)
OneReverts ==
  \A r, s \in Requests :
    pc[r] = "reverting" /\ pc[s] = "reverting" /\ doc[r] = doc[s] => r = s

PayInv ==
  /\ SettleInv
  /\ Typed
  /\ \A v \in Vouchers : Linked(v)
  /\ \A r \in Requests : Relied(r)
  /\ OneReverts

(* What a step may do to an invoice: it stays, or it is deleted for good   *)
(* and the vouchers lose it.                                               *)
Lasting(d) ==
  /\ Payable(d).status = "DELETED" => Payable(d)'.status = "DELETED"
  /\ Stored(d) => \/ Stored(d)'
                  \/ Payable(d)'.status = "DELETED" /\ \A v \in Vouchers : vouchers'[v].link # d

(* What is paid and what was received change together; a new invoice has   *)
(* received nothing, and one that is canceled loses its vouchers.          *)
Balanced(d) ==
  Stored(d)' =>
    \/ Stored(d) /\ Payable(d)'.paid - Received(d)' = Payable(d).paid - Received(d)
    \/ ~Stored(d) /\ Payable(d)'.paid = 0 /\ Received(d)' = 0
    \/ /\ Stored(d) /\ Payable(d)'.status = "CANCELED"
       /\ Payable(d)'.paid = Payable(d).paid /\ Received(d)' = 0

-----------------------------------------------------------------------------
(* What one voucher adds to what was received for d.                       *)
Gives(v, d) ==
  IF vouchers[v].status = "ACTIVE" /\ vouchers[v].link = d THEN vouchers[v].amount ELSE 0

(* The amount received is a number.                                        *)
LEMMA ReceivedNat ==
  ASSUME NEW rows \in [Vouchers -> VoucherRow], NEW d
  PROVE  SumFunctionOnSet([v \in Vouchers |-> rows[v].amount],
           {v \in Vouchers : rows[v].status = "ACTIVE" /\ rows[v].link = d}) \in Nat
<1> DEFINE S == {v \in Vouchers : rows[v].status = "ACTIVE" /\ rows[v].link = d}
           f == [v \in Vouchers |-> rows[v].amount]
<1>1. IsFiniteSet(S)
  BY FiniteAssumption, FS_Subset DEF FiniteAssumption
<1>2. \A v \in S : f[v] \in Nat
  BY VoucherValues
<1> HIDE DEF S, f
<1>3. SumFunctionOnSet(f, S) \in Nat
  BY <1>1, <1>2, SumNat
<1>4. QED
  BY <1>3 DEF S, f

(* It is zero where no voucher is linked to d.                             *)
LEMMA NothingReceived ==
  ASSUME NEW d, \A v \in Vouchers : ~(vouchers[v].status = "ACTIVE" /\ vouchers[v].link = d)
  PROVE  Received(d) = 0
<1>1. {v \in Vouchers : vouchers[v].status = "ACTIVE" /\ vouchers[v].link = d} = {}
  OBVIOUS
<1>2. QED
  BY <1>1, SumEmpty DEF Received

(* It stays where every voucher gives what it gave.                        *)
LEMMA ReceivedSame ==
  ASSUME NEW d, \A v \in Vouchers :
           /\ (vouchers'[v].status = "ACTIVE" /\ vouchers'[v].link = d)
                <=> (vouchers[v].status = "ACTIVE" /\ vouchers[v].link = d)
           /\ vouchers[v].link = d => vouchers'[v].amount = vouchers[v].amount
  PROVE  Received(d)' = Received(d)
<1> DEFINE S == {v \in Vouchers : vouchers[v].status = "ACTIVE" /\ vouchers[v].link = d}
           f == [v \in Vouchers |-> vouchers[v].amount]
           T == {v \in Vouchers : vouchers'[v].status = "ACTIVE" /\ vouchers'[v].link = d}
           e == [v \in Vouchers |-> vouchers'[v].amount]
<1>1. S = T /\ IsFiniteSet(S) /\ \A v \in S : f[v] = e[v]
  BY FiniteAssumption, FS_Subset DEF FiniteAssumption
<1>2. Received(d) = SumFunctionOnSet(f, S) /\ Received(d)' = SumFunctionOnSet(e, T)
  BY DEF Received
<1> HIDE DEF S, f, T, e
<1>3. QED
  BY <1>1, <1>2, SumSame

(* It follows the one voucher that is written.                             *)
LEMMA ReceivedMoves ==
  ASSUME vouchers \in [Vouchers -> VoucherRow], vouchers' \in [Vouchers -> VoucherRow],
         NEW d, NEW v \in Vouchers, \A u \in Vouchers \ {v} : vouchers'[u] = vouchers[u]
  PROVE  Received(d)' = Received(d) - Gives(v, d) + Gives(v, d)'
<1> DEFINE S == {u \in Vouchers : vouchers[u].status = "ACTIVE" /\ vouchers[u].link = d}
           f == [u \in Vouchers |-> vouchers[u].amount]
           T == {u \in Vouchers : vouchers'[u].status = "ACTIVE" /\ vouchers'[u].link = d}
           e == [u \in Vouchers |-> vouchers'[u].amount]
<1>1. IsFiniteSet(S) /\ IsFiniteSet(T)
  BY FiniteAssumption, FS_Subset DEF FiniteAssumption
<1>2. S \ {v} = T \ {v} /\ \A u \in S \ {v} : f[u] = e[u]
  OBVIOUS
<1>3. (\A u \in S : f[u] \in Int) /\ \A u \in T : e[u] \in Int
  BY VoucherValues
<1>4. Received(d) = SumFunctionOnSet(f, S) /\ Received(d)' = SumFunctionOnSet(e, T)
  BY DEF Received
<1>5. Share(f, S, v) = Gives(v, d) /\ Share(e, T, v) = Gives(v, d)'
  BY DEF Share, Gives
<1> HIDE DEF S, f, T, e
<1>6. SumFunctionOnSet(e, T) = SumFunctionOnSet(f, S) - Share(f, S, v) + Share(e, T, v)
  BY <1>1, <1>2, <1>3, SumMoves
<1>7. QED
  BY <1>4, <1>5, <1>6

-----------------------------------------------------------------------------
(* What paying an invoice writes.                                          *)
LEMMA PayingWrites ==
  ASSUME invoices \in [Invoices -> InvoiceRow], bills \in [Bills -> BillRow],
         NEW d \in Payables, NEW n, NEW full, SetPayable(d, n, full)
  PROVE  /\ Payable(d)'.paid = n /\ Payable(d)'.isPaid = full
         /\ \A p \in Payables :
              /\ Payable(p)'.status = Payable(p).status
              /\ Payable(p)'.total = Payable(p).total
              /\ p # d => Payable(p)'.paid = Payable(p).paid /\ Payable(p)'.isPaid = Payable(p).isPaid
<1>1. \A i \in Invoices :
        /\ invoices'[i].status = invoices[i].status /\ invoices'[i].total = invoices[i].total
        /\ i # d => invoices'[i] = invoices[i]
        /\ i = d => invoices'[i].paid = n /\ invoices'[i].isPaid = full
  BY DEF SetPayable, InvoiceRow
<1>2. \A b \in Bills :
        /\ bills'[b].status = bills[b].status /\ bills'[b].total = bills[b].total
        /\ b # d => bills'[b] = bills[b]
        /\ b = d => bills'[b].paid = n /\ bills'[b].isPaid = full
  BY DEF SetPayable, BillRow
<1>3. QED
  BY <1>1, <1>2 DEF Payable, Payables

(* A step that pays nothing and leaves the vouchers.                       *)
LEMMA NothingPaid ==
  ASSUME UNCHANGED vouchers, NEW d,
         Stored(d)' => Stored(d) /\ Payable(d)'.paid = Payable(d).paid
  PROVE  Balanced(d)
<1>1. Received(d)' = Received(d)
  BY ReceivedSame
<1>2. QED
  BY <1>1 DEF Balanced

(* The handlers of invoices.                                               *)
LEMMA InvoiceStepPays ==
  ASSUME PayInv, NEW r \in Requests, InvoiceBegin(r) \/ InvoiceContinue(r) \/ InvoiceFail(r)
  PROVE  /\ \A d \in Payables : Lasting(d) /\ Balanced(d)
         /\ \A v \in Vouchers : vouchers'[v] # vouchers[v] => ~VoucherLocked(v)
         /\ \A v \in Vouchers : vouchers'[v].status = "ACTIVE" => vouchers[v].status = "ACTIVE"
<1> DEFINE Goal == /\ \A d \in Payables : Lasting(d) /\ Balanced(d)
                   /\ \A v \in Vouchers : vouchers'[v].status = "ACTIVE" => vouchers[v].status = "ACTIVE"
<1>1. /\ invoices \in [Invoices -> InvoiceRow] /\ bills \in [Bills -> BillRow]
      /\ vouchers \in [Vouchers -> VoucherRow]
      /\ pc[r] \in InvoicingSteps \ {"idle"} => doc[r] \in Invoices
  BY DEF PayInv, Typed, TypedWith, HandlersOK, SchemaTypeOK
<1>2. \A v \in Vouchers : vouchers'[v] # vouchers[v] => ~VoucherLocked(v)
  BY DEF InvoiceBegin, InvoiceContinue, InvoiceFail, VouchersFree, Begin, Fail, CreateInvoice,
         PublishBegin, CancelBegin, UpdateBegin, DeleteBegin, tables
<1>3. ASSUME UNCHANGED <<bills, vouchers>>,
             \A i \in Invoices : /\ invoices'[i].paid = invoices[i].paid
                                 /\ \/ invoices'[i].status = invoices[i].status
                                    \/ /\ invoices[i].status \notin {"ABSENT", "DELETED"}
                                       /\ invoices'[i].status \notin {"ABSENT", "DELETED"}
      PROVE  Goal
  <2>1. \A d \in Payables : Stored(d)' <=> Stored(d)
    BY <1>3 DEF Stored, Payable, Payables
  <2>2. \A d \in Payables : Payable(d)'.paid = Payable(d).paid
    BY <1>3 DEF Payable, Payables
  <2>3. \A d \in Payables : Lasting(d)
    BY <1>3, <2>1 DEF Lasting, Payable, Payables
  <2>4. QED
    BY <1>3, <2>1, <2>2, <2>3, NothingPaid
<1>4. ASSUME NEW i \in Invoices, CreateInvoice(r, i)
      PROVE  Goal
  <2>1. PICK b \in Baskets : invoices' = [invoices EXCEPT ![i] =
          [NoInvoice EXCEPT !.status = "DRAFT", !.lines = b, !.total = Worth[b]]]
    BY <1>4 DEF CreateInvoice
  <2>2. invoices'[i].status = "DRAFT" /\ invoices'[i].paid = 0 /\ invoices[i].status = "ABSENT"
    BY <1>1, <1>4, <2>1 DEF CreateInvoice, NoInvoice
  <2>3. UNCHANGED <<bills, vouchers>> /\ \A j \in Invoices \ {i} : invoices'[j] = invoices[j]
    BY <1>1, <1>4, <2>1 DEF CreateInvoice
  <2>4. \A d \in Payables \ {i} : Payable(d)' = Payable(d)
    BY <2>3 DEF Payable, Payables
  <2>5. Payable(i)'.status = "DRAFT" /\ Payable(i)'.paid = 0 /\ Payable(i).status = "ABSENT"
    BY <2>2 DEF Payable
  <2>6. \A v \in Vouchers : vouchers[v].link # i
    BY <2>5, NoneIsNoPayable DEF PayInv, Linked, Stored, Payables
  <2>7. Received(i) = 0 /\ Received(i)' = Received(i)
    BY <2>3, <2>6, NothingReceived, ReceivedSame
  <2>8. Lasting(i) /\ Balanced(i)
    BY <2>5, <2>7 DEF Lasting, Balanced, Stored
  <2>9. \A d \in Payables \ {i} : Lasting(d) /\ Balanced(d)
    BY <2>3, <2>4, NothingPaid DEF Lasting, Stored
  <2>10. QED
    BY <2>3, <2>8, <2>9
<1>5. ASSUME CancelCommit(r)
      PROVE  Goal
  <2>0. PICK i \in Invoices : i = doc[r]
    BY <1>1, <1>5 DEF CancelCommit, DeleteCommit, InvoicingSteps
  <2>1. /\ i \in Invoices /\ invoices[i].status = "ISSUED"
        /\ invoices'[i].status = "CANCELED" /\ invoices'[i].paid = invoices[i].paid
        /\ bills' = bills /\ \A j \in Invoices \ {i} : invoices'[j] = invoices[j]
    BY <1>1, <1>5, <2>0 DEF CancelCommit, CanCancel, Cancelable, SetStatus, InvoiceRow, InvoicingSteps
  <2>2. \A v \in Vouchers : vouchers'[v] =
          IF vouchers[v].link = i /\ vouchers[v].status = "ACTIVE"
          THEN [vouchers[v] EXCEPT !.status = "CANCELED"] ELSE vouchers[v]
    BY <1>5, <2>0 DEF CancelCommit, BulkCancelByInvoice
  <2>3. \A v \in Vouchers :
          /\ vouchers'[v].link = vouchers[v].link /\ vouchers'[v].amount = vouchers[v].amount
          /\ vouchers'[v].status = "ACTIVE" => vouchers[v].status = "ACTIVE" /\ vouchers[v].link # i
          /\ vouchers[v].link # i => vouchers'[v].status = vouchers[v].status
    BY <1>1, <2>2 DEF VoucherRow
  <2>4. \A d \in Payables \ {i} : Payable(d)' = Payable(d)
    BY <2>1 DEF Payable, Payables
  <2>5. /\ Payable(i).status = "ISSUED" /\ Payable(i)'.status = "CANCELED"
        /\ Payable(i)'.paid = Payable(i).paid
    BY <2>1 DEF Payable
  <2>6. Received(i)' = 0
    <3>1. \A v \in Vouchers : ~(vouchers'[v].status = "ACTIVE" /\ vouchers'[v].link = i)
      BY <2>3
    <3>2. {v \in Vouchers : vouchers'[v].status = "ACTIVE" /\ vouchers'[v].link = i} = {}
      BY <3>1
    <3>3. QED
      BY <3>2, SumEmpty DEF Received
  <2>7. Lasting(i) /\ Balanced(i)
    BY <2>5, <2>6 DEF Lasting, Balanced, Stored
  <2>8. ASSUME NEW d \in Payables \ {i} PROVE Lasting(d) /\ Balanced(d)
    <3>1. Received(d)' = Received(d)
      BY <2>3, ReceivedSame
    <3>2. QED
      BY <2>4, <3>1 DEF Lasting, Balanced, Stored
  <2>9. QED
    BY <2>3, <2>7, <2>8
<1>6. ASSUME DeleteCommit(r)
      PROVE  Goal
  <2>0. PICK i \in Invoices : i = doc[r]
    BY <1>1, <1>6 DEF CancelCommit, DeleteCommit, InvoicingSteps
  <2>1. /\ i \in Invoices /\ invoices'[i].status = "DELETED"
        /\ bills' = bills /\ \A j \in Invoices \ {i} : invoices'[j] = invoices[j]
    BY <1>1, <1>6, <2>0 DEF DeleteCommit, SetStatus
  <2>2. \A v \in Vouchers : vouchers'[v] =
          IF vouchers[v].link = i THEN [vouchers[v] EXCEPT !.link = None] ELSE vouchers[v]
    BY <1>6, <2>0 DEF DeleteCommit, Unlinked
  <2>3. \A v \in Vouchers :
          /\ vouchers'[v].link = IF vouchers[v].link = i THEN None ELSE vouchers[v].link
          /\ vouchers'[v].amount = vouchers[v].amount /\ vouchers'[v].status = vouchers[v].status
    BY <1>1, <2>2 DEF VoucherRow
  <2>4. \A d \in Payables \ {i} : Payable(d)' = Payable(d)
    BY <2>1 DEF Payable, Payables
  <2>5. Payable(i)'.status = "DELETED" /\ i \in Payables
    BY <2>1 DEF Payable, Payables
  <2>6. Lasting(i) /\ Balanced(i)
    BY <2>3, <2>5, NoneIsNoPayable DEF Lasting, Balanced, Stored
  <2>7. ASSUME NEW d \in Payables \ {i} PROVE Lasting(d) /\ Balanced(d)
    <3>1. Received(d)' = Received(d)
      BY <2>3, ReceivedSame, NoneIsNoPayable
    <3>2. QED
      BY <2>4, <3>1 DEF Lasting, Balanced, Stored
  <2>8. QED
    BY <2>3, <2>6, <2>7
<1>7. ASSUME Reserve(r) \/ LockCommit(r) \/ RollbackCommit(r)
      PROVE  Goal
  BY <1>1, <1>3, <1>7 DEF Reserve, CanReserve, LockCommit, RollbackCommit, Exists, SetStatus, InvoiceRow
<1>8. ASSUME UpdateDetails(r) \/ UpdateHeader(r)
      PROVE  Goal
  <2>1. PICK l, n : invoices' = [invoices EXCEPT ![doc[r]].lines = l, ![doc[r]].total = n]
                    \/ invoices' = [invoices EXCEPT ![doc[r]].total = n]
    BY <1>8 DEF UpdateDetails, UpdateHeader
  <2>2. \A i \in Invoices : /\ invoices'[i].paid = invoices[i].paid
                            /\ invoices'[i].status = invoices[i].status
    BY <1>1, <2>1 DEF InvoiceRow
  <2>3. QED
    BY <1>3, <1>8, <2>2 DEF UpdateDetails, UpdateHeader
<1>9. ASSUME UNCHANGED tables
      PROVE  Goal
  BY <1>3, <1>9 DEF tables
<1>10. Goal
  BY <1>4, <1>5, <1>6, <1>7, <1>8, <1>9
     DEF InvoiceBegin, InvoiceContinue, InvoiceFail, Begin, Continue, Fail, Refuse, PublishBegin,
         CancelBegin, UpdateBegin, DeleteBegin, LockRead, RollbackRead, tables
<1>11. QED
  BY <1>2, <1>10

(* A step that leaves the status of the invoices, and of each what is paid *)
(* follows what is received.                                               *)
LEMMA SettledStep ==
  ASSUME \A d \in Payables : Payable(d)'.status = Payable(d).status,
         \A d \in Payables : Stored(d) =>
           Payable(d)'.paid - Received(d)' = Payable(d).paid - Received(d)
  PROVE  \A d \in Payables : Lasting(d) /\ Balanced(d)
<1>1. \A d \in Payables : Stored(d)' <=> Stored(d)
  BY DEF Stored
<1>2. QED
  BY <1>1 DEF Lasting, Balanced

(* The handlers of vouchers.                                               *)
LEMMA VoucherStepPays ==
  ASSUME PayInv, Typed', NEW r \in Requests, VoucherStart(r) \/ VoucherProceed(r) \/ VoucherDie(r)
  PROVE  /\ \A d \in Payables : Lasting(d) /\ Balanced(d)
         /\ \A v \in Vouchers : Written(v) => Linked(v)'
         /\ \A s \in Requests \ {r} : pc[s] = "reverting" =>
              vouchers'[doc[s]].status = vouchers[doc[s]].status
<1> DEFINE Pay == \A d \in Payables : Lasting(d) /\ Balanced(d)
           Write == \A v \in Vouchers : Written(v) => Linked(v)'
           Leave == \A s \in Requests \ {r} : pc[s] = "reverting" =>
                      vouchers'[doc[s]].status = vouchers[doc[s]].status
           Goal == Pay /\ Write /\ Leave
<1>1. /\ invoices \in [Invoices -> InvoiceRow] /\ bills \in [Bills -> BillRow]
      /\ vouchers \in [Vouchers -> VoucherRow] /\ vouchers' \in [Vouchers -> VoucherRow]
  BY DEF PayInv, Typed, TypedWith, HandlersOK, SchemaTypeOK
<1>2. \A s \in Requests : pc[s] \in VoucherSteps \ {"idle"} => doc[s] \in Vouchers
  BY DEF PayInv, Typed, TypedWith
<1>3. \A d \in Payables : Payable(d).paid \in Int /\ Received(d) \in Nat /\ Received(d)' \in Nat
  <2>1. \A d \in Payables : Received(d) \in Nat /\ Received(d)' \in Nat
    BY <1>1, ReceivedNat DEF Received
  <2>2. QED
    BY <1>1, <2>1, PayableTypes
<1>4. ASSUME UNCHANGED <<invoices, bills, vouchers>>
      PROVE  Goal
  <2>1. \A d \in Payables : Payable(d)' = Payable(d)
    BY <1>4 DEF Payable
  <2>2. \A d \in Payables : Received(d)' = Received(d)
    BY <1>4, ReceivedSame
  <2>3. Pay
    BY <2>1, <2>2, SettledStep
  <2>4. QED
    BY <1>4, <2>3 DEF Written
<1>5. ASSUME NEW v \in Vouchers, Collect(r, v)
      PROVE  Goal
  <2>1. PICK n \in Amounts, t \in VoucherTypes, d \in Payables \cup {None} :
          /\ d # None => t = TypeFor(d) /\ CanPay(d, n)
          /\ IF d = None THEN UNCHANGED <<invoices, bills>>
             ELSE SetPayable(d, Payable(d).paid + n, Payable(d).paid + n = Payable(d).total)
          /\ vouchers' = [vouchers EXCEPT ![v] =
               [status |-> "ACTIVE", type |-> t, amount |-> n, link |-> d]]
    BY <1>5 DEF Collect
  <2>2. /\ vouchers'[v].status = "ACTIVE" /\ vouchers'[v].type = t
        /\ vouchers'[v].amount = n /\ vouchers'[v].link = d
        /\ \A u \in Vouchers \ {v} : vouchers'[u] = vouchers[u]
    BY <1>1, <2>1
  <2>3. vouchers[v].status = "ABSENT" /\ n \in Nat
    BY <1>5, SchemaAssumption DEF Collect, SchemaAssumption
  <2>4. \A p \in Payables : Gives(v, p) = 0 /\ Gives(v, p)' = IF p = d THEN n ELSE 0
    BY <2>2, <2>3 DEF Gives
  <2>5. \A p \in Payables : Received(p)' = Received(p) + IF p = d THEN n ELSE 0
    BY <1>1, <1>3, <2>2, <2>3, <2>4, ReceivedMoves
  <2>6. \A p \in Payables : /\ Payable(p)'.status = Payable(p).status
                            /\ Payable(p)'.paid = Payable(p).paid + IF p = d THEN n ELSE 0
    <3>1. CASE d = None
      BY <1>3, <2>1, <3>1, NoneIsNoPayable DEF Payable
    <3>2. CASE d # None
      <4> DEFINE full == (Payable(d).paid + n = Payable(d).total)
      <4>1. d \in Payables /\ SetPayable(d, Payable(d).paid + n, full)
        BY <2>1, <3>2
      <4> HIDE DEF full
      <4>2. QED
        BY <1>1, <1>3, <4>1, PayingWrites
    <3>3. QED
      BY <3>1, <3>2
  <2>7. Pay
    BY <1>3, <2>3, <2>5, <2>6, SettledStep
  <2>8. Linked(v)'
    <3>1. d # None => Stored(d)'
      BY <2>1, <2>6 DEF CanPay, Stored
    <3>2. QED
      BY <2>1, <2>2, <3>1 DEF Linked, TypeFor
  <2>9. Write
    BY <2>2, <2>8 DEF Written
  <2>10. Leave
    BY <1>2, <2>2, <2>3 DEF PayInv, Relied, VoucherSteps
  <2>11. QED
    BY <2>7, <2>9, <2>10
<1>6. ASSUME AmendCommit(r)
      PROVE  Goal
  <2>1. PICK v \in Vouchers : v = doc[r]
    BY <1>2, <1>6 DEF AmendCommit, VoucherSteps
  <2>2. PICK e \in Edits : e = task[r].edit
    BY DEF PayInv, Typed, TypedWith, TaskTypeOK
  <2>3. e.link = None /\ (vouchers[v].link # None => KeepsLockedFields(v, e))
    BY <1>6, <2>1, <2>2 DEF PayInv, SettleInv, AtWork, AmendCommit
  <2>4. UNCHANGED <<invoices, bills>>
    BY <1>6, <2>2, <2>3 DEF AmendCommit, NewLink
  <2>5. vouchers' = [vouchers EXCEPT ![v] =
              [status |-> vouchers[v].status,
               type |-> Given(e.type, vouchers[v].type),
               amount |-> Given(e.amount, vouchers[v].amount),
               link |-> Given(e.link, vouchers[v].link)]]
    BY <1>1, <1>6, <2>1, <2>2, AmendWrites DEF AmendCommit, NewLink
  <2>6. /\ vouchers'[v].status = vouchers[v].status /\ vouchers'[v].link = vouchers[v].link
        /\ vouchers[v].link # None => vouchers'[v].amount = vouchers[v].amount
        /\ \A u \in Vouchers \ {v} : vouchers'[u] = vouchers[u]
    BY <1>1, <2>3, <2>5 DEF Given, KeepsLockedFields
  <2>7. \A d \in Payables : Received(d)' = Received(d)
    BY <2>6, NoneIsNoPayable, ReceivedSame
  <2>8. Pay
    BY <2>4, <2>7, SettledStep DEF Payable
  <2>9. QED
    BY <2>6, <2>8, <1>2 DEF Written, VoucherSteps
<1>7. ASSUME RevokeCommit(r)
      PROVE  Goal
  <2>1. PICK v \in Vouchers : v = doc[r]
    BY <1>2, <1>7 DEF RevokeCommit, VoucherSteps
  <2>2. PICK w \in VoucherRow : w = task[r].voucher
    BY DEF PayInv, Typed, TypedWith, TaskTypeOK
  <2>3. /\ w.link = None => vouchers[v].link = None
        /\ w.link # None =>
             /\ w.type = TypeFor(w.link)
             /\ \/ vouchers[v].link = w.link /\ vouchers[v].amount = w.amount
                \/ vouchers[v].link = None /\ Payable(w.link).status = "DELETED"
        /\ vouchers[v].status = "ACTIVE"
    BY <1>7, <2>1, <2>2 DEF PayInv, Relied, RevokeCommit
  <2>4. /\ vouchers'[v].status = "CANCELED"
        /\ \A u \in Vouchers \ {v} : vouchers'[u] = vouchers[u]
    BY <1>1, <1>7, <2>1 DEF RevokeCommit, VoucherRow
  <2>5. \A p \in Payables :
          /\ Gives(v, p) = IF vouchers[v].link = p THEN vouchers[v].amount ELSE 0
          /\ Gives(v, p)' = 0
    BY <2>3, <2>4 DEF Gives
  <2>6. \A p \in Payables : Received(p)' = Received(p) - Gives(v, p)
    BY <1>1, <1>3, <2>4, <2>5, ReceivedMoves, VoucherValues
  <2>7. CASE Pays(w)
    <3>1. w.link \in Payables /\ w.amount \in Nat
      BY <2>7, VoucherValues DEF Pays
    <3>2. vouchers[v].link = w.link /\ vouchers[v].amount = w.amount
      BY <1>7, <2>2, <2>3, <2>7 DEF RevokeCommit, Pays, Stored
    <3>3. SetPayable(w.link, Payable(w.link).paid - w.amount, FALSE)
      BY <1>7, <2>2, <2>7 DEF RevokeCommit, RevertInvoicePayment
    <3>4. \A p \in Payables :
            /\ Payable(p)'.status = Payable(p).status
            /\ Payable(p)'.paid = Payable(p).paid - IF p = w.link THEN w.amount ELSE 0
      <4> DEFINE m == Payable(w.link).paid - w.amount
      <4>1. m \in Int /\ SetPayable(w.link, m, FALSE)
        <5>1. Payable(w.link).paid \in Int
          BY <1>3, <3>1
        <5>2. m \in Int
          BY <3>1, <5>1
        <5>3. QED
          BY <3>3, <5>2
      <4> HIDE DEF m
      <4>2. /\ Payable(w.link)'.paid = m
            /\ \A p \in Payables : /\ Payable(p)'.status = Payable(p).status
                                   /\ p # w.link => Payable(p)'.paid = Payable(p).paid
        BY <1>1, <3>1, <4>1, PayingWrites
      <4>3. QED
        BY <1>3, <3>1, <4>2 DEF m
    <3>5. \A p \in Payables : Received(p)' = Received(p) - IF p = w.link THEN w.amount ELSE 0
      BY <2>5, <2>6, <3>2
    <3>6. Pay
      BY <1>3, <3>1, <3>4, <3>5, SettledStep
    <3>7. Write /\ Leave
      <4>1. \A s \in Requests \ {r} : pc[s] = "reverting" => doc[s] \in Vouchers /\ doc[s] # v
        BY <1>2, <1>7, <2>1 DEF PayInv, OneReverts, RevokeCommit, VoucherSteps
      <4>2. QED
        BY <2>4, <4>1 DEF Written
    <3>8. QED
      BY <3>6, <3>7
  <2>8. CASE ~Pays(w)
    <3>1. UNCHANGED <<invoices, bills>>
      BY <1>7, <2>2, <2>8 DEF RevokeCommit, RevertInvoicePayment
    <3>2. w.link # None => w.amount = 0
      BY <2>3, <2>8, VoucherValues DEF Pays
    <3>3. \A p \in Payables : Gives(v, p) = 0
      BY <2>3, <2>5, <3>2, NoneIsNoPayable
    <3>4. Pay
      BY <1>3, <2>6, <3>1, <3>3, SettledStep DEF Payable
    <3>5. Write /\ Leave
      <4>1. \A s \in Requests \ {r} : pc[s] = "reverting" => doc[s] \in Vouchers /\ doc[s] # v
        BY <1>2, <1>7, <2>1 DEF PayInv, OneReverts, RevokeCommit, VoucherSteps
      <4>2. QED
        BY <2>4, <4>1 DEF Written
    <3>6. QED
      BY <3>4, <3>5
  <2>9. QED
    BY <2>7, <2>8
<1>8. ASSUME RemoveCommit(r)
      PROVE  Goal
  <2>1. PICK v \in Vouchers : v = doc[r]
    BY <1>2, <1>8 DEF RemoveCommit, VoucherSteps
  <2>2. /\ vouchers'[v].status = "DELETED" /\ vouchers'[v].link = vouchers[v].link
        /\ vouchers[v].link = None
        /\ \A u \in Vouchers \ {v} : vouchers'[u] = vouchers[u]
    BY <1>1, <1>8, <2>1 DEF RemoveCommit, PayInv, SettleInv, AtWork, VoucherRow
  <2>3. \A d \in Payables : Received(d)' = Received(d)
    BY <2>2, NoneIsNoPayable, ReceivedSame
  <2>4. Pay
    BY <1>8, <2>3, SettledStep DEF RemoveCommit, Payable
  <2>5. \A s \in Requests \ {r} : pc[s] = "reverting" => doc[s] \in Vouchers /\ doc[s] # v
    BY <1>2, <1>8, <2>1 DEF RemoveCommit, VoucherLocked, VoucherSteps
  <2>6. QED
    BY <2>2, <2>4, <2>5 DEF Written
<1>9. Goal
  BY <1>4, <1>5, <1>6, <1>7, <1>8
     DEF VoucherStart, VoucherProceed, VoucherDie, VoucherBegin, VoucherContinue, VoucherFail,
         VoucherRefuse, AmendBegin, LinkBegin, Edit, RevokeBegin, RemoveBegin, LinkRead, RevokeMark,
         tables
<1>10. QED
  BY <1>9

-----------------------------------------------------------------------------
(* A linked voucher follows its invoice.                                   *)
LEMMA LinkedFollows ==
  ASSUME PayInv, RowsFollow, \A d \in Payables : Lasting(d),
         \A v \in Vouchers : Written(v) => Linked(v)'
  PROVE  \A v \in Vouchers : Linked(v)'
<1> SUFFICES ASSUME NEW v \in Vouchers, Kept(v), vouchers'[v].link # None
             PROVE  Linked(v)'
  BY DEF RowsFollow, Linked
<1>1. PICK d \in Payables : d = vouchers[v].link
  <2>1. vouchers[v].link # None
    BY DEF Kept
  <2>2. QED
    BY <2>1, VoucherValues DEF PayInv, Typed, TypedWith, HandlersOK, SchemaTypeOK
<1>2. vouchers'[v].link = d /\ vouchers'[v].type = vouchers[v].type
  BY <1>1 DEF Kept
<1>3. Stored(d) /\ vouchers[v].type = TypeFor(d)
  BY <1>1, NoneIsNoPayable DEF PayInv, Linked
<1>4. Stored(d)'
  BY <1>2, <1>3 DEF Lasting
<1>5. QED
  BY <1>2, <1>3, <1>4 DEF Linked, TypeFor

(* So does what a cancellation under way relies on.                        *)
LEMMA OthersRelied ==
  ASSUME PayInv, RowsFollow, \A d \in Payables : Lasting(d), NEW s \in Requests,
         pc'[s] = pc[s], doc'[s] = doc[s], task'[s] = task[s],
         pc[s] = "reverting" => vouchers'[doc[s]].status = vouchers[doc[s]].status
  PROVE  Relied(s)'
<1>1. CASE pc[s] \notin {"revoking", "reverting"}
  BY <1>1 DEF Relied
<1>2. CASE pc[s] \in {"revoking", "reverting"}
  <2>1. PICK v \in Vouchers : v = doc[s]
    BY <1>2 DEF PayInv, Typed, TypedWith, VoucherSteps
  <2>2. PICK w \in VoucherRow : w = task[s].voucher
    BY DEF PayInv, Typed, TypedWith, TaskTypeOK
  <2>3. Kept(v)
    BY <1>2, <2>1 DEF PayInv, SettleInv, AtWork, RowsFollow, Written, VoucherSteps
  <2>4. /\ w.link = None => vouchers[v].link = None
        /\ w.link # None =>
             /\ w.type = TypeFor(w.link)
             /\ \/ vouchers[v].link = w.link /\ vouchers[v].amount = w.amount
                \/ vouchers[v].link = None /\ Payable(w.link).status = "DELETED"
        /\ pc[s] = "reverting" => vouchers[v].status = "ACTIVE"
    BY <1>2, <2>1, <2>2 DEF PayInv, Relied
  <2>5. w.link = None => vouchers'[v].link = None
    BY <2>3, <2>4 DEF Kept
  <2>6. ASSUME w.link # None
        PROVE  \/ vouchers'[v].link = w.link /\ vouchers'[v].amount = w.amount
               \/ vouchers'[v].link = None /\ Payable(w.link)'.status = "DELETED"
    <3>1. PICK d \in Payables : d = w.link
      BY <2>2, <2>6, VoucherValues
    <3>2. CASE vouchers[v].link = d /\ vouchers[v].amount = w.amount
      <4>1. Stored(d)
        BY <3>2, NoneIsNoPayable DEF PayInv, Linked
      <4>2. \/ vouchers'[v].link = d /\ vouchers'[v].amount = w.amount
            \/ vouchers'[v].link = None /\ Payable(d)'.status = "DELETED"
        BY <2>3, <3>2, <4>1 DEF Kept, Lasting
      <4>3. QED
        BY <3>1, <4>2 DEF Payable
    <3>3. CASE vouchers[v].link = None /\ Payable(d).status = "DELETED"
      <4>1. vouchers'[v].link = None /\ Payable(d)'.status = "DELETED"
        BY <2>3, <3>3 DEF Kept, Lasting
      <4>2. QED
        BY <3>1, <4>1 DEF Payable
    <3>4. QED
      BY <2>4, <2>6, <3>1, <3>2, <3>3
  <2>7. doc'[s] = v /\ task'[s].voucher = w /\ pc'[s] = pc[s]
    BY <2>1, <2>2
  <2>8. pc[s] = "reverting" => vouchers'[v].status = "ACTIVE"
    BY <2>1, <2>4
  <2>9. QED
    BY <2>4, <2>5, <2>6, <2>7, <2>8 DEF Relied, TypeFor, Payable
<1>3. QED
  BY <1>1, <1>2

(* The sessions of a step of request r: the others stay where they are,    *)
(* and r is not canceling a voucher unless it begins to, or marks it.      *)
LEMMA RevokingSessions ==
  ASSUME PayInv, NEW r \in Requests,
         \/ InvoiceBegin(r) \/ InvoiceContinue(r) \/ InvoiceFail(r)
         \/ VoucherStart(r) \/ VoucherProceed(r) \/ VoucherDie(r)
  PROVE  /\ \A s \in Requests \ {r} : pc'[s] = pc[s] /\ doc'[s] = doc[s] /\ task'[s] = task[s]
         /\ \/ pc'[r] \notin {"revoking", "reverting"}
            \/ \E v \in Vouchers : RevokeBegin(r, v)
            \/ RevokeMark(r)
<1>1. /\ pc \in [Requests -> AllSteps] /\ doc \in [Requests -> Documents \cup {None}]
      /\ DOMAIN task = Requests
  BY DEF PayInv, Typed, TypedWith, HandlersOK, SchemaTypeOK, TaskTypeOK
<1>2. CASE InvoiceBegin(r) \/ InvoiceContinue(r) \/ InvoiceFail(r)
  BY <1>1, <1>2 DEF InvoiceBegin, InvoiceContinue, InvoiceFail, Begin, Continue, Fail, Refuse,
         CreateInvoice, PublishBegin, CancelBegin, UpdateBegin, DeleteBegin, Reserve, LockRead,
         LockCommit, RollbackRead, RollbackCommit, CancelCommit, UpdateDetails, UpdateHeader,
         DeleteCommit, Respond, Goto, Accept
<1>3. CASE VoucherStart(r)
  BY <1>1, <1>3 DEF VoucherStart, VoucherBegin, Collect, AmendBegin, LinkBegin, Edit, RemoveBegin,
         RevokeBegin, Begun, Goto, Accept
<1>4. CASE VoucherProceed(r) \/ VoucherDie(r)
  BY <1>1, <1>4 DEF VoucherProceed, VoucherDie, VoucherContinue, VoucherFail, VoucherRefuse, LinkRead,
         AmendCommit, RevokeMark, RevokeCommit, RemoveCommit, EndTask, Respond, Goto
<1>5. QED
  BY <1>2, <1>3, <1>4

(* A cancellation relies on what it read from the start, and marks only a  *)
(* voucher that nobody else is reverting.                                  *)
LEMMA StepRelied ==
  ASSUME PayInv, RowsFollow, \A d \in Payables : Lasting(d), NEW r \in Requests,
         \/ InvoiceBegin(r) \/ InvoiceContinue(r) \/ InvoiceFail(r)
         \/ VoucherStart(r) \/ VoucherProceed(r) \/ VoucherDie(r),
         \A s \in Requests \ {r} : pc[s] = "reverting" =>
           vouchers'[doc[s]].status = vouchers[doc[s]].status
  PROVE  (\A s \in Requests : Relied(s)') /\ OneReverts'
<1>1. \A s \in Requests \ {r} : pc'[s] = pc[s] /\ doc'[s] = doc[s] /\ task'[s] = task[s]
  BY RevokingSessions
<1>2. \A s \in Requests \ {r} : Relied(s)'
  BY <1>1, OthersRelied
<1>3. CASE pc'[r] \notin {"revoking", "reverting"}
  <2>1. Relied(r)'
    BY <1>3 DEF Relied
  <2>2. OneReverts'
    BY <1>1, <1>3 DEF PayInv, OneReverts
  <2>3. QED
    BY <1>2, <2>1, <2>2
<1>4. ASSUME NEW v \in Vouchers, RevokeBegin(r, v)
      PROVE  Relied(r)' /\ OneReverts'
  <2>1. /\ pc'[r] = "revoking" /\ doc'[r] = v /\ task'[r].voucher = vouchers[v]
        /\ UNCHANGED <<invoices, bills, vouchers>>
    BY <1>4 DEF RevokeBegin, Begun, NoTask, Goto, tables, PayInv, SettleInv, Shapes
  <2>2. vouchers[v].link # None => vouchers[v].type = TypeFor(vouchers[v].link)
    BY DEF PayInv, Linked
  <2>3. Relied(r)'
    BY <2>1, <2>2 DEF Relied, TypeFor
  <2>4. OneReverts'
    BY <1>1, <2>1 DEF PayInv, OneReverts
  <2>5. QED
    BY <2>3, <2>4
<1>5. ASSUME RevokeMark(r)
      PROVE  Relied(r)' /\ OneReverts'
  <2>1. /\ pc[r] = "revoking" /\ pc'[r] = "reverting" /\ doc'[r] = doc[r] /\ task'[r] = task[r]
        /\ UNCHANGED <<invoices, bills, vouchers>> /\ vouchers[doc[r]].status = "ACTIVE"
        /\ \A s \in Requests : pc[s] = "reverting" => doc[s] # doc[r]
    BY <1>5 DEF RevokeMark, CanRevoke, VoucherLocked, Goto, tables, PayInv, SettleInv, Shapes
  <2>2. Relied(r)'
    BY <2>1 DEF PayInv, Relied, TypeFor, Payable
  <2>3. OneReverts'
    BY <1>1, <2>1 DEF PayInv, OneReverts
  <2>4. QED
    BY <2>2, <2>3
<1>6. QED
  BY <1>2, <1>3, <1>4, <1>5, RevokingSessions

(* Every step keeps the invariant and balances the payments.               *)
LEMMA StepPays ==
  ASSUME NoLinking, PayInv, SettleInv', Typed', [SettlementNext]_allVars
  PROVE  PayInv' /\ \A d \in Payables : Balanced(d)
<1>1. RowsFollow
  BY StepRows DEF PayInv, SettleInv
<1>2. CASE UNCHANGED allVars
  <2>1. UNCHANGED <<invoices, bills, vouchers, pc, doc, task>>
    BY <1>2 DEF allVars, vars, tables
  <2>2. \A d \in Payables : Lasting(d) /\ Balanced(d)
    BY <2>1, NothingPaid DEF Lasting, Stored, Payable
  <2>3. \A v \in Vouchers : Linked(v)'
    BY <2>1 DEF PayInv, Linked, Stored, Payable, TypeFor
  <2>4. \A s \in Requests : Relied(s)'
    BY <1>1, <2>1, <2>2, OthersRelied
  <2>5. OneReverts'
    BY <2>1 DEF PayInv, OneReverts
  <2>6. QED
    BY <2>2, <2>3, <2>4, <2>5 DEF PayInv
<1>3. ASSUME NEW r \in Requests, InvoiceBegin(r) \/ InvoiceContinue(r) \/ InvoiceFail(r)
      PROVE  PayInv' /\ \A d \in Payables : Balanced(d)
  <2>1. /\ \A d \in Payables : Lasting(d) /\ Balanced(d)
        /\ \A v \in Vouchers : vouchers'[v] # vouchers[v] => ~VoucherLocked(v)
        /\ \A v \in Vouchers : vouchers'[v].status = "ACTIVE" => vouchers[v].status = "ACTIVE"
    BY <1>3, InvoiceStepPays
  <2>2. \A v \in Vouchers : Linked(v)'
    BY <1>1, <2>1, LinkedFollows DEF Written
  <2>3. \A s \in Requests : pc[s] = "reverting" =>
          vouchers'[doc[s]].status = vouchers[doc[s]].status
    BY <2>1 DEF PayInv, Typed, TypedWith, VoucherSteps, VoucherLocked
  <2>4. (\A s \in Requests : Relied(s)') /\ OneReverts'
    BY <1>1, <1>3, <2>1, <2>3, StepRelied
  <2>5. QED
    BY <2>1, <2>2, <2>4 DEF PayInv
<1>4. ASSUME NEW r \in Requests, VoucherStart(r) \/ VoucherProceed(r) \/ VoucherDie(r)
      PROVE  PayInv' /\ \A d \in Payables : Balanced(d)
  <2>1. /\ \A d \in Payables : Lasting(d) /\ Balanced(d)
        /\ \A v \in Vouchers : Written(v) => Linked(v)'
        /\ \A s \in Requests \ {r} : pc[s] = "reverting" =>
             vouchers'[doc[s]].status = vouchers[doc[s]].status
    BY <1>4, VoucherStepPays
  <2>2. \A v \in Vouchers : Linked(v)'
    BY <1>1, <2>1, LinkedFollows
  <2>3. (\A s \in Requests : Relied(s)') /\ OneReverts'
    BY <1>1, <1>4, <2>1, StepRelied
  <2>4. QED
    BY <2>1, <2>2, <2>3 DEF PayInv
<1>5. QED
  BY <1>2, <1>3, <1>4 DEF SettlementNext

(* The invariant of the theorems on payments: what a cancellation read of  *)
(* its voucher is what it pays when it is written back, although neither   *)
(* the voucher nor the invoice was locked when it was read.                *)
THEOREM Paying == NoLinking => (SettlementSpec => []PayInv)
<1> SUFFICES ASSUME NoLinking PROVE SettlementSpec => []PayInv
  OBVIOUS
<1>1. SettlementInit => (\A v \in Vouchers : Linked(v)) /\ (\A r \in Requests : Relied(r)) /\ OneReverts
  BY DEF SettlementInit, Init, SchemaInit, Linked, Relied, OneReverts, NoVoucher
<1>2. SettlementInit /\ SettleInv /\ Typed => PayInv
  BY <1>1 DEF PayInv
<1>3. PayInv /\ SettleInv' /\ Typed' /\ [SettlementNext]_allVars => PayInv'
  BY StepPays
<1>4. QED
  BY <1>2, <1>3, Settling, SettlementTyping, PTL DEF SettlementSpec

(* No payment is forgotten: whoever collects, edits and cancels vouchers,  *)
(* and publishes, edits, cancels and deletes invoices at once, an invoice  *)
(* counts at least what its active vouchers add up to (create, update and  *)
(* cancel of vouchers.service.ts, bulkCancelByInvoice).                    *)
THEOREM NoPaymentForgotten == NoLinking => (SettlementSpec => []PaidCoversReceived)
<1> SUFFICES ASSUME NoLinking PROVE SettlementSpec => []PaidCoversReceived
  OBVIOUS
<1> DEFINE Covered == \A d \in Payables : Stored(d) => Payable(d).paid >= Received(d)
<1>1. SettlementInit => Covered
  BY DEF SettlementInit, Init, SchemaInit, Stored, Payable, Payables, NoInvoice, NoBill
<1>2. ASSUME Covered, PayInv, PayInv', [SettlementNext]_allVars
      PROVE  Covered'
  <2> SUFFICES ASSUME NEW d \in Payables, Stored(d)'
               PROVE  Payable(d)'.paid >= Received(d)'
    BY DEF Payable
  <2>1. Balanced(d)
    BY <1>2, StepPays DEF PayInv
  <2>2. Payable(d).paid \in Int /\ Payable(d)'.paid \in Int
    BY <1>2 DEF PayInv, Typed, TypedWith, HandlersOK, SchemaTypeOK, Payable, Payables, InvoiceRow, BillRow
  <2>3. Received(d) \in Nat /\ Received(d)' \in Nat
    BY <1>2, ReceivedNat DEF PayInv, Typed, TypedWith, HandlersOK, SchemaTypeOK, Received
  <2>4. Stored(d) => Payable(d).paid >= Received(d)
    BY <1>2
  <2>5. QED
    BY <2>1, <2>2, <2>3, <2>4 DEF Balanced
<1>3. Covered => PaidCoversReceived
  BY DEF PaidCoversReceived, Due
<1> HIDE DEF Covered
<1>4. QED
  BY <1>1, <1>2, <1>3, Paying, PTL DEF SettlementSpec

-----------------------------------------------------------------------------
(* The same requests, when only one slot writes a given invoice: no late   *)
(* publication revives an invoice that was canceled with its vouchers.     *)
Timely(r) ==
  /\ pc[r] \in InvoicingSteps \ {"idle"} => <<Operation(pc[r]), doc[r]>> \in Permits[r]
  /\ pc[r] \in {"publishing", "updating", "deleting"} => Editable(invoices[doc[r]])
  /\ pc[r] \in {"awaiting", "locking", "rollingBack"} =>
       invoices[doc[r]].status = "PENDING_ISSUED"

(* What a step does to the status of an invoice, and who does it.          *)
Moved(r, i) ==
  \/ invoices'[i].status = invoices[i].status
  \/ invoices[i].status = "ABSENT" /\ invoices'[i].status = "DRAFT"
  \/ pc[r] \in InvoicingSteps \ {"idle", "canceling"} /\ doc[r] = i
  \/ invoices[i].status = "ISSUED" /\ invoices'[i].status = "CANCELED"

(* Paying and giving back leave the status of every invoice.               *)
LEMMA VoucherKeepsStatus ==
  ASSUME Typed, NEW r \in Requests, VoucherStart(r) \/ VoucherProceed(r) \/ VoucherDie(r)
  PROVE  \A d \in Payables : Payable(d)'.status = Payable(d).status
<1> DEFINE Goal == \A d \in Payables : Payable(d)'.status = Payable(d).status
<1>1. ASSUME \E d, n, full : SetPayable(d, n, full)
      PROVE  Goal
  <2>1. PICK d, n, full : SetPayable(d, n, full)
    BY <1>1
  <2>2. \A i \in Invoices : invoices'[i].status = invoices[i].status
    BY <2>1 DEF SetPayable, Typed, TypedWith, HandlersOK, SchemaTypeOK, InvoiceRow
  <2>3. \A b \in Bills : bills'[b].status = bills[b].status
    BY <2>1 DEF SetPayable, Typed, TypedWith, HandlersOK, SchemaTypeOK, BillRow
  <2>4. QED
    BY <2>2, <2>3 DEF Payable, Payables
<1>2. ASSUME UNCHANGED <<invoices, bills>>
      PROVE  Goal
  BY <1>2 DEF Payable
<1>3. ASSUME NEW v \in Vouchers, Collect(r, v)
      PROVE  Goal
  <2>1. \/ UNCHANGED <<invoices, bills>>
        \/ \E d, n, full : SetPayable(d, n, full)
    BY <1>3 DEF Collect
  <2>2. QED
    BY <1>1, <1>2, <2>1
<1>4. ASSUME AmendCommit(r) \/ RevokeCommit(r)
      PROVE  Goal
  <2>1. \/ UNCHANGED <<invoices, bills>>
        \/ \E d, n, full : SetPayable(d, n, full)
    BY <1>4 DEF AmendCommit, RevokeCommit, RevertInvoicePayment
  <2>2. QED
    BY <1>1, <1>2, <2>1
<1>5. QED
  BY <1>2, <1>3, <1>4
     DEF VoucherStart, VoucherProceed, VoucherDie, VoucherBegin, VoucherContinue, VoucherFail,
         VoucherRefuse, AmendBegin, LinkBegin, Edit, RevokeBegin, RemoveBegin, LinkRead, RevokeMark,
         RemoveCommit, tables

(* A handler of invoices moves one.                                        *)
LEMMA InvoiceMovesStatus ==
  ASSUME Typed, NEW r \in Requests, InvoiceBegin(r) \/ InvoiceContinue(r) \/ InvoiceFail(r)
  PROVE  \A i \in Invoices : Moved(r, i)
<1>1. invoices \in [Invoices -> InvoiceRow]
  BY DEF Typed, TypedWith, HandlersOK, SchemaTypeOK
<1>2. ASSUME NEW j \in Invoices, CreateInvoice(r, j)
      PROVE  \A i \in Invoices : Moved(r, i)
  <2>1. PICK b \in Baskets : invoices' = [invoices EXCEPT ![j] =
          [NoInvoice EXCEPT !.status = "DRAFT", !.lines = b, !.total = Worth[b]]]
    BY <1>2 DEF CreateInvoice
  <2>2. invoices'[j].status = "DRAFT" /\ invoices[j].status = "ABSENT"
    BY <1>1, <1>2, <2>1 DEF CreateInvoice, NoInvoice
  <2>3. \A i \in Invoices \ {j} : invoices'[i] = invoices[i]
    BY <1>1, <2>1
  <2>4. QED
    BY <2>2, <2>3 DEF Moved
<1>3. ASSUME CancelCommit(r)
      PROVE  \A i \in Invoices : Moved(r, i)
  BY <1>1, <1>3 DEF CancelCommit, CanCancel, Cancelable, SetStatus, Moved, InvoiceRow
<1>4. ASSUME Reserve(r) \/ LockCommit(r) \/ RollbackCommit(r) \/ DeleteCommit(r)
      PROVE  \A i \in Invoices : Moved(r, i)
  BY <1>1, <1>4
     DEF Reserve, LockCommit, RollbackCommit, DeleteCommit, SetStatus, Moved, InvoicingSteps
<1>5. ASSUME UpdateDetails(r) \/ UpdateHeader(r)
      PROVE  \A i \in Invoices : Moved(r, i)
  <2>1. PICK l, n : invoices' = [invoices EXCEPT ![doc[r]].lines = l, ![doc[r]].total = n]
                    \/ invoices' = [invoices EXCEPT ![doc[r]].total = n]
    BY <1>5 DEF UpdateDetails, UpdateHeader
  <2>2. \A i \in Invoices : invoices'[i].status = invoices[i].status
    BY <1>1, <2>1 DEF InvoiceRow
  <2>3. QED
    BY <2>2 DEF Moved
<1>6. ASSUME UNCHANGED invoices
      PROVE  \A i \in Invoices : Moved(r, i)
  BY <1>6 DEF Moved
<1>7. QED
  BY <1>2, <1>3, <1>4, <1>5, <1>6
     DEF InvoiceBegin, InvoiceContinue, InvoiceFail, Begin, Continue, Fail, Refuse, PublishBegin,
         CancelBegin, UpdateBegin, DeleteBegin, LockRead, RollbackRead, tables

(* What the acting request leaves for its next step.                       *)
LEMMA ActsTimely ==
  ASSUME Typed, NEW r \in Requests, Timely(r),
         InvoiceBegin(r) \/ InvoiceContinue(r) \/ InvoiceFail(r)
  PROVE  Timely(r)'
<1>1. /\ pc \in [Requests -> AllSteps] /\ doc \in [Requests -> Documents \cup {None}]
      /\ invoices \in [Invoices -> InvoiceRow]
      /\ pc[r] \in InvoicingSteps \ {"idle"} => doc[r] \in Invoices
  BY DEF Typed, TypedWith, HandlersOK, SchemaTypeOK
<1>2. ASSUME pc'[r] = "idle"
      PROVE  Timely(r)'
  BY <1>2 DEF Timely
<1>3. ASSUME NEW i \in Invoices, CreateInvoice(r, i)
      PROVE  Timely(r)'
  BY <1>2, <1>3 DEF CreateInvoice, Accept
<1>4. ASSUME NEW i \in Invoices,
             PublishBegin(r, i) \/ CancelBegin(r, i) \/ UpdateBegin(r, i) \/ DeleteBegin(r, i)
      PROVE  Timely(r)'
  BY <1>1, <1>4 DEF PublishBegin, CancelBegin, UpdateBegin, DeleteBegin, Accept, Goto, Timely,
                    Editable, Operation, tables
<1>5. ASSUME Reserve(r)
      PROVE  Timely(r)'
  BY <1>1, <1>5 DEF Reserve, SetStatus, Goto, Timely, Operation, InvoicingSteps, InvoiceRow
<1>6. ASSUME LockRead(r) \/ RollbackRead(r)
      PROVE  Timely(r)'
  BY <1>1, <1>6 DEF LockRead, RollbackRead, Goto, Timely, Operation, InvoicingSteps, tables
<1>7. QED
  BY <1>1, <1>2, <1>3, <1>4, <1>5, <1>6
     DEF InvoiceBegin, InvoiceContinue, InvoiceFail, Begin, Continue, Fail, Refuse, LockCommit,
         RollbackCommit, CancelCommit, UpdateDetails, UpdateHeader, DeleteCommit, Respond, Goto

(* A request at work is not overtaken, and what is canceled stays so.      *)
LEMMA StepTimely ==
  ASSUME Serialized, PayInv, \A r \in Requests : Timely(r), [SettlementNext]_allVars
  PROVE  /\ \A r \in Requests : Timely(r)'
         /\ \A d \in Payables : Payable(d).status = "CANCELED" => Payable(d)'.status = "CANCELED"
<1> DEFINE Goal == /\ \A r \in Requests : Timely(r)'
                   /\ \A i \in Invoices :
                        invoices[i].status = "CANCELED" => invoices'[i].status = "CANCELED"
<1>1. \A s \in Requests : pc[s] \in InvoicingSteps \ {"idle"} => doc[s] \in Invoices
  BY DEF PayInv, Typed, TypedWith, HandlersOK
<1>2. ASSUME NEW s \in Requests, pc'[s] = pc[s], doc'[s] = doc[s],
             pc[s] \in InvoicingSteps \ {"idle", "canceling"} =>
               invoices'[doc[s]].status = invoices[doc[s]].status
      PROVE  Timely(s)'
  BY <1>2 DEF Timely, Editable, InvoicingSteps
<1>3. ASSUME UNCHANGED allVars
      PROVE  Goal
  BY <1>2, <1>3 DEF allVars, vars, tables
<1>4. ASSUME NEW r \in Requests, InvoiceBegin(r) \/ InvoiceContinue(r) \/ InvoiceFail(r)
      PROVE  Goal
  <2>1. \A i \in Invoices : Moved(r, i)
    BY <1>4, InvoiceMovesStatus DEF PayInv
  <2>2. Timely(r)'
    BY <1>4, ActsTimely DEF PayInv
  <2>3. ASSUME NEW s \in Requests \ {r}
        PROVE  Timely(s)'
    <3>1. pc'[s] = pc[s] /\ doc'[s] = doc[s]
      BY <1>4, <2>3, RevokingSessions
    <3>2. ASSUME pc[s] \in InvoicingSteps \ {"idle", "canceling"}
          PROVE  invoices'[doc[s]].status = invoices[doc[s]].status
      <4>1. PICK i \in Invoices : i = doc[s]
        BY <1>1, <3>2
      <4>2. invoices[i].status \in {"DRAFT", "SYNC_FAILED", "PENDING_ISSUED"}
        BY <3>2, <4>1 DEF Timely, Editable, InvoicingSteps
      <4>3. ~(pc[r] \in InvoicingSteps \ {"idle", "canceling"} /\ doc[r] = i)
        <5> SUFFICES ASSUME pc[r] \in InvoicingSteps \ {"idle", "canceling"}, doc[r] = i
                     PROVE  FALSE
          OBVIOUS
        <5>1. /\ Operation(pc[r]) \in InvoiceOps \ {"cancel"}
              /\ Operation(pc[s]) \in InvoiceOps \ {"cancel"}
          BY <3>2 DEF Operation, InvoicingSteps, InvoiceOps
        <5>2. <<Operation(pc[r]), i>> \in Permits[r] /\ <<Operation(pc[s]), i>> \in Permits[s]
          BY <3>2, <4>1 DEF Timely
        <5>3. QED
          BY <2>3, <5>1, <5>2 DEF Serialized
      <4>4. QED
        BY <2>1, <4>1, <4>2, <4>3 DEF Moved
    <3>3. QED
      BY <1>2, <3>1, <3>2
  <2>4. ASSUME NEW i \in Invoices, invoices[i].status = "CANCELED"
        PROVE  invoices'[i].status = "CANCELED"
    <3>1. ~(pc[r] \in InvoicingSteps \ {"idle", "canceling"} /\ doc[r] = i)
      BY <2>4 DEF Timely, Editable, InvoicingSteps
    <3>2. QED
      BY <2>1, <2>4, <3>1 DEF Moved
  <2>5. QED
    BY <2>2, <2>3, <2>4
<1>5. ASSUME NEW r \in Requests, VoucherStart(r) \/ VoucherProceed(r) \/ VoucherDie(r)
      PROVE  Goal
  <2>1. \A i \in Invoices : invoices'[i].status = invoices[i].status
    BY <1>5, VoucherKeepsStatus DEF PayInv, Payable, Payables
  <2>2. \A s \in Requests \ {r} : Timely(s)'
    BY <1>1, <1>2, <1>5, <2>1, RevokingSessions
  <2>3. pc'[r] \in VoucherSteps
    BY <1>5 DEF PayInv, Typed, TypedWith, HandlersOK, SchemaTypeOK, VoucherStart, VoucherProceed, VoucherDie,
         VoucherBegin, VoucherContinue, VoucherFail, VoucherRefuse, Collect, AmendBegin, LinkBegin,
         Edit, RevokeBegin, RemoveBegin, LinkRead, AmendCommit, RevokeMark, RevokeCommit,
         RemoveCommit, Accept, Respond, Goto, VoucherSteps
  <2>4. Timely(r)'
    BY <2>3 DEF Timely, InvoicingSteps, VoucherSteps
  <2>5. QED
    BY <2>1, <2>2, <2>4
<1>6. Goal
  BY <1>3, <1>4, <1>5 DEF SettlementNext
<1>7. \A d \in Payables \ Invoices : Payable(d)'.status = Payable(d).status
  <2>1. ASSUME NEW r \in Requests, InvoiceBegin(r) \/ InvoiceContinue(r) \/ InvoiceFail(r)
        PROVE  UNCHANGED bills
    BY <2>1 DEF InvoiceBegin, InvoiceContinue, InvoiceFail, Begin, Continue, Fail, Refuse,
         CreateInvoice, PublishBegin, CancelBegin, UpdateBegin, DeleteBegin, Reserve, LockRead,
         LockCommit, RollbackRead, RollbackCommit, CancelCommit, UpdateDetails, UpdateHeader,
         DeleteCommit, tables
  <2>2. UNCHANGED bills => \A d \in Payables \ Invoices : Payable(d)'.status = Payable(d).status
    BY DEF Payable
  <2>3. UNCHANGED allVars => UNCHANGED bills
    BY DEF allVars, vars, tables
  <2>4. ASSUME NEW r \in Requests, VoucherStart(r) \/ VoucherProceed(r) \/ VoucherDie(r)
        PROVE  \A d \in Payables : Payable(d)'.status = Payable(d).status
    BY <2>4, VoucherKeepsStatus DEF PayInv
  <2>5. QED
    BY <2>1, <2>2, <2>3, <2>4 DEF SettlementNext
<1>8. QED
  BY <1>6, <1>7 DEF Payable, Payables

(* No payment is forgotten and none is invented: with one writer for each  *)
(* invoice, but any number of requests that cancel it and that write,      *)
(* edit, cancel and remove its vouchers, paidAmount is the sum of its      *)
(* active vouchers (its column comment in prisma/schema.prisma).           *)
THEOREM PaidMatches == NoLinking /\ Serialized => (SettlementSpec => []PaidIsReceived)
<1> SUFFICES ASSUME NoLinking, Serialized PROVE SettlementSpec => []PaidIsReceived
  OBVIOUS
<1> DEFINE Exact == \A d \in Payables : d \in Due => Payable(d).paid = Received(d)
           InTime == \A r \in Requests : Timely(r)
<1>1. SettlementInit => Exact /\ InTime
  BY DEF SettlementInit, Init, SchemaInit, Due, Stored, Payable, Payables, NoInvoice, NoBill, Timely
<1>2. ASSUME Exact, InTime, PayInv, PayInv', [SettlementNext]_allVars
      PROVE  Exact' /\ InTime'
  <2>1. /\ InTime'
        /\ \A d \in Payables : Payable(d).status = "CANCELED" => Payable(d)'.status = "CANCELED"
    BY <1>2, StepTimely
  <2>2. ASSUME NEW d \in Payables, Stored(d)', Payable(d)'.status # "CANCELED"
        PROVE  Payable(d)'.paid = Received(d)'
    <3>1. Balanced(d)
      BY <1>2, StepPays DEF PayInv
    <3>2. Payable(d).paid \in Int /\ Payable(d)'.paid \in Int
      BY <1>2 DEF PayInv, Typed, TypedWith, HandlersOK, SchemaTypeOK, Payable, Payables, InvoiceRow, BillRow
    <3>3. Received(d) \in Nat /\ Received(d)' \in Nat
      BY <1>2, ReceivedNat DEF PayInv, Typed, TypedWith, HandlersOK, SchemaTypeOK, Received
    <3>4. Stored(d) => Payable(d).paid = Received(d)
      BY <1>2, <2>1, <2>2 DEF Due
    <3>5. QED
      BY <2>2, <3>1, <3>2, <3>3, <3>4 DEF Balanced
  <2>3. Exact'
    BY <2>2 DEF Due
  <2>4. QED
    BY <2>1, <2>3
<1>3. PayInv /\ Exact => PaidIsReceived
  <2> SUFFICES ASSUME PayInv, Exact, NEW d \in Due
               PROVE  Payable(d).paid >= Received(d) /\ Payable(d).paid <= Received(d)
    BY DEF PaidIsReceived, PaidCoversReceived, PaidIsBacked
  <2>1. d \in Payables /\ Payable(d).paid = Received(d)
    BY DEF Due
  <2>2. Payable(d).paid \in Int
    BY <2>1, PayableTypes DEF PayInv, Typed, TypedWith, HandlersOK, SchemaTypeOK
  <2>3. QED
    BY <2>1, <2>2
<1> HIDE DEF Exact, InTime
<1>4. QED
  BY <1>1, <1>2, <1>3, Paying, PTL DEF SettlementSpec

-----------------------------------------------------------------------------
(* From here on vouchers are linked at any time, and any number of         *)
(* requests create, publish, cancel and delete invoices; but none edits    *)
(* one.                                                                    *)

(* An invoice takes no more than it is worth, and is flagged as paid when  *)
(* it took that much; what was read to link a voucher stays worth as much. *)
Within(d) ==
  Stored(d) =>
    /\ Payable(d).paid <= Payable(d).total
    /\ NothingFree => (Payable(d).isPaid <=> Payable(d).paid = Payable(d).total)

Ready(r) ==
  /\ pc[r] # "updating"
  /\ pc[r] = "amending" /\ NewLink(r) # None =>
       /\ Payable(NewLink(r)).status # "ABSENT"
       /\ task[r].paid <= Payable(NewLink(r)).total
       /\ task[r].isPaid <=> task[r].paid = Payable(NewLink(r)).total

LinkInv ==
  /\ Typed
  /\ \A d \in Payables : Within(d)
  /\ \A r \in Requests : Ready(r)

(* What a step does to the money of an invoice: nothing, ...               *)
Unpriced(d) ==
  /\ Payable(d).status # "ABSENT" => /\ Payable(d)'.status # "ABSENT"
                                     /\ Payable(d)'.total = Payable(d).total
  /\ Payable(d).status = "DELETED" => Payable(d)'.status = "DELETED"

(* ... or it creates it, or it pays or gives back some of it.              *)
Priced(d) ==
  Stored(d)' =>
    \/ Stored(d) /\ Payable(d)'.paid = Payable(d).paid /\ Payable(d)'.isPaid = Payable(d).isPaid
    \/ /\ Payable(d)'.paid = 0 /\ Payable(d)'.isPaid = FALSE
       /\ Payable(d)'.total \in Nat /\ (NothingFree => Payable(d)'.total > 0)
    \/ /\ Payable(d)'.paid <= Payable(d)'.total
       /\ Payable(d)'.isPaid <=> Payable(d)'.paid = Payable(d)'.total

(* The handlers of invoices, without edits.                                *)
LEMMA InvoiceKeepsWorth ==
  ASSUME NoEdits, LinkInv, NEW r \in Requests,
         InvoiceBegin(r) \/ InvoiceContinue(r) \/ InvoiceFail(r)
  PROVE  (\A d \in Payables : Unpriced(d) /\ Priced(d)) /\ pc'[r] \notin {"updating", "amending"}
<1> DEFINE Goal == \A d \in Payables : Unpriced(d) /\ Priced(d)
<1>1. /\ invoices \in [Invoices -> InvoiceRow] /\ pc \in [Requests -> AllSteps]
      /\ pc[r] \in InvoicingSteps \ {"idle"} => doc[r] \in Invoices
      /\ pc[r] # "updating"
  BY DEF LinkInv, Ready, Typed, TypedWith, HandlersOK, SchemaTypeOK
<1>2. pc'[r] \notin {"updating", "amending"}
  BY <1>1 DEF InvoiceBegin, InvoiceContinue, InvoiceFail, Begin, Continue, Fail, Refuse,
         CreateInvoice, PublishBegin, CancelBegin, UpdateBegin, DeleteBegin, Reserve, LockRead,
         LockCommit, RollbackRead, RollbackCommit, CancelCommit, UpdateDetails, UpdateHeader,
         DeleteCommit, Respond, Goto, Accept, NoEdits
<1>3. ASSUME NEW j \in Invoices, CreateInvoice(r, j)
      PROVE  Goal
  <2>1. PICK b \in Baskets : invoices' = [invoices EXCEPT ![j] =
          [NoInvoice EXCEPT !.status = "DRAFT", !.lines = b, !.total = Worth[b]]]
    BY <1>3 DEF CreateInvoice
  <2>2. /\ invoices'[j].status = "DRAFT" /\ invoices'[j].paid = 0
        /\ invoices'[j].isPaid = FALSE /\ invoices'[j].total = Worth[b]
        /\ invoices[j].status = "ABSENT"
    BY <1>1, <1>3, <2>1 DEF CreateInvoice, NoInvoice
  <2>3. Worth[b] \in Nat /\ (NothingFree => Worth[b] > 0)
    BY SchemaAssumption DEF SchemaAssumption, NothingFree, Lines
  <2>4. UNCHANGED bills /\ \A i \in Invoices \ {j} : invoices'[i] = invoices[i]
    BY <1>1, <1>3, <2>1 DEF CreateInvoice
  <2>5. Unpriced(j) /\ Priced(j)
    BY <2>2, <2>3 DEF Unpriced, Priced, Payable
  <2>6. \A d \in Payables \ {j} : Payable(d)' = Payable(d)
    BY <2>4 DEF Payable, Payables
  <2>7. \A d \in Payables \ {j} : Unpriced(d) /\ Priced(d)
    BY <2>6 DEF Unpriced, Priced, Stored
  <2>8. QED
    BY <2>5, <2>7
<1>4. ASSUME UNCHANGED bills,
             \A i \in Invoices :
               /\ invoices'[i].total = invoices[i].total /\ invoices'[i].paid = invoices[i].paid
               /\ invoices'[i].isPaid = invoices[i].isPaid
               /\ \/ invoices'[i].status = invoices[i].status
                  \/ invoices[i].status \notin {"ABSENT", "DELETED"} /\ invoices'[i].status # "ABSENT"
      PROVE  Goal
  <2>1. \A d \in Payables :
          /\ Payable(d)'.total = Payable(d).total /\ Payable(d)'.paid = Payable(d).paid
          /\ Payable(d)'.isPaid = Payable(d).isPaid
          /\ \/ Payable(d)'.status = Payable(d).status
             \/ Payable(d).status \notin {"ABSENT", "DELETED"} /\ Payable(d)'.status # "ABSENT"
    BY <1>4 DEF Payable, Payables
  <2>2. QED
    BY <2>1 DEF Unpriced, Priced, Stored
<1>5. ASSUME Reserve(r) \/ LockCommit(r) \/ RollbackCommit(r) \/ CancelCommit(r) \/ DeleteCommit(r)
      PROVE  Goal
  BY <1>1, <1>4, <1>5
     DEF Reserve, CanReserve, LockCommit, RollbackCommit, CancelCommit, CanCancel, Cancelable,
         DeleteCommit, Exists, SetStatus, InvoiceRow
<1>6. ASSUME UNCHANGED tables
      PROVE  Goal
  BY <1>4, <1>6 DEF tables
<1>7. Goal
  BY <1>1, <1>3, <1>5, <1>6
     DEF InvoiceBegin, InvoiceContinue, InvoiceFail, Begin, Continue, Fail, Refuse, PublishBegin,
         CancelBegin, UpdateBegin, DeleteBegin, LockRead, RollbackRead, UpdateDetails, UpdateHeader,
         tables
<1>8. QED
  BY <1>2, <1>7

(* The handlers of vouchers.                                               *)
LEMMA VoucherKeepsWorth ==
  ASSUME LinkInv, NEW r \in Requests, VoucherStart(r) \/ VoucherProceed(r) \/ VoucherDie(r)
  PROVE  \A d \in Payables : Unpriced(d) /\ Priced(d)
<1> DEFINE Goal == \A d \in Payables : Unpriced(d) /\ Priced(d)
<1>1. /\ invoices \in [Invoices -> InvoiceRow] /\ bills \in [Bills -> BillRow]
      /\ \A d \in Payables : Payable(d).paid \in Int /\ Payable(d).total \in Nat
  BY PayableTypes DEF LinkInv, Typed, TypedWith, HandlersOK, SchemaTypeOK
<1>2. ASSUME UNCHANGED <<invoices, bills>>
      PROVE  Goal
  BY <1>2 DEF Unpriced, Priced, Stored, Payable
<1>3. ASSUME NEW d \in Payables, NEW n \in Int, NEW full \in BOOLEAN, SetPayable(d, n, full),
             Stored(d) => n <= Payable(d).total /\ (full <=> n = Payable(d).total)
      PROVE  Goal
  <2>1. /\ Payable(d)'.paid = n /\ Payable(d)'.isPaid = full
        /\ \A p \in Payables :
             /\ Payable(p)'.status = Payable(p).status /\ Payable(p)'.total = Payable(p).total
             /\ p # d => Payable(p)'.paid = Payable(p).paid /\ Payable(p)'.isPaid = Payable(p).isPaid
    BY <1>1, <1>3, PayingWrites
  <2>2. \A p \in Payables : Unpriced(p)
    BY <2>1 DEF Unpriced
  <2>3. Priced(d)
    BY <1>3, <2>1 DEF Priced, Stored
  <2>4. \A p \in Payables \ {d} : Priced(p)
    BY <2>1 DEF Priced, Stored
  <2>5. QED
    BY <2>2, <2>3, <2>4
<1>4. ASSUME NEW v \in Vouchers, Collect(r, v)
      PROVE  Goal
  <2>1. PICK n \in Amounts, d \in Payables \cup {None} :
          /\ d # None => CanPay(d, n)
          /\ IF d = None THEN UNCHANGED <<invoices, bills>>
             ELSE SetPayable(d, Payable(d).paid + n, Payable(d).paid + n = Payable(d).total)
    BY <1>4 DEF Collect
  <2>2. CASE d = None
    BY <1>2, <2>1, <2>2
  <2>3. CASE d # None
    <3> DEFINE m == Payable(d).paid + n
               full == (m = Payable(d).total)
    <3>1. /\ d \in Payables /\ m \in Int /\ full \in BOOLEAN
          /\ m <= Payable(d).total /\ (full <=> m = Payable(d).total)
      BY <1>1, <2>1, <2>3, SchemaAssumption DEF CanPay, SchemaAssumption
    <3>2. SetPayable(d, m, full)
      BY <2>1, <2>3
    <3> HIDE DEF m, full
    <3>3. QED
      BY <1>3, <3>1, <3>2
  <2>4. QED
    BY <2>2, <2>3
<1>5. ASSUME AmendCommit(r)
      PROVE  Goal
  <2>1. CASE NewLink(r) = None
    BY <1>2, <1>5, <2>1 DEF AmendCommit
  <2>2. CASE NewLink(r) # None
    <3>1. PICK d \in Payables : d = NewLink(r)
      BY <2>2 DEF NewLink, LinkInv, Typed, TypedWith, TaskTypeOK, Edits
    <3>2. PICK n \in Int, full \in BOOLEAN : n = task[r].paid /\ full = task[r].isPaid
      BY DEF LinkInv, Typed, TypedWith, TaskTypeOK
    <3>3. SetPayable(d, n, full)
      BY <1>5, <2>2, <3>1, <3>2 DEF AmendCommit
    <3>4. n <= Payable(d).total /\ (full <=> n = Payable(d).total)
      BY <1>5, <2>2, <3>1, <3>2 DEF LinkInv, Ready, AmendCommit
    <3>5. QED
      BY <1>3, <3>3, <3>4
  <2>3. QED
    BY <2>1, <2>2
<1>6. ASSUME RevokeCommit(r)
      PROVE  Goal
  <2>1. PICK w \in VoucherRow : w = task[r].voucher
    BY DEF LinkInv, Typed, TypedWith, TaskTypeOK
  <2>2. CASE Pays(w)
    <3>1. /\ w.link \in Payables /\ w.amount \in Nat /\ w.amount > 0
      BY <2>2, VoucherValues DEF Pays
    <3> DEFINE m == Payable(w.link).paid - w.amount
    <3>2. SetPayable(w.link, m, FALSE)
      BY <1>6, <2>1, <2>2 DEF RevokeCommit, RevertInvoicePayment
    <3>3. m \in Int /\ (Stored(w.link) => m < Payable(w.link).total)
      <4>1. PICK d \in Payables : d = w.link
        BY <3>1
      <4>2. Stored(d) => Payable(d).paid <= Payable(d).total
        BY DEF LinkInv, Within
      <4>3. Payable(d).paid - w.amount \in Int
            /\ (Stored(d) => Payable(d).paid - w.amount < Payable(d).total)
        BY <1>1, <3>1, <4>2
      <4>4. QED
        BY <4>1, <4>3
    <3>4. Payable(w.link).total \in Nat
      BY <1>1, <3>1
    <3> HIDE DEF m
    <3>5. Stored(w.link) => m <= Payable(w.link).total /\ (FALSE <=> m = Payable(w.link).total)
      BY <3>3, <3>4
    <3>6. QED
      BY <1>3, <3>1, <3>2, <3>3, <3>5
  <2>3. CASE ~Pays(w)
    BY <1>2, <1>6, <2>1, <2>3 DEF RevokeCommit, RevertInvoicePayment
  <2>4. QED
    BY <2>2, <2>3
<1>7. QED
  BY <1>2, <1>4, <1>5, <1>6
     DEF VoucherStart, VoucherProceed, VoucherDie, VoucherBegin, VoucherContinue, VoucherFail,
         VoucherRefuse, AmendBegin, LinkBegin, Edit, RevokeBegin, RemoveBegin, LinkRead, RevokeMark,
         RemoveCommit, tables

(* What was read to link a voucher lasts.                                  *)
LEMMA OthersReady ==
  ASSUME LinkInv, \A d \in Payables : Unpriced(d), NEW s \in Requests, Ready(s),
         pc'[s] = pc[s], task'[s] = task[s]
  PROVE  Ready(s)'
<1>1. CASE NewLink(s) = None
  BY <1>1 DEF Ready, NewLink
<1>2. CASE NewLink(s) # None
  <2>1. PICK d \in Payables : d = NewLink(s)
    BY <1>2 DEF NewLink, LinkInv, Typed, TypedWith, TaskTypeOK, Edits
  <2>2. d = NewLink(s)'
    BY <2>1 DEF NewLink
  <2>3. pc[s] = "amending" =>
          /\ Payable(d)'.status # "ABSENT" /\ Payable(d)'.total = Payable(d).total
          /\ task[s].paid <= Payable(d).total
          /\ task[s].isPaid <=> task[s].paid = Payable(d).total
    BY <1>2, <2>1 DEF Ready, Unpriced
  <2>4. pc'[s] = "amending" =>
          /\ Payable(d)'.status # "ABSENT"
          /\ task'[s].paid <= Payable(d)'.total
          /\ task'[s].isPaid <=> task'[s].paid = Payable(d)'.total
    BY <2>3
  <2>5. QED
    BY <2>2, <2>4 DEF Ready, Payable
<1>3. QED
  BY <1>1, <1>2

(* What is read is read of an invoice that takes the amount.               *)
LEMMA LinkReadReady ==
  ASSUME LinkInv, NEW r \in Requests, LinkRead(r)
  PROVE  Ready(r)'
<1> DEFINE n == Payable(NewLink(r)).paid + NewAmount(r)
<1>1. PICK d \in Payables : d = NewLink(r)
  BY DEF LinkRead, NewLink, LinkInv, Typed, TypedWith, VoucherSteps
<1>2. /\ UNCHANGED <<invoices, bills>> /\ pc'[r] = "amending"
      /\ task' = [task EXCEPT ![r] = [@ EXCEPT !.paid = n, !.isPaid = (n = Payable(d).total)]]
      /\ CanPay(d, NewAmount(r))
  BY <1>1 DEF LinkRead, CanLink, Goto, tables, LinkInv, Typed, TypedWith, HandlersOK, SchemaTypeOK
<1>3. task \in [Requests -> [voucher : VoucherRow, edit : Edits, paid : Int, isPaid : BOOLEAN]]
  BY DEF LinkInv, Typed, TypedWith, TaskTypeOK
<1> DEFINE full == (n = Payable(d).total)
<1>4. task'[r] = [task[r] EXCEPT !.paid = n, !.isPaid = full]
  BY <1>2, <1>3
<1> HIDE DEF n, full
<1>5. task'[r].edit = task[r].edit /\ task'[r].paid = n /\ task'[r].isPaid = full
  BY <1>3, <1>4
<1>6. d = NewLink(r)'
  BY <1>1, <1>5 DEF NewLink
<1>7. /\ Payable(d)' = Payable(d) /\ Payable(d).status # "ABSENT"
      /\ n <= Payable(d).total /\ (full <=> n = Payable(d).total)
  BY <1>1, <1>2 DEF CanPay, Stored, Payable, n, full
<1>8. QED
  BY <1>2, <1>5, <1>6, <1>7 DEF Ready, Payable

LEMMA StepWorth ==
  ASSUME NoEdits, LinkInv, Typed', [SettlementNext]_allVars
  PROVE  LinkInv'
<1>1. \A d \in Payables : /\ Payable(d).paid \in Int /\ Payable(d).total \in Nat
                          /\ Payable(d)'.paid \in Int /\ Payable(d)'.total \in Nat
                          /\ Payable(d)'.isPaid \in BOOLEAN
  BY DEF LinkInv, Typed, TypedWith, HandlersOK, SchemaTypeOK, Payable, Payables, InvoiceRow, BillRow
<1>2. ASSUME \A d \in Payables : Unpriced(d) /\ Priced(d)
      PROVE  \A d \in Payables : Within(d)'
  <2> SUFFICES ASSUME NEW d \in Payables, Stored(d)'
               PROVE  /\ Payable(d)'.paid <= Payable(d)'.total
                      /\ NothingFree => (Payable(d)'.isPaid <=> Payable(d)'.paid = Payable(d)'.total)
    BY DEF Within, Payable
  <2>1. CASE Stored(d) /\ Payable(d)'.paid = Payable(d).paid /\ Payable(d)'.isPaid = Payable(d).isPaid
    <3>1. Payable(d)'.total = Payable(d).total
      BY <1>2, <2>1 DEF Unpriced, Stored
    <3>2. QED
      BY <2>1, <3>1 DEF LinkInv, Within
  <2>2. CASE ~(Stored(d) /\ Payable(d)'.paid = Payable(d).paid /\ Payable(d)'.isPaid = Payable(d).isPaid)
    <3>1. \/ /\ Payable(d)'.paid = 0 /\ Payable(d)'.isPaid = FALSE
             /\ Payable(d)'.total \in Nat /\ (NothingFree => Payable(d)'.total > 0)
          \/ /\ Payable(d)'.paid <= Payable(d)'.total
             /\ Payable(d)'.isPaid <=> Payable(d)'.paid = Payable(d)'.total
      BY <1>2, <2>2 DEF Priced
    <3>2. QED
      BY <1>1, <3>1
  <2>3. QED
    BY <2>1, <2>2
<1>3. CASE UNCHANGED allVars
  <2>1. UNCHANGED <<invoices, bills, pc, task>>
    BY <1>3 DEF allVars, vars, tables
  <2>2. \A d \in Payables : Unpriced(d) /\ Priced(d)
    BY <2>1 DEF Unpriced, Priced, Stored, Payable
  <2>3. \A s \in Requests : Ready(s)'
    BY <2>1, <2>2, OthersReady DEF LinkInv
  <2>4. QED
    BY <1>2, <2>2, <2>3 DEF LinkInv
<1>4. ASSUME NEW r \in Requests, InvoiceBegin(r) \/ InvoiceContinue(r) \/ InvoiceFail(r)
      PROVE  LinkInv'
  <2>1. (\A d \in Payables : Unpriced(d) /\ Priced(d)) /\ pc'[r] \notin {"updating", "amending"}
    BY <1>4, InvoiceKeepsWorth
  <2>2. \A s \in Requests \ {r} : pc'[s] = pc[s] /\ task'[s] = task[s]
    BY <1>4 DEF LinkInv, Typed, TypedWith, HandlersOK, SchemaTypeOK, InvoiceBegin, InvoiceContinue, InvoiceFail,
         Begin, Continue, Fail, Refuse, CreateInvoice, PublishBegin, CancelBegin, UpdateBegin,
         DeleteBegin, Reserve, LockRead, LockCommit, RollbackRead, RollbackCommit, CancelCommit,
         UpdateDetails, UpdateHeader, DeleteCommit, Respond, Goto
  <2>3. \A s \in Requests \ {r} : Ready(s)'
    BY <2>1, <2>2, OthersReady DEF LinkInv
  <2>4. Ready(r)'
    BY <2>1 DEF Ready
  <2>5. QED
    BY <1>2, <2>1, <2>3, <2>4 DEF LinkInv
<1>5. ASSUME NEW r \in Requests, VoucherStart(r) \/ VoucherProceed(r) \/ VoucherDie(r)
      PROVE  LinkInv'
  <2>1. \A d \in Payables : Unpriced(d) /\ Priced(d)
    BY <1>5, VoucherKeepsWorth
  <2>2. \A s \in Requests \ {r} : pc'[s] = pc[s] /\ task'[s] = task[s]
    BY <1>5 DEF LinkInv, Typed, TypedWith, HandlersOK, SchemaTypeOK, TaskTypeOK, VoucherStart, VoucherProceed,
         VoucherDie, VoucherBegin, VoucherContinue, VoucherFail, VoucherRefuse, Collect, AmendBegin,
         LinkBegin, Edit, RevokeBegin, RemoveBegin, LinkRead, AmendCommit, RevokeMark, RevokeCommit,
         RemoveCommit, Begun, EndTask, Respond, Goto
  <2>3. \A s \in Requests \ {r} : Ready(s)'
    BY <2>1, <2>2, OthersReady DEF LinkInv
  <2>4. ASSUME NEW v \in Vouchers, AmendBegin(r, v)
        PROVE  Ready(r)'
    <3>1. task'[r].edit.link = None /\ pc'[r] = "amending"
      BY <2>4 DEF AmendBegin, Edit, Begun, NoTask, Goto, LinkInv, Typed, TypedWith, HandlersOK, SchemaTypeOK,
                  TaskTypeOK
    <3>2. QED
      BY <3>1 DEF Ready, NewLink
  <2>5. ASSUME pc'[r] \notin {"updating", "amending"}
        PROVE  Ready(r)'
    BY <2>5 DEF Ready
  <2>6. \/ \E v \in Vouchers : AmendBegin(r, v)
        \/ LinkRead(r)
        \/ pc'[r] \notin {"updating", "amending"}
    BY <1>5 DEF LinkInv, Typed, TypedWith, HandlersOK, SchemaTypeOK, VoucherStart, VoucherProceed,
         VoucherDie, VoucherBegin, VoucherContinue, VoucherFail, VoucherRefuse, Collect,
         LinkBegin, Edit, RevokeBegin, RemoveBegin, AmendCommit, RevokeMark, RevokeCommit,
         RemoveCommit, Accept, Respond, Goto
  <2>7. Ready(r)'
    BY <2>4, <2>5, <2>6, LinkReadReady
  <2>8. QED
    BY <1>2, <2>1, <2>3, <2>7 DEF LinkInv
<1>6. QED
  BY <1>3, <1>4, <1>5 DEF SettlementNext

(* The invariant of the next two theorems: an edit that links a voucher    *)
(* computed the new paidAmount from a row it did not lock, but within a    *)
(* total that nobody changes.                                              *)
THEOREM Linking == NoEdits => (SettlementSpec => []LinkInv)
<1> SUFFICES ASSUME NoEdits PROVE SettlementSpec => []LinkInv
  OBVIOUS
<1>1. SettlementInit => (\A d \in Payables : Within(d)) /\ (\A r \in Requests : Ready(r))
  BY DEF SettlementInit, Init, SchemaInit, Within, Ready, Stored, Payable, Payables, NoInvoice, NoBill
<1>2. LinkInv /\ Typed' /\ [SettlementNext]_allVars => LinkInv'
  BY StepWorth
<1>3. SettlementInit /\ Typed => LinkInv
  BY <1>1 DEF LinkInv
<1>4. QED
  BY <1>2, <1>3, SettlementTyping, PTL DEF SettlementSpec

(* Nobody collects more than an invoice is worth, although payments are    *)
(* computed from rows that were read without a lock, and lost updates may  *)
(* forget one: "over-collection" in vouchers/README.md, when no invoice is *)
(* edited.                                                                 *)
THEOREM NeverOverCollected == NoEdits => (SettlementSpec => []NotOverCollected)
<1>1. LinkInv => NotOverCollected
  BY DEF LinkInv, Within, NotOverCollected, Due
<1>2. QED
  BY <1>1, Linking, PTL

(* And the flag isPaid says whether anything remains to be paid, when the  *)
(* client has no price of zero.                                            *)
THEOREM FlagStaysRight == NoEdits /\ NothingFree => (SettlementSpec => []FlagIsRight)
<1> SUFFICES ASSUME NoEdits, NothingFree PROVE SettlementSpec => []FlagIsRight
  OBVIOUS
<1>1. LinkInv => FlagIsRight
  BY DEF LinkInv, Within, FlagIsRight, Due
<1>2. QED
  BY <1>1, Linking, PTL
=============================================================================
