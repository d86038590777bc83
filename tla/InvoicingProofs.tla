--------------------------- MODULE InvoicingProofs ---------------------------
(***************************************************************************)
(* What holds of invoicing for every set of requests, invoices, products   *)
(* and baskets.                                                            *)
(***************************************************************************)
EXTENDS Invoicing, SumTheorems, TLAPS

(* Looking up the lines of an invoice gives a number for each product. *)
LEMMA LinesAreNat ==
  ASSUME NEW l \in Quantities, NEW p \in Products
  PROVE  l[p] \in Nat
BY DEF Quantities

(* A row that is written keeps the type of the columns. *)
LEMMA RowTypes ==
  /\ NoInvoice \in InvoiceRow
  /\ \A row \in InvoiceRow, s \in InvoiceStatus : [row EXCEPT !.status = s] \in InvoiceRow
  /\ \A row \in InvoiceRow, l \in Quantities, b \in Baskets :
       [row EXCEPT !.lines = l, !.total = Worth[b]] \in InvoiceRow
  /\ \A row \in InvoiceRow, n \in Nat : [row EXCEPT !.total = n] \in InvoiceRow
  /\ \A row \in InvoiceRow, s \in InvoiceStatus, c \in BOOLEAN :
       [row EXCEPT !.status = s, !.coded = c] \in InvoiceRow
  /\ \A b \in Baskets :
       [NoInvoice EXCEPT !.status = "DRAFT", !.lines = b, !.total = Worth[b]] \in InvoiceRow
<1>1. NoInvoice \in InvoiceRow
  BY DEF NoLines, Quantities, NoInvoice, InvoiceRow, InvoiceStatus
<1>2. ASSUME NEW row \in InvoiceRow, NEW s \in InvoiceStatus
      PROVE  [row EXCEPT !.status = s] \in InvoiceRow
  BY DEF InvoiceRow
<1>3. ASSUME NEW row \in InvoiceRow, NEW l \in Quantities, NEW b \in Baskets
      PROVE  [row EXCEPT !.lines = l, !.total = Worth[b]] \in InvoiceRow
  BY SchemaAssumption DEF SchemaAssumption, Lines, InvoiceRow
<1>4. ASSUME NEW row \in InvoiceRow, NEW n \in Nat
      PROVE  [row EXCEPT !.total = n] \in InvoiceRow
  BY DEF InvoiceRow
<1>5. ASSUME NEW row \in InvoiceRow, NEW s \in InvoiceStatus, NEW c \in BOOLEAN
      PROVE  [row EXCEPT !.status = s, !.coded = c] \in InvoiceRow
  BY DEF InvoiceRow
<1>6. ASSUME NEW b \in Baskets
      PROVE  [NoInvoice EXCEPT !.status = "DRAFT", !.lines = b, !.total = Worth[b]] \in InvoiceRow
  <2>1. "DRAFT" \in InvoiceStatus
    BY DEF InvoiceStatus
  <2>2. Worth[b] \in Nat /\ b \in Quantities
    BY SchemaAssumption DEF SchemaAssumption, Lines
  <2>3. QED
    BY <1>1, <2>1, <2>2 DEF InvoiceRow
<1>7. QED
  BY <1>1, <1>2, <1>3, <1>4, <1>5, <1>6

(* An edit of the details writes the basket that was sent, and nothing     *)
(* else unless the lines have changed since they were read.                *)
LEMMA DetailsWritten ==
  ASSUME NEW r \in Requests, UpdateDetails(r), doc[r] \in Invoices,
         invoices \in [Invoices -> InvoiceRow]
  PROVE  \E b \in Baskets, l \in Quantities :
           /\ invoices' = [invoices EXCEPT ![doc[r]].lines = l, ![doc[r]].total = Worth[b]]
           /\ seen[r].lines = invoices[doc[r]].lines => l = b
<1> DEFINE row == invoices[doc[r]]
<1>1. PICK b \in Baskets, missed \in BOOLEAN :
        /\ missed => row.lines # seen[r].lines
        /\ invoices' = [invoices EXCEPT ![doc[r]].lines = IF missed THEN Both(@, b) ELSE b,
                                        ![doc[r]].total = Worth[b]]
  BY DEF UpdateDetails
<1> DEFINE l == IF missed THEN Both(row.lines, b) ELSE b
<1>2. row.lines \in Quantities /\ b \in Quantities
  BY SchemaAssumption DEF SchemaAssumption, InvoiceRow
<1>3. l \in Quantities
  BY <1>2 DEF Both, Quantities
<1>4. invoices' = [invoices EXCEPT ![doc[r]].lines = l, ![doc[r]].total = Worth[b]]
  BY <1>1
<1>5. seen[r].lines = row.lines => l = b
  BY <1>1
<1> HIDE DEF l
<1>6. QED
  BY <1>3, <1>4, <1>5

(* A voucher that is canceled or loses its link is still a voucher. *)
LEMMA VoucherRowTypes ==
  ASSUME NEW row \in VoucherRow
  PROVE  /\ [row EXCEPT !.status = "CANCELED"] \in VoucherRow
         /\ [row EXCEPT !.link = None] \in VoucherRow
<1>1. [row EXCEPT !.status = "CANCELED"] \in VoucherRow
  BY DEF VoucherRow, VoucherStatus
<1>2. [row EXCEPT !.link = None] \in VoucherRow
  BY DEF VoucherRow
<1>3. QED
  BY <1>1, <1>2

(* The tables start empty and typed.                                       *)
LEMMA InitTypes == Init => TypeOK
<1> SUFFICES ASSUME Init PROVE TypeOK
  OBVIOUS
<1>1. NoBill \in BillRow
  BY DEF NoBill, BillRow, BillStatus, Lines
<1>2. NoVoucher \in VoucherRow
  BY DEF NoVoucher, VoucherRow, VoucherStatus
<1>3. stock \in [Products -> Int]
  BY SchemaAssumption DEF SchemaAssumption, Init, SchemaInit
<1>4. invoices \in [Invoices -> InvoiceRow] /\ seen \in [Requests -> InvoiceRow]
  BY RowTypes DEF Init, SchemaInit
<1>5. bills \in [Bills -> BillRow] /\ vouchers \in [Vouchers -> VoucherRow]
  BY <1>1, <1>2 DEF Init, SchemaInit
<1>6. QED
  BY <1>3, <1>4, <1>5 DEF Init, SchemaInit, TypeOK, SchemaTypeOK, InvoicingSteps

(* What the handlers of invoices need of the types, whatever other         *)
(* handlers, with steps of their own, work on the same tables.             *)
HandlersOK(Steps) ==
  /\ SchemaTypeOK(Steps)
  /\ seen \in [Requests -> InvoiceRow]
  /\ \A r \in Requests : pc[r] \in InvoicingSteps \ {"idle"} => doc[r] \in Invoices

(* Every step of a handler keeps the types.                                *)
LEMMA HandlerTypes ==
  ASSUME NEW Steps, InvoicingSteps \subseteq Steps, HandlersOK(Steps), NEW r \in Requests,
         \/ \E i \in Invoices : Begin(r, i)
         \/ Continue(r)
         \/ pc[r] \in InvoicingSteps /\ Fail(r)
  PROVE  HandlersOK(Steps)'
<1> USE DEF HandlersOK, SchemaTypeOK, InvoicingSteps, Goto, Respond, Remember, Forget, Accept,
            Documents, Payables, tables
<1>1. ASSUME NEW i \in Invoices, CreateInvoice(r, i)
      PROVE  HandlersOK(Steps)'
  <2>1. PICK b \in Baskets : invoices' = [invoices EXCEPT ![i] =
          [NoInvoice EXCEPT !.status = "DRAFT", !.lines = b, !.total = Worth[b]]]
    BY <1>1 DEF CreateInvoice
  <2>2. invoices' \in [Invoices -> InvoiceRow]
    BY <2>1, RowTypes
  <2>3. QED
    BY <1>1, <2>2 DEF CreateInvoice
<1>2. ASSUME NEW i \in Invoices,
             PublishBegin(r, i) \/ CancelBegin(r, i) \/ UpdateBegin(r, i) \/ DeleteBegin(r, i)
      PROVE  HandlersOK(Steps)'
  BY <1>2 DEF PublishBegin, CancelBegin, UpdateBegin, DeleteBegin
<1>3. CASE Reserve(r)
  <2>1. "PENDING_ISSUED" \in InvoiceStatus
    BY DEF InvoiceStatus
  <2>2. invoices' \in [Invoices -> InvoiceRow]
    BY <1>3, <2>1, RowTypes DEF Reserve, SetStatus
  <2>3. stock' \in [Products -> Int]
    BY <1>3, LinesAreNat DEF Reserve, InvoiceRow
  <2>4. QED
    BY <1>3, <2>2, <2>3, RowTypes DEF Reserve
<1>4. CASE LockRead(r) \/ RollbackRead(r)
  BY <1>4 DEF LockRead, RollbackRead
<1>5. CASE LockCommit(r)
  <2>1. "ISSUED" \in InvoiceStatus
    BY DEF InvoiceStatus
  <2>2. invoices' \in [Invoices -> InvoiceRow]
    BY <1>5, <2>1, RowTypes DEF LockCommit
  <2>3. revenue' \in Int
    BY <1>5 DEF LockCommit, InvoiceRow
  <2>4. QED
    BY <1>5, <2>2, <2>3, RowTypes DEF LockCommit
<1>6. CASE RollbackCommit(r)
  <2>1. "SYNC_FAILED" \in InvoiceStatus
    BY DEF InvoiceStatus
  <2>2. invoices' \in [Invoices -> InvoiceRow]
    BY <1>6, <2>1, RowTypes DEF RollbackCommit, SetStatus
  <2>3. stock' \in [Products -> Int]
    BY <1>6, LinesAreNat DEF RollbackCommit, InvoiceRow
  <2>4. QED
    BY <1>6, <2>2, <2>3, RowTypes DEF RollbackCommit
<1>7. CASE CancelCommit(r)
  <2>1. "CANCELED" \in InvoiceStatus
    BY DEF InvoiceStatus
  <2>2. invoices' \in [Invoices -> InvoiceRow]
    BY <1>7, <2>1, RowTypes DEF CancelCommit, SetStatus
  <2>3. stock' \in [Products -> Int]
    BY <1>7, LinesAreNat DEF CancelCommit, InvoiceRow
  <2>4. vouchers' \in [Vouchers -> VoucherRow]
    BY <1>7, VoucherRowTypes DEF CancelCommit, BulkCancelByInvoice
  <2>5. revenue' \in Int
    BY <1>7 DEF CancelCommit, InvoiceRow
  <2>6. QED
    BY <1>7, <2>2, <2>3, <2>4, <2>5, RowTypes DEF CancelCommit
<1>8. CASE UpdateDetails(r)
  <2>1. PICK b \in Baskets, l \in Quantities : invoices' =
          [invoices EXCEPT ![doc[r]].lines = l, ![doc[r]].total = Worth[b]]
    <3>1. doc[r] \in Invoices
      BY <1>8 DEF UpdateDetails, InvoicingSteps
    <3>2. QED
      BY <1>8, <3>1, DetailsWritten
  <2>2. invoices' \in [Invoices -> InvoiceRow]
    BY <1>8, <2>1, RowTypes DEF UpdateDetails
  <2>3. /\ UNCHANGED <<bills, vouchers, stock, revenue, served>>
        /\ pc' = [pc EXCEPT ![r] = "idle"] /\ doc' = [doc EXCEPT ![r] = None]
        /\ seen' = [seen EXCEPT ![r] = NoInvoice]
    BY <1>8 DEF UpdateDetails
  <2>4. QED
    BY <2>2, <2>3, RowTypes
<1>9. CASE UpdateHeader(r)
  <2>1. seen[r].total \in Nat
    BY DEF InvoiceRow
  <2>2. QED
    BY <1>9, <2>1, RowTypes DEF UpdateHeader
<1>10. CASE DeleteCommit(r)
  <2>1. "DELETED" \in InvoiceStatus
    BY DEF InvoiceStatus
  <2>2. invoices' \in [Invoices -> InvoiceRow]
    BY <1>10, <2>1, RowTypes DEF DeleteCommit, SetStatus
  <2>3. vouchers' \in [Vouchers -> VoucherRow]
    BY <1>10, VoucherRowTypes DEF DeleteCommit, Unlinked
  <2>4. QED
    BY <1>10, <2>2, <2>3, RowTypes DEF DeleteCommit
<1>11. CASE Refuse(r) \/ Fail(r)
  BY <1>11, RowTypes DEF Refuse, Fail
<1>12. QED
  BY <1>1, <1>2, <1>3, <1>4, <1>5, <1>6, <1>7, <1>8, <1>9, <1>10, <1>11 DEF Begin, Continue

(* Invoicing has no other handlers.                                        *)
LEMMA StepTypes == TypeOK /\ [Next]_vars => TypeOK'
<1> SUFFICES ASSUME TypeOK, [Next]_vars
             PROVE  TypeOK'
  OBVIOUS
<1>1. HandlersOK(InvoicingSteps)
  BY DEF TypeOK, HandlersOK
<1>2. HandlersOK(InvoicingSteps)' => TypeOK'
  BY DEF TypeOK, HandlersOK, SchemaTypeOK, InvoicingSteps
<1>3. \A r \in Requests : pc[r] \in InvoicingSteps
  BY DEF TypeOK, SchemaTypeOK
<1>4. ASSUME NEW r \in Requests, (\E i \in Invoices : Begin(r, i)) \/ Continue(r) \/ Fail(r)
      PROVE  TypeOK'
  BY <1>1, <1>2, <1>3, <1>4, HandlerTypes
<1>5. CASE UNCHANGED vars
  BY <1>5 DEF TypeOK, SchemaTypeOK, vars, tables
<1>6. QED
  BY <1>4, <1>5 DEF Next, Waiting

(* Every variable keeps its type: no step of a handler leaves a column, a  *)
(* session or a counter with a value its reader does not expect.           *)
THEOREM Typing == Spec => []TypeOK
BY InitTypes, StepTypes, PTL DEF Spec

-----------------------------------------------------------------------------
(* No handler takes more off the shelf than it holds.                      *)
LEMMA HandlersNeverOversell ==
  ASSUME NEW Steps, HandlersOK(Steps), StockNonNegative, NEW r \in Requests,
         \/ \E i \in Invoices : Begin(r, i)
         \/ Continue(r)
         \/ pc[r] \in InvoicingSteps /\ Fail(r)
  PROVE  StockNonNegative'
<1> USE SchemaAssumption DEF SchemaAssumption, StockNonNegative, HandlersOK, SchemaTypeOK
<1>1. CASE UNCHANGED stock
  BY <1>1
<1>2. CASE Reserve(r)
  <2>1. seen[r].lines \in Quantities
    BY DEF InvoiceRow
  <2>2. QED
    BY <1>2, <2>1, LinesAreNat DEF Reserve, CanReserve, InStock
<1>3. CASE RollbackCommit(r) \/ CancelCommit(r)
  <2>1. invoices[doc[r]].lines \in Quantities
    BY <1>3 DEF RollbackCommit, CancelCommit, InvoiceRow, InvoicingSteps
  <2>2. QED
    BY <1>3, <2>1, LinesAreNat DEF RollbackCommit, CancelCommit
<1>4. QED
  BY <1>1, <1>2, <1>3
     DEF Begin, Continue, CreateInvoice, PublishBegin, CancelBegin, UpdateBegin, DeleteBegin,
         LockRead, LockCommit, RollbackRead, UpdateDetails, UpdateHeader, DeleteCommit, Refuse,
         Fail, tables

(* No interleaving of any requests oversells a good: the shelf never holds *)
(* less than nothing, with or without clients that wait for their answers. *)
THEOREM NoOverselling == Spec => []StockNonNegative
<1>1. Init => StockNonNegative
  BY SchemaAssumption DEF SchemaAssumption, Init, SchemaInit, StockNonNegative
<1>2. TypeOK /\ StockNonNegative /\ [Next]_vars => StockNonNegative'
  <2> SUFFICES ASSUME TypeOK, StockNonNegative, [Next]_vars
               PROVE  StockNonNegative'
    OBVIOUS
  <2>1. CASE UNCHANGED stock
    BY <2>1 DEF StockNonNegative
  <2>2. HandlersOK(InvoicingSteps) /\ \A r \in Requests : pc[r] \in InvoicingSteps
    BY DEF TypeOK, HandlersOK, SchemaTypeOK
  <2>3. QED
    BY <2>1, <2>2, HandlersNeverOversell DEF Next, Waiting, vars, tables
<1>3. QED
  BY <1>1, <1>2, Typing, PTL DEF Spec

-----------------------------------------------------------------------------
(* From here on the requests that write an invoice are serialized.         *)

(* Two slots are never at work on the same invoice, unless both cancel it: *)
(* the rows they rely on are in disjoint sets of statuses, or one slot     *)
(* would be permitted to write where the other one is.                     *)
LEMMA NoInterference ==
  ASSUME IInv, Serialized,
         NEW r \in Requests, NEW s \in Requests, r # s,
         pc[r] # "idle", pc[s] # "idle", pc[r] # "canceling" \/ pc[s] # "canceling"
  PROVE  doc[r] # doc[s]
<1> SUFFICES ASSUME doc[r] = doc[s] PROVE FALSE
  OBVIOUS
<1>1. doc[r] \in Invoices
  BY DEF IInv, TypeOK
<1>2. pc[r] \in InvoicingSteps /\ pc[s] \in InvoicingSteps
  BY DEF IInv, TypeOK, SchemaTypeOK
<1>3. CASE pc[r] # "canceling" /\ pc[s] # "canceling"
  <2>1. Operation(pc[r]) \in InvoiceOps \ {"cancel"} /\ Operation(pc[s]) \in InvoiceOps \ {"cancel"}
    BY <1>2, <1>3 DEF Operation, InvoicingSteps, InvoiceOps
  <2>2. <<Operation(pc[r]), doc[r]>> \in Permits[r] /\ <<Operation(pc[s]), doc[r]>> \in Permits[s]
    BY DEF IInv, Permitted
  <2>3. QED
    BY <1>1, <2>1, <2>2 DEF Serialized
<1>4. CASE pc[r] = "canceling" \/ pc[s] = "canceling"
  BY <1>2, <1>4 DEF IInv, Fresh, Editable, InvoicingSteps
<1>5. QED
  BY <1>3, <1>4

(* A request stays fresh while nobody writes the row it relies on.         *)
LEMMA StaysFresh ==
  ASSUME NEW s \in Requests, Fresh(s),
         pc'[s] = pc[s], doc'[s] = doc[s], seen'[s] = seen[s],
         pc[s] # "idle" => invoices'[doc[s]] = invoices[doc[s]]
  PROVE  Fresh(s)'
BY DEF Fresh, Editable

(* A request that has answered relies on nothing.                          *)
LEMMA IdleIsFresh ==
  ASSUME NEW r \in Requests, pc'[r] = "idle"
  PROVE  Fresh(r)'
BY DEF Fresh

(* The step of a writer leaves every other request fresh: it writes one    *)
(* row, and no other request is at work on it.                             *)
LEMMA OthersStayFresh ==
  ASSUME IInv, Serialized, NEW r \in Requests,
         pc[r] \notin {"idle", "canceling"},
         \A i \in Invoices \ {doc[r]} : invoices'[i] = invoices[i],
         \A s \in Requests \ {r} : pc'[s] = pc[s] /\ doc'[s] = doc[s] /\ seen'[s] = seen[s]
  PROVE  \A s \in Requests \ {r} : Fresh(s)'
<1> SUFFICES ASSUME NEW s \in Requests \ {r} PROVE Fresh(s)'
  OBVIOUS
<1>1. pc[s] # "idle" => doc[s] \in Invoices \ {doc[r]}
  BY NoInterference DEF IInv, TypeOK
<1>2. Fresh(s)
  BY DEF IInv
<1>3. QED
  BY <1>1, <1>2, StaysFresh

(* Reading steps write no row.                                             *)
LEMMA ReadersStayFresh ==
  ASSUME IInv, NEW r \in Requests, invoices' = invoices,
         \A s \in Requests \ {r} : pc'[s] = pc[s] /\ doc'[s] = doc[s] /\ seen'[s] = seen[s]
  PROVE  \A s \in Requests \ {r} : Fresh(s)'
BY StaysFresh DEF IInv

(* Every step of serialized writers and free cancellations preserves IInv. *)
LEMMA StepFresh == Serialized /\ IInv /\ [Next]_vars => IInv'
<1> SUFFICES ASSUME Serialized, IInv, [Next]_vars
             PROVE  IInv'
  OBVIOUS
<1>1. TypeOK' /\ TypeOK
  BY StepTypes DEF IInv
<1> DEFINE Rest == Permitted' /\ TotalsMatch' /\ \A s \in Requests : Fresh(s)'
<1> USE DEF TypeOK, SchemaTypeOK
<1>2. ASSUME NEW r \in Requests, NEW i \in Invoices, CreateInvoice(r, i)
      PROVE  Rest
  <2>1. PICK b \in Baskets : invoices' = [invoices EXCEPT ![i] =
          [NoInvoice EXCEPT !.status = "DRAFT", !.lines = b, !.total = Worth[b]]]
    BY <1>2 DEF CreateInvoice
  <2>2. TotalsMatch'
    BY <1>1, <2>1 DEF IInv, TotalsMatch, NoInvoice
  <2>3. Permitted'
    BY <1>2 DEF CreateInvoice, IInv, Permitted
  <2>4. ASSUME NEW s \in Requests PROVE Fresh(s)'
    <3>1. invoices[i].status = "ABSENT"
      BY <1>2 DEF CreateInvoice
    <3>2. pc[s] # "idle" => doc[s] # i
      BY <1>1, <3>1 DEF IInv, Fresh, Editable, InvoicingSteps
    <3>3. pc[s] # "idle" => invoices'[doc[s]] = invoices[doc[s]]
      BY <1>1, <2>1, <3>2
    <3>4. QED
      BY <1>2, <3>3, StaysFresh DEF CreateInvoice, IInv
  <2>5. QED
    BY <2>2, <2>3, <2>4
<1>3. ASSUME NEW r \in Requests, NEW i \in Invoices,
             PublishBegin(r, i) \/ CancelBegin(r, i) \/ UpdateBegin(r, i) \/ DeleteBegin(r, i)
      PROVE  Rest
  <2> USE <1>3 DEF PublishBegin, CancelBegin, UpdateBegin, DeleteBegin, Accept, Goto, Remember,
                   tables
  <2>1. TotalsMatch'
    BY DEF IInv, TotalsMatch
  <2>2. Permitted'
    BY <1>1 DEF IInv, Permitted, Operation
  <2>3. Fresh(r)'
    BY <1>1 DEF Fresh, Editable, Cancelable
  <2>4. \A s \in Requests \ {r} : Fresh(s)'
    BY <1>1, ReadersStayFresh
  <2>5. QED
    BY <2>1, <2>2, <2>3, <2>4
<1>4. ASSUME NEW r \in Requests, Reserve(r)
      PROVE  Rest
  <2> USE <1>4 DEF Reserve, Goto, Forget, SetStatus
  <2>1. TotalsMatch'
    BY <1>1 DEF IInv, TotalsMatch
  <2>2. Permitted'
    BY <1>1 DEF IInv, Permitted, Operation
  <2>3. Fresh(r)'
    BY <1>1 DEF Fresh
  <2>4. \A s \in Requests \ {r} : Fresh(s)'
    BY <1>1, OthersStayFresh
  <2>5. QED
    BY <2>1, <2>2, <2>3, <2>4
<1>5. ASSUME NEW r \in Requests, LockRead(r) \/ RollbackRead(r)
      PROVE  Rest
  <2> USE <1>5 DEF LockRead, RollbackRead, Goto, Remember, tables
  <2>1. TotalsMatch'
    BY DEF IInv, TotalsMatch
  <2>2. Permitted'
    BY <1>1 DEF IInv, Permitted, Operation
  <2>3. Fresh(r)'
    BY <1>1 DEF IInv, Fresh
  <2>4. \A s \in Requests \ {r} : Fresh(s)'
    BY <1>1, ReadersStayFresh
  <2>5. QED
    BY <2>1, <2>2, <2>3, <2>4
<1>6. ASSUME NEW r \in Requests,
             LockCommit(r) \/ RollbackCommit(r) \/ UpdateHeader(r) \/ DeleteCommit(r)
      PROVE  Rest
  <2> USE <1>6 DEF LockCommit, RollbackCommit, UpdateHeader, DeleteCommit, Respond, Goto, Forget,
                   SetStatus
  <2>1. TotalsMatch'
    <3>1. doc[r] \in Invoices /\ TotalsMatch /\ Fresh(r)
      BY <1>1 DEF IInv, InvoicingSteps
    <3>2. ASSUME NEW i \in Invoices
          PROVE  invoices'[i].total = invoices[i].total /\ invoices'[i].lines = invoices[i].lines
      <4>1. invoices[i] \in InvoiceRow
        BY <1>1
      <4>2. CASE UpdateHeader(r)
        BY <1>1, <3>1, <4>1, <4>2 DEF Fresh, InvoiceRow
      <4>3. CASE LockCommit(r)
        BY <1>1, <3>1, <4>1, <4>3 DEF InvoiceRow
      <4>4. CASE RollbackCommit(r)
        BY <4>1, <4>4 DEF InvoiceRow
      <4>5. CASE DeleteCommit(r)
        BY <4>1, <4>5 DEF InvoiceRow
      <4>6. QED
        BY <4>2, <4>3, <4>4, <4>5
    <3>3. QED
      BY <3>1, <3>2 DEF TotalsMatch
  <2>2. Permitted'
    BY <1>1 DEF IInv, Permitted, Operation
  <2>3. Fresh(r)'
    BY <1>1, IdleIsFresh
  <2>4. \A s \in Requests \ {r} : Fresh(s)'
    BY <1>1, OthersStayFresh
  <2>5. QED
    BY <2>1, <2>2, <2>3, <2>4
<1>7. ASSUME NEW r \in Requests, UpdateDetails(r)
      PROVE  Rest
  <2>0. doc[r] \in Invoices /\ seen[r].lines = invoices[doc[r]].lines
    BY <1>1, <1>7 DEF UpdateDetails, IInv, Fresh
  <2>1. PICK b \in Baskets : invoices' =
          [invoices EXCEPT ![doc[r]].lines = b, ![doc[r]].total = Worth[b]]
    BY <1>1, <1>7, <2>0, DetailsWritten
  <2> USE <1>7 DEF UpdateDetails, Respond, Goto, Forget
  <2>2. TotalsMatch'
    BY <1>1, <2>1 DEF IInv, TotalsMatch, InvoiceRow
  <2>3. Permitted'
    BY <1>1 DEF IInv, Permitted, Operation
  <2>4. Fresh(r)'
    BY <1>1, IdleIsFresh
  <2>5. \A s \in Requests \ {r} : Fresh(s)'
    BY <1>1, <2>1, OthersStayFresh
  <2>6. QED
    BY <2>2, <2>3, <2>4, <2>5
<1>8. ASSUME NEW r \in Requests, CancelCommit(r)
      PROVE  Rest
  <2> USE <1>8 DEF CancelCommit, CanCancel, Cancelable, Respond, Goto, Forget, SetStatus
  <2>1. TotalsMatch'
    BY <1>1 DEF IInv, TotalsMatch
  <2>2. Permitted'
    BY <1>1 DEF IInv, Permitted, Operation
  <2>3. ASSUME NEW s \in Requests \ {r} PROVE Fresh(s)'
    <3>1. CASE pc[s] = "idle"
      BY <1>1, <3>1, IdleIsFresh
    <3>2. CASE pc[s] # "idle" /\ doc[s] # doc[r]
      BY <1>1, <3>2, StaysFresh DEF IInv
    <3>3. CASE pc[s] # "idle" /\ doc[s] = doc[r]
      <4>1. pc[s] = "canceling"
        BY <1>1, <3>3, NoInterference
      <4>2. QED
        BY <1>1, <3>3, <4>1 DEF IInv, Fresh
    <3>4. QED
      BY <3>1, <3>2, <3>3
  <2>4. Fresh(r)'
    BY <1>1, IdleIsFresh
  <2>5. QED
    BY <2>1, <2>2, <2>3, <2>4
<1>9. ASSUME NEW r \in Requests, Refuse(r) \/ Fail(r)
      PROVE  Rest
  <2> USE <1>9 DEF Refuse, Fail, Respond, Goto, Forget, tables
  <2>1. TotalsMatch'
    BY DEF IInv, TotalsMatch
  <2>2. Permitted'
    BY <1>1 DEF IInv, Permitted, Operation
  <2>3. Fresh(r)'
    BY <1>1, IdleIsFresh
  <2>4. \A s \in Requests \ {r} : Fresh(s)'
    BY <1>1, ReadersStayFresh
  <2>5. QED
    BY <2>1, <2>2, <2>3, <2>4
<1>10. CASE UNCHANGED vars
  BY <1>10 DEF vars, tables, IInv, Permitted, TotalsMatch, Fresh
<1>11. QED
  BY <1>1, <1>2, <1>3, <1>4, <1>5, <1>6, <1>7, <1>8, <1>9, <1>10
     DEF IInv, Next, Begin, Continue, Waiting

(* Before the first request nothing is relied on, and the rows are empty.  *)
LEMMA InitFresh == Init => IInv
<1> SUFFICES ASSUME Init PROVE IInv
  OBVIOUS
<1>1. TypeOK
  BY InitTypes
<1>2. \A r \in Requests : pc[r] = "idle"
  BY DEF Init, SchemaInit
<1>3. TotalsMatch
  BY SchemaAssumption DEF SchemaAssumption, Init, SchemaInit, TotalsMatch, NoInvoice
<1>4. QED
  BY <1>1, <1>2, <1>3 DEF IInv, Permitted, Fresh

(* A client that waits for each answer never works on a row that somebody  *)
(* changed under it, although no handler locks what it reads.              *)
THEOREM Freshness ==
  ASSUME Serialized
  PROVE  Spec => []IInv
<1>1. Init => IInv
  BY InitFresh
<1>2. IInv /\ [Next]_vars => IInv'
  BY StepFresh
<1>3. QED
  BY <1>1, <1>2, PTL DEF Spec

-----------------------------------------------------------------------------
(* What the writing steps do, once IInv says what they find.               *)

(* A step of the handlers is one of these on the row of one invoice.       *)
LEMMA RowSteps ==
  ASSUME IInv, [Next]_vars, NEW i \in Invoices
  PROVE  \/ invoices'[i] = invoices[i]
         \/ /\ invoices[i].status = "ABSENT"
            /\ invoices'[i].status = "DRAFT"
         \/ /\ Editable(invoices[i])
            /\ invoices'[i].status \in {invoices[i].status, "DELETED", "PENDING_ISSUED"}
         \/ /\ invoices[i].status = "PENDING_ISSUED"
            /\ invoices'[i].status \in {"ISSUED", "SYNC_FAILED"}
            /\ invoices'[i].lines = invoices[i].lines
            /\ invoices'[i].total = invoices[i].total
            /\ invoices[i].coded => invoices'[i].coded
         \/ /\ invoices[i].status = "ISSUED"
            /\ invoices'[i].status = "CANCELED"
            /\ invoices'[i].lines = invoices[i].lines
            /\ invoices'[i].total = invoices[i].total
            /\ invoices'[i].coded = invoices[i].coded
<1> DEFINE Goal ==
         \/ invoices'[i] = invoices[i]
         \/ /\ invoices[i].status = "ABSENT"
            /\ invoices'[i].status = "DRAFT"
         \/ /\ Editable(invoices[i])
            /\ invoices'[i].status \in {invoices[i].status, "DELETED", "PENDING_ISSUED"}
         \/ /\ invoices[i].status = "PENDING_ISSUED"
            /\ invoices'[i].status \in {"ISSUED", "SYNC_FAILED"}
            /\ invoices'[i].lines = invoices[i].lines
            /\ invoices'[i].total = invoices[i].total
            /\ invoices[i].coded => invoices'[i].coded
         \/ /\ invoices[i].status = "ISSUED"
            /\ invoices'[i].status = "CANCELED"
            /\ invoices'[i].lines = invoices[i].lines
            /\ invoices'[i].total = invoices[i].total
            /\ invoices'[i].coded = invoices[i].coded
<1> SUFFICES Goal
  OBVIOUS
<1>1. invoices \in [Invoices -> InvoiceRow] /\ invoices[i] \in InvoiceRow
  BY DEF IInv, TypeOK, SchemaTypeOK
<1>2. \A r \in Requests : Fresh(r)
  BY DEF IInv
<1>3. ASSUME NEW r \in Requests, NEW j \in Invoices, CreateInvoice(r, j)
      PROVE  Goal
  BY <1>1, <1>3 DEF CreateInvoice, NoInvoice
<1>4. ASSUME NEW r \in Requests, Reserve(r)
      PROVE  Goal
  BY <1>1, <1>2, <1>4 DEF Reserve, SetStatus, Fresh, InvoiceRow
<1>5. ASSUME NEW r \in Requests, LockCommit(r)
      PROVE  Goal
  BY <1>1, <1>2, <1>5 DEF LockCommit, Fresh, InvoiceRow
<1>6. ASSUME NEW r \in Requests, RollbackCommit(r)
      PROVE  Goal
  BY <1>1, <1>2, <1>6 DEF RollbackCommit, SetStatus, Fresh, InvoiceRow
<1>7. ASSUME NEW r \in Requests, CancelCommit(r)
      PROVE  Goal
  BY <1>1, <1>7 DEF CancelCommit, CanCancel, Cancelable, SetStatus, InvoiceRow
<1>8. ASSUME NEW r \in Requests, UpdateDetails(r)
      PROVE  Goal
  <2>1. PICK b \in Baskets, l \in Quantities : invoices' =
          [invoices EXCEPT ![doc[r]].lines = l, ![doc[r]].total = Worth[b]]
    <3>1. doc[r] \in Invoices
      BY <1>8 DEF UpdateDetails, IInv, TypeOK
    <3>2. QED
      BY <1>1, <1>8, <3>1, DetailsWritten
  <2>2. Editable(invoices[doc[r]])
    BY <1>2, <1>8 DEF UpdateDetails, Fresh
  <2>3. QED
    BY <1>1, <2>1, <2>2 DEF InvoiceRow
<1>9. ASSUME NEW r \in Requests, UpdateHeader(r)
      PROVE  Goal
  BY <1>1, <1>2, <1>9 DEF UpdateHeader, Fresh, InvoiceRow
<1>10. ASSUME NEW r \in Requests, DeleteCommit(r)
       PROVE  Goal
  BY <1>1, <1>2, <1>10 DEF DeleteCommit, SetStatus, Fresh, InvoiceRow
<1>11. CASE UNCHANGED invoices
  BY <1>11
<1>12. QED
  BY <1>3, <1>4, <1>5, <1>6, <1>7, <1>8, <1>9, <1>10, <1>11
     DEF Next, Begin, Continue, Waiting, PublishBegin, CancelBegin, UpdateBegin, DeleteBegin,
         LockRead, RollbackRead, Refuse, Fail, vars, tables

(* With serialized writers, an invoice that was sent to the authority      *)
(* keeps its content.                                                      *)
THEOREM ContentStaysLocked ==
  ASSUME Serialized
  PROVE  Spec => ContentLocked
<1>1. IInv /\ [Next]_vars =>
        [\A i \in Invoices : invoices[i].status \in Locked =>
           /\ invoices'[i].lines = invoices[i].lines
           /\ invoices'[i].total = invoices[i].total
           /\ invoices[i].coded => invoices'[i].coded
           /\ invoices'[i].status # "DELETED"]_vars
  BY RowSteps DEF Locked, Editable
<1>2. QED
  BY <1>1, Freshness, PTL DEF Spec, ContentLocked

(* With serialized writers, an issued invoice is issued until it is        *)
(* canceled, and a canceled one stays canceled.                            *)
THEOREM StatusStaysLocked ==
  ASSUME Serialized
  PROVE  Spec => StatusLocked
<1>1. IInv /\ [Next]_vars =>
        [\A i \in Invoices :
           invoices[i].status = "ISSUED" => invoices'[i].status \in {"ISSUED", "CANCELED"}]_vars
  BY RowSteps DEF Editable
<1>2. IInv /\ [Next]_vars =>
        [\A i \in Invoices :
           invoices[i].status = "CANCELED" => invoices'[i].status = "CANCELED"]_vars
  BY RowSteps DEF Editable
<1>3. QED
  BY <1>1, <1>2, Freshness, PTL DEF Spec, StatusLocked, CanceledIsFinal

-----------------------------------------------------------------------------
(* The refinement: what each writing step is in the ledger.                *)

(* An empty database is an empty ledger.                                   *)
LEMMA LedgerStart == Init => Ledger!LedgerInit
<1> SUFFICES ASSUME Init PROVE Ledger!LedgerInit
  OBVIOUS
<1>1. \A i \in Invoices : Phase(invoices[i]) = "open" /\ invoices[i].lines \in Lines
  BY DEF Init, SchemaInit, NoInvoice, Phase, Lines
<1>2. QED
  BY <1>1, SchemaAssumption DEF SchemaAssumption, Init, SchemaInit, Ledger!LedgerInit

(* Reserving takes an editable invoice that the shelf covers.              *)
LEMMA ReserveHolds ==
  ASSUME IInv, NEW r \in Requests, NEW i \in Invoices, doc[r] = i, Reserve(r)
  PROVE  Ledger!Hold(i)
<1>1. invoices \in [Invoices -> InvoiceRow] /\ stock \in [Products -> Int]
  BY DEF IInv, TypeOK, SchemaTypeOK
<1>2. Editable(invoices[i]) /\ seen[r].lines = invoices[i].lines
  BY DEF IInv, Fresh, Reserve
<1>3. invoices' = [invoices EXCEPT ![i].status = "PENDING_ISSUED"]
  BY DEF Reserve, SetStatus
<1>4. \A j \in Invoices : /\ invoices'[j].lines = invoices[j].lines
                          /\ j # i => invoices'[j] = invoices[j]
  BY <1>1, <1>3 DEF InvoiceRow
<1>5. invoices'[i].status = "PENDING_ISSUED"
  BY <1>1, <1>3 DEF InvoiceRow
<1>6. Ledger!Move(i, "open", "held")
  BY <1>1, <1>2, <1>4, <1>5 DEF Ledger!Move, Phase, Editable
<1>7. Ledger!Take(i)
  <2>1. \A p \in Goods : p \in Products /\ invoices[i].lines[p] <= stock[p]
    BY <1>2, SchemaAssumption DEF SchemaAssumption, Reserve, CanReserve, InStock
  <2>2. \A p \in Goods : stock'[p] = stock[p] - invoices[i].lines[p]
    BY <1>2, <2>1 DEF Reserve
  <2>3. QED
    BY <1>1, <2>1, <2>2 DEF Ledger!Take
<1>8. QED
  BY <1>1, <1>4, <1>6, <1>7 DEF Ledger!Hold, Reserve

(* A code granted sells what is held, for what its lines are worth.        *)
LEMMA LockSells ==
  ASSUME IInv, NEW r \in Requests, NEW i \in Invoices, doc[r] = i, LockCommit(r)
  PROVE  Ledger!Sell(i)
<1>1. invoices \in [Invoices -> InvoiceRow]
  BY DEF IInv, TypeOK, SchemaTypeOK
<1>2. invoices[i].status = "PENDING_ISSUED" /\ seen[r].total = Worth[invoices[i].lines]
  BY <1>1 DEF IInv, Fresh, TotalsMatch, LockCommit
<1>3. invoices' = [invoices EXCEPT ![i].status = "ISSUED", ![i].coded = TRUE]
  BY DEF LockCommit
<1>4. \A j \in Invoices : /\ invoices'[j].lines = invoices[j].lines
                          /\ j # i => invoices'[j] = invoices[j]
  BY <1>1, <1>3 DEF InvoiceRow
<1>5. invoices'[i].status = "ISSUED"
  BY <1>1, <1>3 DEF InvoiceRow
<1>6. Ledger!Move(i, "held", "sold")
  BY <1>1, <1>2, <1>4, <1>5 DEF Ledger!Move, Phase
<1>7. QED
  BY <1>1, <1>2, <1>4, <1>6 DEF Ledger!Sell, LockCommit

(* A code refused releases what is held.                                   *)
LEMMA RollbackReleases ==
  ASSUME IInv, NEW r \in Requests, NEW i \in Invoices, doc[r] = i, RollbackCommit(r)
  PROVE  Ledger!Release(i)
<1>1. invoices \in [Invoices -> InvoiceRow] /\ stock \in [Products -> Int]
  BY DEF IInv, TypeOK, SchemaTypeOK
<1>2. invoices[i].status = "PENDING_ISSUED"
  BY <1>1 DEF IInv, Fresh, RollbackCommit
<1>3. invoices' = [invoices EXCEPT ![i].status = "SYNC_FAILED"]
  BY DEF RollbackCommit, SetStatus
<1>4. \A j \in Invoices : /\ invoices'[j].lines = invoices[j].lines
                          /\ j # i => invoices'[j] = invoices[j]
  BY <1>1, <1>3 DEF InvoiceRow
<1>5. invoices'[i].status = "SYNC_FAILED"
  BY <1>1, <1>3 DEF InvoiceRow
<1>6. Ledger!Move(i, "held", "open")
  BY <1>1, <1>2, <1>4, <1>5 DEF Ledger!Move, Phase
<1>7. Ledger!PutBack(i)
  BY <1>1, SchemaAssumption DEF SchemaAssumption, Ledger!PutBack, RollbackCommit
<1>8. QED
  BY <1>1, <1>4, <1>6, <1>7 DEF Ledger!Release, RollbackCommit

(* A cancellation voids what is sold, at the price it was sold for.        *)
LEMMA CancelVoids ==
  ASSUME IInv, NEW r \in Requests, NEW i \in Invoices, doc[r] = i, CancelCommit(r)
  PROVE  Ledger!Void(i)
<1>1. invoices \in [Invoices -> InvoiceRow] /\ stock \in [Products -> Int]
  BY DEF IInv, TypeOK, SchemaTypeOK
<1>2. invoices[i].status = "ISSUED" /\ seen[r].total = Worth[invoices[i].lines]
  BY <1>1 DEF IInv, Fresh, TotalsMatch, CancelCommit, CanCancel, Cancelable
<1>3. invoices' = [invoices EXCEPT ![i].status = "CANCELED"]
  BY DEF CancelCommit, SetStatus
<1>4. \A j \in Invoices : /\ invoices'[j].lines = invoices[j].lines
                          /\ j # i => invoices'[j] = invoices[j]
  BY <1>1, <1>3 DEF InvoiceRow
<1>5. invoices'[i].status = "CANCELED"
  BY <1>1, <1>3 DEF InvoiceRow
<1>6. Ledger!Move(i, "sold", "void")
  BY <1>1, <1>2, <1>4, <1>5 DEF Ledger!Move, Phase
<1>7. Ledger!PutBack(i)
  BY <1>1, SchemaAssumption DEF SchemaAssumption, Ledger!PutBack, CancelCommit
<1>8. QED
  BY <1>1, <1>2, <1>4, <1>6, <1>7 DEF Ledger!Void, CancelCommit

(* Creating an invoice and giving it new details write an open invoice.    *)
LEMMA EditWrites ==
  ASSUME IInv, NEW i \in Invoices, NEW b \in Baskets,
         Editable(invoices[i]) \/ invoices[i].status = "ABSENT",
         Phase(invoices'[i]) = "open", invoices'[i].lines = b,
         \A j \in Invoices \ {i} : invoices'[j] = invoices[j],
         UNCHANGED <<stock, revenue>>
  PROVE  Ledger!Write(i)
BY DEF Ledger!Write, Phase, Editable, Lines

(* Everything else leaves the ledger alone.                                *)
LEMMA LedgerStutters ==
  ASSUME \A i \in Invoices : /\ Phase(invoices'[i]) = Phase(invoices[i])
                             /\ invoices'[i].lines = invoices[i].lines,
         UNCHANGED <<stock, revenue>>
  PROVE  UNCHANGED Ledger!ledger
BY DEF Ledger!ledger

(* Every step of the handlers is a step of the ledger or none.             *)
LEMMA LedgerStep == IInv /\ [Next]_vars => [Ledger!LedgerNext]_Ledger!ledger
<1> SUFFICES ASSUME IInv, [Next]_vars
             PROVE  [Ledger!LedgerNext]_Ledger!ledger
  OBVIOUS
<1>1. /\ invoices \in [Invoices -> InvoiceRow]
      /\ \A r \in Requests : Fresh(r) /\ (pc[r] # "idle" => doc[r] \in Invoices)
  BY DEF IInv, TypeOK, SchemaTypeOK
<1>2. ASSUME NEW r \in Requests,
             Reserve(r) \/ LockCommit(r) \/ RollbackCommit(r) \/ CancelCommit(r)
      PROVE  Ledger!LedgerNext
  <2>1. PICK i \in Invoices : doc[r] = i
    BY <1>1, <1>2 DEF Reserve, LockCommit, RollbackCommit, CancelCommit
  <2>2. QED
    BY <1>2, <2>1, ReserveHolds, LockSells, RollbackReleases, CancelVoids DEF Ledger!LedgerNext
<1>3. ASSUME NEW r \in Requests, NEW i \in Invoices, CreateInvoice(r, i)
      PROVE  Ledger!LedgerNext
  <2>1. PICK b \in Baskets : invoices' = [invoices EXCEPT ![i] =
          [NoInvoice EXCEPT !.status = "DRAFT", !.lines = b, !.total = Worth[b]]]
    BY <1>3 DEF CreateInvoice
  <2>2. invoices'[i].lines = b /\ invoices'[i].status = "DRAFT"
    BY <1>1, <2>1 DEF NoInvoice
  <2>3. \A j \in Invoices \ {i} : invoices'[j] = invoices[j]
    BY <1>1, <2>1
  <2>4. Ledger!Write(i)
    BY <1>3, <2>2, <2>3, EditWrites DEF CreateInvoice, Phase
  <2>5. QED
    BY <2>4 DEF Ledger!LedgerNext
<1>4. ASSUME NEW r \in Requests, UpdateDetails(r)
      PROVE  Ledger!LedgerNext
  <2>1. PICK i \in Invoices : doc[r] = i
    BY <1>1, <1>4 DEF UpdateDetails
  <2>3. Editable(invoices[i]) /\ seen[r].lines = invoices[i].lines
    BY <1>1, <1>4, <2>1 DEF UpdateDetails, Fresh
  <2>2. PICK b \in Baskets : invoices' = [invoices EXCEPT ![i].lines = b, ![i].total = Worth[b]]
    BY <1>1, <1>4, <2>1, <2>3, DetailsWritten
  <2>4. invoices'[i].lines = b /\ invoices'[i].status = invoices[i].status
    BY <1>1, <2>2 DEF InvoiceRow
  <2>5. \A j \in Invoices \ {i} : invoices'[j] = invoices[j]
    BY <1>1, <2>2
  <2>6. Phase(invoices'[i]) = "open"
    BY <2>3, <2>4 DEF Phase, Editable
  <2>7. UNCHANGED <<stock, revenue>>
    BY <1>4 DEF UpdateDetails
  <2>8. Ledger!Write(i)
    BY <2>3, <2>4, <2>5, <2>6, <2>7, EditWrites
  <2>9. QED
    BY <2>8 DEF Ledger!LedgerNext
<1>5. ASSUME NEW r \in Requests, UpdateHeader(r)
      PROVE  UNCHANGED Ledger!ledger
  <2>1. \A i \in Invoices : /\ invoices'[i].status = invoices[i].status
                            /\ invoices'[i].lines = invoices[i].lines
    BY <1>1, <1>5 DEF UpdateHeader, InvoiceRow
  <2>2. QED
    BY <1>5, <2>1, LedgerStutters DEF UpdateHeader, Phase
<1>6. ASSUME NEW r \in Requests, DeleteCommit(r)
      PROVE  UNCHANGED Ledger!ledger
  <2>1. doc[r] \in Invoices /\ Editable(invoices[doc[r]])
    BY <1>1, <1>6 DEF DeleteCommit, Fresh
  <2>2. \A i \in Invoices : /\ invoices'[i].lines = invoices[i].lines
                            /\ i # doc[r] => invoices'[i] = invoices[i]
    BY <1>1, <1>6 DEF DeleteCommit, SetStatus, InvoiceRow
  <2>3. invoices'[doc[r]].status = "DELETED"
    BY <1>1, <1>6, <2>1 DEF DeleteCommit, SetStatus, InvoiceRow
  <2>4. \A i \in Invoices : Phase(invoices'[i]) = Phase(invoices[i])
    BY <2>1, <2>2, <2>3 DEF Phase, Editable
  <2>5. QED
    BY <1>6, <2>2, <2>4, LedgerStutters DEF DeleteCommit
<1>7. CASE UNCHANGED <<invoices, stock, revenue>>
  BY <1>7, LedgerStutters
<1>8. QED
  BY <1>2, <1>3, <1>4, <1>5, <1>6, <1>7
     DEF Next, Begin, Continue, Waiting, PublishBegin, CancelBegin, UpdateBegin, DeleteBegin,
         LockRead, RollbackRead, Refuse, Fail, vars, tables

(* With serialized writers, invoicing does to stock and revenue exactly    *)
(* what the ledger says, crashes and concurrent cancellations included.    *)
THEOREM InvoicingImplementsLedger ==
  ASSUME Serialized
  PROVE  Spec => ImplementsLedger
<1>1. Init => Ledger!LedgerInit
  BY LedgerStart
<1>2. IInv /\ [Next]_vars => [Ledger!LedgerNext]_Ledger!ledger
  BY LedgerStep
<1>3. QED
  BY <1>1, <1>2, Freshness, PTL DEF Spec, ImplementsLedger, Ledger!LedgerSpec

-----------------------------------------------------------------------------
(* The books of invoicing balance: what the shelf and the revenue of the   *)
(* year add up to.                                                         *)

(* What invoice i adds to the units held and to the total issued. *)
HeldOn(i, p) == IF Holding(i) THEN invoices[i].lines[p] ELSE 0
IssuedOn(i) == IF invoices[i].status = "ISSUED" THEN invoices[i].total ELSE 0

(* A step that writes one invoice moves the units held by what it moves    *)
(* on that invoice.                                                        *)
LEMMA HeldMoves ==
  ASSUME invoices \in [Invoices -> InvoiceRow], invoices' \in [Invoices -> InvoiceRow], NEW i \in Invoices, NEW p \in Products,
         \A j \in Invoices \ {i} : /\ invoices'[j].lines = invoices[j].lines
                                   /\ Holding(j)' <=> Holding(j)
  PROVE  /\ Held(p)' = Held(p) - HeldOn(i, p) + HeldOn(i, p)'
         /\ Held(p) \in Int /\ HeldOn(i, p) \in Nat /\ HeldOn(i, p)' \in Nat
<1> DEFINE f == [j \in Invoices |-> invoices[j].lines[p]]
           e == [j \in Invoices |-> invoices'[j].lines[p]]
           S == {j \in Invoices : Holding(j)}
           T == {j \in Invoices : Holding(j)'}
<1>1. \A j \in Invoices : f[j] \in Nat /\ e[j] \in Nat
  BY LinesAreNat DEF InvoiceRow
<1>2. IsFiniteSet(S) /\ IsFiniteSet(T)
  BY FiniteAssumption, FS_Subset DEF FiniteAssumption
<1>3. S \ {i} = T \ {i} /\ \A j \in S \ {i} : f[j] = e[j]
  OBVIOUS
<1>4. Held(p) = SumFunctionOnSet(f, S) /\ Held(p)' = SumFunctionOnSet(e, T)
  BY DEF Held
<1>5. HeldOn(i, p) = Share(f, S, i) /\ HeldOn(i, p)' = Share(e, T, i)
  BY DEF HeldOn, Share
<1>6. HeldOn(i, p) \in Nat /\ HeldOn(i, p)' \in Nat
  BY <1>1 DEF HeldOn
<1> HIDE DEF f, e, S, T
<1>7. SumFunctionOnSet(e, T) = SumFunctionOnSet(f, S) - Share(f, S, i) + Share(e, T, i)
  <2>1. (\A x \in S : f[x] \in Int) /\ (\A x \in T : e[x] \in Int)
    BY <1>1 DEF S, T
  <2>2. QED
    BY <1>2, <1>3, <2>1, SumMoves
<1>8. SumFunctionOnSet(f, S) \in Int
  BY <1>1, <1>2, SumInt DEF S
<1>9. QED
  BY <1>4, <1>5, <1>6, <1>7, <1>8

(* And the total issued likewise.                                          *)
LEMMA IssuedMoves ==
  ASSUME TypeOK, TypeOK', NEW i \in Invoices,
         \A j \in Invoices \ {i} :
            /\ invoices'[j].total = invoices[j].total
            /\ invoices'[j].status = "ISSUED" <=> invoices[j].status = "ISSUED"
  PROVE  /\ IssuedTotal' = IssuedTotal - IssuedOn(i) + IssuedOn(i)'
         /\ IssuedTotal \in Int /\ IssuedOn(i) \in Nat /\ IssuedOn(i)' \in Nat
<1> DEFINE f == [j \in Invoices |-> invoices[j].total]
           e == [j \in Invoices |-> invoices'[j].total]
           S == {j \in Invoices : invoices[j].status = "ISSUED"}
           T == {j \in Invoices : invoices'[j].status = "ISSUED"}
<1>1. \A j \in Invoices : f[j] \in Nat /\ e[j] \in Nat
  BY DEF TypeOK, SchemaTypeOK, InvoiceRow
<1>2. IsFiniteSet(S) /\ IsFiniteSet(T)
  BY FiniteAssumption, FS_Subset DEF FiniteAssumption
<1>3. S \ {i} = T \ {i} /\ \A j \in S \ {i} : f[j] = e[j]
  OBVIOUS
<1>4. IssuedTotal = SumFunctionOnSet(f, S) /\ IssuedTotal' = SumFunctionOnSet(e, T)
  BY DEF IssuedTotal
<1>5. IssuedOn(i) = Share(f, S, i) /\ IssuedOn(i)' = Share(e, T, i)
  BY DEF IssuedOn, Share
<1>6. IssuedOn(i) \in Nat /\ IssuedOn(i)' \in Nat
  BY <1>1 DEF IssuedOn
<1> HIDE DEF f, e, S, T
<1>7. SumFunctionOnSet(e, T) = SumFunctionOnSet(f, S) - Share(f, S, i) + Share(e, T, i)
  <2>1. (\A x \in S : f[x] \in Int) /\ (\A x \in T : e[x] \in Int)
    BY <1>1 DEF S, T
  <2>2. QED
    BY <1>2, <1>3, <2>1, SumMoves
<1>8. SumFunctionOnSet(f, S) \in Int
  BY <1>1, <1>2, SumInt DEF S
<1>9. QED
  BY <1>4, <1>5, <1>6, <1>7, <1>8

(* Nothing is held or issued in an empty database.                         *)
LEMMA InitSums == Init => IssuedTotal = 0 /\ \A p \in Products : Held(p) = 0
<1> SUFFICES ASSUME Init PROVE IssuedTotal = 0 /\ \A p \in Products : Held(p) = 0
  OBVIOUS
<1>1. {i \in Invoices : invoices[i].status = "ISSUED"} = {}
  BY DEF Init, SchemaInit, NoInvoice
<1>2. {i \in Invoices : Holding(i)} = {}
  BY DEF Init, SchemaInit, NoInvoice, Holding
<1>3. IssuedTotal = 0
  BY <1>1, SumEmpty, Zenon DEF IssuedTotal
<1>4. ASSUME NEW p \in Products PROVE Held(p) = 0
  BY <1>2, SumEmpty, Zenon DEF Held
<1>5. QED
  BY <1>3, <1>4

-----------------------------------------------------------------------------
(* Serialized writers: by the ledger that invoicing implements.            *)

(* An invoice holds its goods in two phases and is worth something in one. *)
LEMMA PhaseSays ==
  ASSUME TypeOK, NEW i \in Invoices
  PROVE  /\ Holding(i) <=> Phase(invoices[i]) \in {"held", "sold"}
         /\ invoices[i].status = "ISSUED" <=> Phase(invoices[i]) = "sold"
BY DEF TypeOK, SchemaTypeOK, InvoiceRow, InvoiceStatus, Phase, Holding

(* Each step of the ledger moves the shelf and the units held by the same  *)
(* amount in opposite directions, and income by what is issued.            *)
LEMMA LedgerBalances ==
  ASSUME IInv, IInv', Ledger!LedgerNext
  PROVE  /\ \A p \in Goods : stock'[p] + Held(p)' = stock[p] + Held(p)
         /\ revenue' - IssuedTotal' = revenue - IssuedTotal
<1>1. /\ TypeOK /\ TypeOK' /\ revenue \in Int
      /\ \A p \in Goods : p \in Products /\ stock[p] \in Int
  BY SchemaAssumption DEF SchemaAssumption, IInv, TypeOK, SchemaTypeOK
<1>2. PICK i \in Invoices : \/ Ledger!Write(i) \/ Ledger!Hold(i) \/ Ledger!Release(i)
                            \/ Ledger!Sell(i) \/ Ledger!Void(i)
  BY DEF Ledger!LedgerNext
<1> DEFINE was == Phase(invoices[i])
           is == Phase(invoices'[i])
           lines == invoices[i].lines
           worth == Worth[lines]
<1>3. /\ \A p \in Goods : lines[p] \in Nat /\ invoices'[i].lines[p] \in Nat
      /\ worth \in Nat
  <2>1. invoices[i] \in InvoiceRow /\ invoices'[i] \in InvoiceRow /\ worth = invoices[i].total
    BY <1>1 DEF TypeOK, SchemaTypeOK, IInv, TotalsMatch
  <2>2. QED
    BY <1>1, <2>1, LinesAreNat DEF InvoiceRow
<1>4. \A j \in Invoices : /\ invoices[j].total = Worth[invoices[j].lines]
                          /\ invoices'[j].total = Worth[invoices'[j].lines]
  BY DEF IInv, TotalsMatch
<1>5. \A j \in Invoices \ {i} : /\ Phase(invoices'[j]) = Phase(invoices[j])
                                /\ invoices'[j].lines = invoices[j].lines
  BY <1>2 DEF Ledger!Write, Ledger!Hold, Ledger!Release, Ledger!Sell, Ledger!Void, Ledger!Move
<1>6. \/ /\ was = "open" /\ is = "open" /\ revenue' = revenue
         /\ \A p \in Goods : stock'[p] = stock[p]
      \/ /\ was = "open" /\ is = "held" /\ invoices'[i].lines = lines /\ revenue' = revenue
         /\ \A p \in Goods : stock'[p] = stock[p] - lines[p]
      \/ /\ was = "held" /\ is = "open" /\ invoices'[i].lines = lines /\ revenue' = revenue
         /\ \A p \in Goods : stock'[p] = stock[p] + lines[p]
      \/ /\ was = "held" /\ is = "sold" /\ invoices'[i].lines = lines /\ revenue' = revenue + worth
         /\ \A p \in Goods : stock'[p] = stock[p]
      \/ /\ was = "sold" /\ is = "void" /\ invoices'[i].lines = lines /\ revenue' = revenue - worth
         /\ \A p \in Goods : stock'[p] = stock[p] + lines[p]
  BY <1>2 DEF Ledger!Write, Ledger!Hold, Ledger!Release, Ledger!Sell, Ledger!Void, Ledger!Move,
              Ledger!Take, Ledger!PutBack
<1>7. \A j \in Invoices : /\ Holding(j) <=> Phase(invoices[j]) \in {"held", "sold"}
                          /\ invoices[j].status = "ISSUED" <=> Phase(invoices[j]) = "sold"
  BY <1>1, PhaseSays
<1>8. \A j \in Invoices : /\ Holding(j)' <=> Phase(invoices'[j]) \in {"held", "sold"}
                          /\ invoices'[j].status = "ISSUED" <=> Phase(invoices'[j]) = "sold"
  BY <1>1 DEF TypeOK, SchemaTypeOK, InvoiceRow, InvoiceStatus, Phase, Holding
<1>9. ASSUME NEW p \in Goods
      PROVE  stock'[p] + Held(p)' = stock[p] + Held(p)
  <2>1. \A j \in Invoices \ {i} : /\ invoices'[j].lines = invoices[j].lines
                                  /\ Holding(j)' <=> Holding(j)
    BY <1>5, <1>7, <1>8
  <2>2. Held(p)' = Held(p) - HeldOn(i, p) + HeldOn(i, p)' /\ Held(p) \in Int
    BY <1>1, <2>1, HeldMoves DEF TypeOK, SchemaTypeOK
  <2>3. /\ HeldOn(i, p) = IF was \in {"held", "sold"} THEN lines[p] ELSE 0
        /\ HeldOn(i, p)' = IF is \in {"held", "sold"} THEN invoices'[i].lines[p] ELSE 0
    BY <1>7, <1>8 DEF HeldOn
  <2> HIDE DEF was, is, lines, worth
  <2>4. QED
    BY <1>1, <1>3, <1>6, <2>2, <2>3
<1>10. revenue' - IssuedTotal' = revenue - IssuedTotal
  <2>1. \A j \in Invoices \ {i} :
           /\ invoices'[j].total = invoices[j].total
           /\ invoices'[j].status = "ISSUED" <=> invoices[j].status = "ISSUED"
    BY <1>4, <1>5, <1>7, <1>8
  <2>2. IssuedTotal' = IssuedTotal - IssuedOn(i) + IssuedOn(i)' /\ IssuedTotal \in Int
    BY <1>1, <2>1, IssuedMoves
  <2>3. /\ IssuedOn(i) = IF was = "sold" THEN worth ELSE 0
        /\ IssuedOn(i)' = IF is = "sold" THEN Worth[invoices'[i].lines] ELSE 0
    BY <1>4, <1>7, <1>8 DEF IssuedOn
  <2>4. invoices'[i].lines = lines => Worth[invoices'[i].lines] = worth
    OBVIOUS
  <2> HIDE DEF was, is, lines, worth
  <2>5. QED
    BY <1>1, <1>3, <1>6, <2>2, <2>3, <2>4
<1>11. QED
  BY <1>9, <1>10

(* Where the ledger stands still, nothing moves.                           *)
LEMMA LedgerRests ==
  ASSUME IInv, IInv', UNCHANGED Ledger!ledger
  PROVE  /\ \A p \in Goods : stock'[p] + Held(p)' = stock[p] + Held(p)
         /\ revenue' - IssuedTotal' = revenue - IssuedTotal
<1>1. TypeOK /\ TypeOK'
  BY DEF IInv
<1>2. \A i \in Invoices : /\ Phase(invoices'[i]) = Phase(invoices[i])
                          /\ invoices'[i].lines = invoices[i].lines
  BY DEF Ledger!ledger
<1>3. \A i \in Invoices : invoices'[i].total = invoices[i].total
  BY <1>2 DEF IInv, TotalsMatch
<1>4. \A i \in Invoices : /\ Holding(i) <=> Phase(invoices[i]) \in {"held", "sold"}
                          /\ invoices[i].status = "ISSUED" <=> Phase(invoices[i]) = "sold"
  BY <1>1, PhaseSays
<1>5. \A i \in Invoices : /\ Holding(i)' <=> Phase(invoices'[i]) \in {"held", "sold"}
                          /\ invoices'[i].status = "ISSUED" <=> Phase(invoices'[i]) = "sold"
  BY <1>1 DEF TypeOK, SchemaTypeOK, InvoiceRow, InvoiceStatus, Phase, Holding
<1>6. ASSUME NEW p \in Goods PROVE Held(p)' = Held(p) /\ stock'[p] = stock[p]
  <2>1. {i \in Invoices : Holding(i)'} = {i \in Invoices : Holding(i)}
    BY <1>2, <1>4, <1>5
  <2>2. [i \in Invoices |-> invoices'[i].lines[p]] = [i \in Invoices |-> invoices[i].lines[p]]
    BY <1>2
  <2>3. Held(p)' = Held(p)
    BY <2>1, <2>2, Zenon DEF Held
  <2>4. QED
    BY <2>3 DEF Ledger!ledger
<1>7. IssuedTotal' = IssuedTotal
  <2>1. {i \in Invoices : invoices'[i].status = "ISSUED"}
          = {i \in Invoices : invoices[i].status = "ISSUED"}
    BY <1>2, <1>4, <1>5
  <2>2. [i \in Invoices |-> invoices'[i].total] = [i \in Invoices |-> invoices[i].total]
    BY <1>3
  <2>3. QED
    BY <2>1, <2>2, Zenon DEF IssuedTotal
<1>8. QED
  BY <1>6, <1>7 DEF Ledger!ledger

(* With serialized writers, every unit of a good is on the shelf or on an  *)
(* invoice that was sent or issued, and the revenue of the year is the sum *)
(* of the issued invoices: crashes and concurrent cancellations included.  *)
THEOREM BooksBalance ==
  ASSUME Serialized
  PROVE  Spec => [](StockConservation /\ RevenueIsIssuedTotal)
<1>1. Init => StockConservation /\ RevenueIsIssuedTotal
  <2> SUFFICES ASSUME Init PROVE StockConservation /\ RevenueIsIssuedTotal
    OBVIOUS
  <2>1. IssuedTotal = 0 /\ \A p \in Goods : Held(p) = 0 /\ Opening[p] \in Nat
    BY InitSums, SchemaAssumption DEF SchemaAssumption
  <2>2. revenue = 0 /\ stock = Opening
    BY DEF Init, SchemaInit
  <2>3. QED
    BY <2>1, <2>2 DEF StockConservation, RevenueIsIssuedTotal
<1>2. /\ IInv /\ StockConservation /\ RevenueIsIssuedTotal
      /\ [Next]_vars
      => (StockConservation /\ RevenueIsIssuedTotal)'
  <2> SUFFICES ASSUME IInv, StockConservation, RevenueIsIssuedTotal, [Next]_vars
               PROVE  StockConservation' /\ RevenueIsIssuedTotal'
    OBVIOUS
  <2>1. IInv'
    BY StepFresh
  <2>2. /\ \A p \in Goods : stock'[p] + Held(p)' = stock[p] + Held(p)
        /\ revenue' - IssuedTotal' = revenue - IssuedTotal
    BY <2>1, LedgerStep, LedgerBalances, LedgerRests
  <2>3. IssuedTotal \in Int /\ IssuedTotal' \in Int /\ revenue \in Int /\ revenue' \in Int
    <3>1. ASSUME NEW i \in Invoices
          PROVE  invoices[i].total \in Int /\ invoices'[i].total \in Int
      BY <2>1 DEF IInv, TypeOK, SchemaTypeOK, InvoiceRow
    <3>2. /\ IsFiniteSet({i \in Invoices : invoices[i].status = "ISSUED"})
          /\ IsFiniteSet({i \in Invoices : invoices'[i].status = "ISSUED"})
      BY FiniteAssumption, FS_Subset DEF FiniteAssumption
    <3>3. QED
      BY <2>1, <3>1, <3>2, SumInt DEF IInv, TypeOK, SchemaTypeOK, IssuedTotal
  <2>4. StockConservation'
    BY <2>2 DEF StockConservation
  <2>5. RevenueIsIssuedTotal'
    BY <2>2, <2>3 DEF RevenueIsIssuedTotal, IssuedTotal
  <2>6. QED
    BY <2>4, <2>5
<1>3. QED
  BY <1>1, <1>2, Freshness, PTL DEF Spec

-----------------------------------------------------------------------------
(* From here on requests race for the same invoices, with any number of    *)
(* slots that create, publish, cancel and delete them; but nobody edits    *)
(* one after it was created.                                               *)

(* What a request read is still there, since nobody writes it.             *)
Unedited(r) ==
  /\ pc[r] # "updating"
  /\ pc[r] # "idle" => invoices[doc[r]].status # "ABSENT"
  /\ pc[r] = "publishing" => seen[r].lines = invoices[doc[r]].lines
  /\ pc[r] \in {"locking", "canceling"} => seen[r].total = invoices[doc[r]].total

(* The requests that took the goods of i and wait for the authority.       *)
Asking(i) == {r \in Requests : pc[r] \in {"awaiting", "locking", "rollingBack"} /\ doc[r] = i}

(* The goods of invoice i were taken off the shelf k[i] times more than    *)
(* they were put back: once for each request that may still put them back, *)
(* and once for the cancellation an issued invoice may meet.               *)
Taken(k) ==
  /\ \A i \in Invoices :
       /\ Cardinality(Asking(i)) + (IF invoices[i].status = "ISSUED" THEN 1 ELSE 0) <= k[i]
       /\ invoices[i].status = "PENDING_ISSUED" => k[i] >= 1
       /\ invoices[i].status = "ABSENT" => k[i] = 0
  /\ \A p \in Goods :
       stock[p] + SumFunctionOnSet([i \in Invoices |-> k[i] * invoices[i].lines[p]], Invoices)
         = Opening[p]

RacingInv ==
  /\ TypeOK
  /\ Permitted
  /\ \A r \in Requests : Unedited(r)
  /\ revenue >= IssuedTotal

-----------------------------------------------------------------------------
(* The step gives invoice d the status s and leaves the status of the      *)
(* others, every line and every total.                                     *)
Restates(d, s) ==
  /\ \A i \in Invoices : /\ invoices'[i].lines = invoices[i].lines
                         /\ invoices'[i].total = invoices[i].total
                         /\ i # d => invoices'[i].status = invoices[i].status
  /\ invoices'[d].status = s

(* This is what the writing steps of a publication, a cancellation and a   *)
(* deletion do.                                                            *)
LEMMA StatusWrites ==
  ASSUME TypeOK, NEW r \in Requests
  PROVE  /\ Reserve(r) => Restates(doc[r], "PENDING_ISSUED")
         /\ LockCommit(r) => Restates(doc[r], "ISSUED")
         /\ RollbackCommit(r) => Restates(doc[r], "SYNC_FAILED")
         /\ CancelCommit(r) => Restates(doc[r], "CANCELED")
         /\ DeleteCommit(r) => Restates(doc[r], "DELETED")
<1>1. invoices \in [Invoices -> InvoiceRow] /\ (pc[r] # "idle" => doc[r] \in Invoices)
  BY DEF TypeOK, SchemaTypeOK
<1>2. ASSUME NEW d \in Invoices, NEW s, SetStatus(d, s) PROVE Restates(d, s)
  BY <1>1, <1>2 DEF SetStatus, InvoiceRow, Restates
<1>3. ASSUME LockCommit(r) PROVE Restates(doc[r], "ISSUED")
  BY <1>1, <1>3 DEF LockCommit, InvoiceRow, Restates
<1>4. QED
  BY <1>1, <1>2, <1>3 DEF Reserve, LockCommit, RollbackCommit, CancelCommit, DeleteCommit

(* Every step keeps what its slot may do and what it has read.             *)
LEMMA StepUnedited ==
  ASSUME NoEdits, TypeOK, Permitted, \A r \in Requests : Unedited(r), [Next]_vars
  PROVE  Permitted' /\ \A r \in Requests : Unedited(r)'
<1> DEFINE Goal == Permitted' /\ \A r \in Requests : Unedited(r)'
<1>0. /\ pc \in [Requests -> InvoicingSteps] /\ DOMAIN doc = Requests
      /\ DOMAIN seen = Requests /\ DOMAIN invoices = Invoices
      /\ \A r \in Requests : pc[r] # "idle" => doc[r] \in Invoices
  BY DEF TypeOK, SchemaTypeOK
<1>1. ASSUME NEW r \in Requests, NEW i \in Invoices, CreateInvoice(r, i)
      PROVE  Goal
  <2>1. PICK b \in Baskets : invoices' = [invoices EXCEPT ![i] =
          [NoInvoice EXCEPT !.status = "DRAFT", !.lines = b, !.total = Worth[b]]]
    BY <1>1 DEF CreateInvoice
  <2>2. \A s \in Requests : pc[s] # "idle" => invoices'[doc[s]] = invoices[doc[s]]
    BY <1>0, <1>1, <2>1 DEF CreateInvoice, Unedited
  <2>3. QED
    BY <1>0, <1>1, <2>2 DEF CreateInvoice, Permitted, Unedited
<1>2. ASSUME NEW r \in Requests, NEW i \in Invoices,
             PublishBegin(r, i) \/ CancelBegin(r, i) \/ UpdateBegin(r, i) \/ DeleteBegin(r, i)
      PROVE  Goal
  <2>1. invoices' = invoices /\ invoices[i].status # "ABSENT" /\ <<"update", i>> \notin Permits[r]
    BY <1>2 DEF NoEdits, PublishBegin, CancelBegin, UpdateBegin, DeleteBegin, Editable, Cancelable,
                tables
  <2>2. Permitted'
    BY <1>0, <1>2 DEF PublishBegin, CancelBegin, UpdateBegin, DeleteBegin, Accept, Goto, Permitted,
                Operation
  <2>3. Unedited(r)'
    BY <1>0, <1>2, <2>1 DEF PublishBegin, CancelBegin, UpdateBegin, DeleteBegin, Accept, Goto, Remember,
                      Unedited
  <2>4. ASSUME NEW s \in Requests \ {r} PROVE Unedited(s)'
    BY <1>0, <1>2, <2>1 DEF PublishBegin, CancelBegin, UpdateBegin, DeleteBegin, Goto, Remember, Unedited
  <2>5. QED
    BY <2>2, <2>3, <2>4
<1>3. ASSUME NEW r \in Requests, Reserve(r) \/ LockRead(r) \/ RollbackRead(r)
      PROVE  Goal
  <2>1. \A i \in Invoices : /\ invoices'[i].lines = invoices[i].lines
                            /\ invoices'[i].total = invoices[i].total
                            /\ invoices[i].status # "ABSENT" => invoices'[i].status # "ABSENT"
    <3>1. CASE Reserve(r)
      BY <3>1, StatusWrites DEF Restates
    <3>2. CASE LockRead(r) \/ RollbackRead(r)
      BY <3>2 DEF LockRead, RollbackRead, tables
    <3>3. QED
      BY <1>3, <3>1, <3>2
  <2>2. Permitted'
    BY <1>0, <1>3 DEF Reserve, LockRead, RollbackRead, Goto, Permitted, Operation
  <2>3. Unedited(r)'
    BY <1>0, <1>3, <2>1 DEF Reserve, LockRead, RollbackRead, Goto, Remember, Forget, Unedited, tables
  <2>4. ASSUME NEW s \in Requests \ {r} PROVE Unedited(s)'
    BY <1>0, <1>3, <2>1 DEF Reserve, LockRead, RollbackRead, Goto, Remember, Forget, Unedited
  <2>5. QED
    BY <2>2, <2>3, <2>4
<1>4. ASSUME NEW r \in Requests,
             \/ LockCommit(r) \/ RollbackCommit(r) \/ CancelCommit(r) \/ DeleteCommit(r)
             \/ Refuse(r) \/ Fail(r)
      PROVE  Goal
  <2>1. \A i \in Invoices : /\ invoices'[i].lines = invoices[i].lines
                            /\ invoices'[i].total = invoices[i].total
                            /\ invoices[i].status # "ABSENT" => invoices'[i].status # "ABSENT"
    <3>1. CASE LockCommit(r) \/ RollbackCommit(r)
      BY <3>1, StatusWrites DEF Restates
    <3>2. CASE CancelCommit(r) \/ DeleteCommit(r)
      BY <3>2, StatusWrites DEF Restates
    <3>3. CASE Refuse(r) \/ Fail(r)
      BY <3>3 DEF Refuse, Fail, tables
    <3>4. QED
      BY <1>4, <3>1, <3>2, <3>3
  <2>2. /\ Respond(r)
        /\ Forget(r)
    BY <1>4 DEF LockCommit, RollbackCommit, CancelCommit, DeleteCommit, Refuse, Fail
  <2>3. QED
    BY <1>0, <2>1, <2>2 DEF Respond, Goto, Forget, Permitted, Unedited
<1>5. ASSUME NEW r \in Requests, UpdateDetails(r) \/ UpdateHeader(r)
      PROVE  FALSE
  BY <1>5 DEF UpdateDetails, UpdateHeader, Unedited
<1>6. CASE UNCHANGED vars
  BY <1>6 DEF vars, tables, Permitted, Unedited
<1>7. QED
  BY <1>1, <1>2, <1>3, <1>4, <1>5, <1>6 DEF Next, Begin, Continue, Waiting
-----------------------------------------------------------------------------
(* The revenue never falls behind the issued invoices.                     *)
LEMMA RevenueStep ==
  ASSUME NoEdits, RacingInv, TypeOK', [Next]_vars
  PROVE  revenue' >= IssuedTotal'
<1>1. /\ TypeOK /\ revenue \in Int /\ revenue >= IssuedTotal
      /\ DOMAIN invoices = Invoices
      /\ \A r \in Requests : /\ Unedited(r)
                             /\ pc[r] # "idle" => doc[r] \in Invoices
  BY DEF RacingInv, TypeOK, SchemaTypeOK
<1>2. ASSUME NEW r \in Requests, NEW i \in Invoices, CreateInvoice(r, i)
      PROVE  revenue' >= IssuedTotal'
  <2>1. PICK b \in Baskets : invoices' = [invoices EXCEPT ![i] =
          [NoInvoice EXCEPT !.status = "DRAFT", !.lines = b, !.total = Worth[b]]]
    BY <1>2 DEF CreateInvoice
  <2>2. invoices'[i].status = "DRAFT" /\ \A j \in Invoices \ {i} : invoices'[j] = invoices[j]
    BY <1>1, <2>1 DEF NoInvoice
  <2>3. /\ IssuedTotal' = IssuedTotal - IssuedOn(i) + IssuedOn(i)'
        /\ IssuedTotal \in Int /\ IssuedOn(i) \in Nat
    BY <1>1, <2>2, IssuedMoves
  <2>4. IssuedOn(i)' = 0 /\ revenue' = revenue
    BY <1>2, <2>2 DEF CreateInvoice, IssuedOn
  <2>5. QED
    BY <1>1, <2>3, <2>4
<1>3. ASSUME NEW i \in Invoices, NEW s, Restates(i, s)
      PROVE  /\ IssuedTotal' = IssuedTotal - IssuedOn(i)
                               + (IF s = "ISSUED" THEN invoices[i].total ELSE 0)
             /\ IssuedTotal \in Int /\ IssuedOn(i) \in Nat /\ invoices[i].total \in Nat
  <2>1. \A j \in Invoices \ {i} :
          /\ invoices'[j].total = invoices[j].total
          /\ invoices'[j].status = "ISSUED" <=> invoices[j].status = "ISSUED"
    BY <1>3 DEF Restates
  <2>2. IssuedOn(i)' = IF s = "ISSUED" THEN invoices[i].total ELSE 0
    BY <1>3 DEF Restates, IssuedOn
  <2>3. invoices[i].total \in Nat
    BY <1>1 DEF TypeOK, SchemaTypeOK, InvoiceRow
  <2>4. QED
    BY <1>1, <2>1, <2>2, <2>3, IssuedMoves
<1>4. ASSUME NEW r \in Requests, LockCommit(r)
      PROVE  revenue' >= IssuedTotal'
  <2>1. doc[r] \in Invoices /\ revenue' = revenue + invoices[doc[r]].total
    BY <1>1, <1>4 DEF LockCommit, Unedited
  <2>2. Restates(doc[r], "ISSUED")
    BY <1>1, <1>4, StatusWrites
  <2>3. QED
    BY <1>1, <1>3, <2>1, <2>2
<1>5. ASSUME NEW r \in Requests, CancelCommit(r)
      PROVE  revenue' >= IssuedTotal'
  <2>1. doc[r] \in Invoices /\ revenue' = revenue - invoices[doc[r]].total
    BY <1>1, <1>5 DEF CancelCommit, Unedited
  <2>2. Restates(doc[r], "CANCELED")
    BY <1>1, <1>5, StatusWrites
  <2>3. IssuedOn(doc[r]) = invoices[doc[r]].total
    BY <1>5 DEF CancelCommit, CanCancel, Cancelable, IssuedOn
  <2>4. QED
    BY <1>1, <1>3, <2>1, <2>2, <2>3
<1>6. ASSUME NEW r \in Requests, Reserve(r) \/ RollbackCommit(r) \/ DeleteCommit(r)
      PROVE  revenue' >= IssuedTotal'
  <2>1. doc[r] \in Invoices /\ revenue' = revenue
    BY <1>1, <1>6 DEF Reserve, RollbackCommit, DeleteCommit
  <2>2. \E s \in {"PENDING_ISSUED", "SYNC_FAILED", "DELETED"} : Restates(doc[r], s)
    BY <1>1, <1>6, StatusWrites
  <2>3. QED
    BY <1>1, <1>3, <2>1, <2>2
<1>7. ASSUME NEW r \in Requests, UpdateDetails(r) \/ UpdateHeader(r)
      PROVE  FALSE
  BY <1>1, <1>7 DEF UpdateDetails, UpdateHeader, Unedited
<1>8. CASE UNCHANGED <<invoices, revenue>>
  BY <1>1, <1>8 DEF IssuedTotal
<1>9. QED
  BY <1>2, <1>4, <1>5, <1>6, <1>7, <1>8
     DEF Next, Begin, Continue, Waiting, PublishBegin, CancelBegin, UpdateBegin, DeleteBegin,
         LockRead, RollbackRead, Refuse, Fail, vars, tables

-----------------------------------------------------------------------------
(* The units of p taken off the shelf and not put back.                    *)
Out(k, p) == SumFunctionOnSet([i \in Invoices |-> k[i] * invoices[i].lines[p]], Invoices)

(* When invoice i is taken n times instead of k[i], they move with it.     *)
LEMMA OutMoves ==
  ASSUME TypeOK, TypeOK', NEW p \in Products, NEW k \in [Invoices -> Nat],
         NEW i \in Invoices, NEW n \in Nat,
         \A j \in Invoices : invoices'[j].lines = invoices[j].lines
  PROVE  /\ Out([k EXCEPT ![i] = n], p)'
              = Out(k, p) - k[i] * invoices[i].lines[p] + n * invoices[i].lines[p]
         /\ Out(k, p) \in Int /\ k[i] \in Nat /\ invoices[i].lines[p] \in Nat
<1> DEFINE l == [k EXCEPT ![i] = n]
           f == [j \in Invoices |-> k[j] * invoices[j].lines[p]]
           e == [j \in Invoices |-> l[j] * invoices'[j].lines[p]]
<1>1. \A j \in Invoices : invoices[j].lines[p] \in Nat /\ k[j] \in Nat /\ l[j] \in Nat
  BY LinesAreNat DEF TypeOK, SchemaTypeOK, InvoiceRow
<1>2. \A j \in Invoices : f[j] \in Int /\ e[j] \in Int
  BY <1>1
<1>3. \A j \in Invoices \ {i} : f[j] = e[j]
  OBVIOUS
<1>4. Share(f, Invoices, i) = k[i] * invoices[i].lines[p]
  BY DEF Share
<1>5. Share(e, Invoices, i) = n * invoices[i].lines[p]
  BY DEF Share
<1>6. IsFiniteSet(Invoices)
  BY FiniteAssumption DEF FiniteAssumption
<1>7. Out(k, p) = SumFunctionOnSet(f, Invoices) /\ Out(l, p)' = SumFunctionOnSet(e, Invoices)
  BY DEF Out
<1> HIDE DEF f, e
<1>8. SumFunctionOnSet(e, Invoices)
        = SumFunctionOnSet(f, Invoices) - Share(f, Invoices, i) + Share(e, Invoices, i)
  BY <1>2, <1>3, <1>6, SumMoves
<1>9. SumFunctionOnSet(f, Invoices) \in Int
  BY <1>2, <1>6, SumInt
<1>10. QED
  BY <1>1, <1>4, <1>5, <1>7, <1>8, <1>9

(* They stay while no line that counts changes.                            *)
LEMMA OutStays ==
  ASSUME TypeOK, TypeOK', NEW p \in Products, NEW k \in [Invoices -> Nat],
         \A j \in Invoices : k[j] # 0 => invoices'[j].lines = invoices[j].lines
  PROVE  Out(k, p)' = Out(k, p)
<1> DEFINE f == [j \in Invoices |-> k[j] * invoices[j].lines[p]]
           e == [j \in Invoices |-> k[j] * invoices'[j].lines[p]]
<1>1. \A j \in Invoices : invoices[j].lines[p] \in Nat /\ invoices'[j].lines[p] \in Nat
  BY LinesAreNat DEF TypeOK, SchemaTypeOK, InvoiceRow
<1>2. \A j \in Invoices : f[j] = e[j]
  BY <1>1
<1>3. IsFiniteSet(Invoices)
  BY FiniteAssumption DEF FiniteAssumption
<1>4. Out(k, p) = SumFunctionOnSet(f, Invoices) /\ Out(k, p)' = SumFunctionOnSet(e, Invoices)
  BY DEF Out
<1> HIDE DEF f, e
<1>5. QED
  BY <1>2, <1>3, <1>4, SumSame

(* Asking requests are counted.                                            *)
LEMMA AskingCount ==
  ASSUME NEW i
  PROVE  IsFiniteSet(Asking(i)) /\ Cardinality(Asking(i)) \in Nat
BY FiniteAssumption, FS_Subset, FS_CardinalityType DEF FiniteAssumption, Asking

(* A request that answers asks no more; one that takes goods asks from now *)
(* on.                                                                     *)
LEMMA AskingMoves ==
  ASSUME NEW r \in Requests, NEW i \in Invoices,
         \A s \in Requests \ {r} : pc'[s] = pc[s] /\ doc'[s] = doc[s]
  PROVE  /\ pc'[r] = "idle" =>
              Cardinality(Asking(i))' = Cardinality(Asking(i)) - (IF r \in Asking(i) THEN 1 ELSE 0)
         /\ (r \in Asking(i))' /\ r \notin Asking(i) =>
              Cardinality(Asking(i))' = Cardinality(Asking(i)) + 1
         /\ (r \in Asking(i))' = (r \in Asking(i)) =>
              Cardinality(Asking(i))' = Cardinality(Asking(i))
<1>1. IsFiniteSet(Asking(i)) /\ Cardinality(Asking(i)) \in Nat
  BY AskingCount
<1>2. Asking(i)' \ {r} = Asking(i) \ {r}
  BY DEF Asking
<1>3. ASSUME pc'[r] = "idle"
      PROVE  Cardinality(Asking(i))' = Cardinality(Asking(i)) - (IF r \in Asking(i) THEN 1 ELSE 0)
  <2>1. Asking(i)' = Asking(i) \ {r}
    BY <1>2, <1>3 DEF Asking
  <2>2. CASE r \in Asking(i)
    <3>1. Cardinality(Asking(i) \ {r}) = Cardinality(Asking(i)) - 1
      BY <1>1, <2>2, FS_RemoveElement, Zenon
    <3>2. QED
      BY <2>1, <2>2, <3>1
  <2>3. CASE r \notin Asking(i)
    <3>1. Asking(i)' = Asking(i)
      BY <2>1, <2>3
    <3>2. QED
      BY <1>1, <2>3, <3>1
  <2>4. QED
    BY <2>2, <2>3
<1>4. ASSUME (r \in Asking(i))', r \notin Asking(i)
      PROVE  Cardinality(Asking(i))' = Cardinality(Asking(i)) + 1
  <2>1. Asking(i)' = Asking(i) \cup {r}
    BY <1>2, <1>4
  <2>2. Cardinality(Asking(i) \cup {r}) = Cardinality(Asking(i)) + 1
    BY <1>1, <1>4, FS_AddElement, Zenon
  <2>3. QED
    BY <2>1, <2>2
<1>5. ASSUME (r \in Asking(i))' = (r \in Asking(i))
      PROVE  Cardinality(Asking(i))' = Cardinality(Asking(i))
  <2>1. Asking(i)' = Asking(i)
    BY <1>2, <1>5
  <2>2. QED
    BY <2>1
<1>6. QED
  BY <1>3, <1>4, <1>5

(* One more unit of a count is one more of what it counts.                 *)
LEMMA OneMore ==
  ASSUME NEW n \in Nat, NEW x \in Nat
  PROVE  (n + 1) * x = n * x + x /\ n * x \in Nat
OBVIOUS

(* Each step takes goods once more, puts them back once or leaves them:    *)
(* the counts move along.                                                  *)
LEMMA TakenStep ==
  ASSUME NoEdits, RacingInv, TypeOK', [Next]_vars,
         NEW k \in [Invoices -> Nat], Taken(k)
  PROVE  \E l \in [Invoices -> Nat] : Taken(l)'
<1> DEFINE Goal == \E l \in [Invoices -> Nat] : Taken(l)'
           Sold(i) == IF invoices[i].status = "ISSUED" THEN 1 ELSE 0
<1>1. /\ TypeOK /\ DOMAIN invoices = Invoices /\ DOMAIN pc = Requests /\ DOMAIN doc = Requests
      /\ \A r \in Requests : /\ Unedited(r)
                             /\ pc[r] # "idle" => doc[r] \in Invoices
      /\ \A i \in Invoices : k[i] \in Nat /\ Cardinality(Asking(i)) \in Nat
      /\ \A p \in Goods : p \in Products /\ stock[p] \in Int /\ Out(k, p) \in Int
      /\ DOMAIN stock = Products
  <2>1. \A p \in Goods : p \in Products /\ stock[p] \in Int
    BY SchemaAssumption DEF SchemaAssumption, RacingInv, TypeOK, SchemaTypeOK
  <2>2. ASSUME NEW p \in Goods PROVE Out(k, p) \in Int
    <3>1. \A j \in Invoices : invoices[j].lines[p] \in Nat /\ k[j] \in Nat
      BY <2>1, LinesAreNat DEF RacingInv, TypeOK, SchemaTypeOK, InvoiceRow
    <3>2. \A j \in Invoices : k[j] * invoices[j].lines[p] \in Int
      BY <3>1
    <3>3. QED
      BY <3>2, SumInt, FiniteAssumption DEF FiniteAssumption, Out
  <2>3. QED
    BY <2>1, <2>2, AskingCount DEF RacingInv, TypeOK, SchemaTypeOK
<1>2. /\ \A i \in Invoices : /\ Cardinality(Asking(i)) + Sold(i) <= k[i]
                             /\ invoices[i].status = "PENDING_ISSUED" => k[i] >= 1
                             /\ invoices[i].status = "ABSENT" => k[i] = 0
      /\ \A p \in Goods : stock[p] + Out(k, p) = Opening[p]
  BY DEF Taken, Out
(* What is left to show of a step on invoice i that leaves it taken n      *)
(* times.                                                                  *)
<1>3. ASSUME NEW i \in Invoices, NEW s \in InvoiceStatus \ {"ABSENT"}, Restates(i, s),
             NEW r \in Requests, doc[r] = i,
             \A q \in Requests \ {r} : pc'[q] = pc[q] /\ doc'[q] = doc[q],
             NEW n \in Nat,
             Cardinality(Asking(i))' + (IF s = "ISSUED" THEN 1 ELSE 0) <= n,
             s = "PENDING_ISSUED" => n >= 1,
             pc'[r] = "idle" \/ doc'[r] = i,
             \A p \in Goods : stock'[p] + n * invoices[i].lines[p]
                                = stock[p] + k[i] * invoices[i].lines[p]
      PROVE  Goal
  <2> DEFINE l == [k EXCEPT ![i] = n]
  <2>1. l \in [Invoices -> Nat] /\ l[i] = n /\ \A j \in Invoices \ {i} : l[j] = k[j]
    OBVIOUS
  <2>2. ASSUME NEW j \in Invoices \ {i}
        PROVE  Cardinality(Asking(j))' = Cardinality(Asking(j))
    <3>1. r \notin Asking(j) /\ ~(r \in Asking(j))'
      BY <1>3 DEF Asking
    <3>2. QED
      BY <1>3, <3>1, AskingMoves
  <2>3. ASSUME NEW p \in Goods PROVE stock'[p] + Out(l, p)' = Opening[p]
    <3>1. p \in Products /\ \A j \in Invoices : invoices'[j].lines = invoices[j].lines
      BY <1>1, <1>3 DEF Restates
    <3>2. /\ Out(l, p)' = Out(k, p) - k[i] * invoices[i].lines[p] + n * invoices[i].lines[p]
          /\ Out(k, p) \in Int /\ k[i] \in Nat /\ invoices[i].lines[p] \in Nat
      BY <1>1, <3>1, OutMoves
    <3> DEFINE x == k[i] * invoices[i].lines[p]
               y == n * invoices[i].lines[p]
    <3>3. x \in Nat /\ y \in Nat
      BY <3>2, OneMore
    <3>4. stock'[p] + y = stock[p] + x /\ stock[p] \in Int /\ stock[p] + Out(k, p) = Opening[p]
      BY <1>1, <1>2, <1>3
    <3>5. stock'[p] \in Int
      BY <1>1 DEF TypeOK, SchemaTypeOK
    <3>6. Out(l, p)' = Out(k, p) - x + y /\ Out(k, p) \in Int
      BY <3>2
    <3> HIDE DEF x, y, l
    <3>7. QED
      BY <3>3, <3>4, <3>5, <3>6
  <2>4. ASSUME NEW j \in Invoices
        PROVE  /\ Cardinality(Asking(j))' + (IF invoices'[j].status = "ISSUED" THEN 1 ELSE 0) <= l[j]
               /\ invoices'[j].status = "PENDING_ISSUED" => l[j] >= 1
               /\ invoices'[j].status = "ABSENT" => l[j] = 0
    <3>1. CASE j = i
      BY <1>3, <2>1, <3>1 DEF Restates
    <3>2. CASE j # i
      <4>1. invoices'[j].status = invoices[j].status /\ l[j] = k[j]
        BY <1>3, <2>1, <3>2 DEF Restates
      <4>2. QED
        BY <1>2, <2>2, <3>2, <4>1
    <3>3. QED
      BY <3>1, <3>2
  <2> HIDE DEF l
  <2>5. Taken(l)'
    BY <2>3, <2>4 DEF Taken, Out
  <2>6. QED
    BY <2>1, <2>5
(* And of a step that leaves every invoice and the shelf.                  *)
<1>4. ASSUME UNCHANGED <<invoices, stock>>,
             \A i \in Invoices : Cardinality(Asking(i))' <= Cardinality(Asking(i))
      PROVE  Goal
  <2>1. \A i \in Invoices : Cardinality(Asking(i))' \in Nat
    <3>1. \A i \in Invoices : Cardinality(Asking(i)') \in Nat
      BY FiniteAssumption, FS_Subset, FS_CardinalityType DEF FiniteAssumption, Asking
    <3>2. QED
      BY <3>1
  <2>2. \A i \in Invoices : Cardinality(Asking(i))' + Sold(i) <= k[i]
    BY <1>1, <1>2, <1>4, <2>1
  <2>3. \A p \in Goods : stock'[p] + Out(k, p)' = Opening[p]
    BY <1>2, <1>4 DEF Out
  <2>4. Taken(k)'
    BY <1>2, <1>4, <2>2, <2>3 DEF Taken, Out
  <2>5. QED
    BY <2>4
<1>5. ASSUME NEW r \in Requests, NEW i \in Invoices, CreateInvoice(r, i)
      PROVE  Goal
  <2>1. PICK b \in Baskets : invoices' = [invoices EXCEPT ![i] =
          [NoInvoice EXCEPT !.status = "DRAFT", !.lines = b, !.total = Worth[b]]]
    BY <1>5 DEF CreateInvoice
  <2>2. /\ invoices[i].status = "ABSENT" /\ invoices'[i].status = "DRAFT"
        /\ \A j \in Invoices \ {i} : invoices'[j] = invoices[j]
        /\ stock' = stock
    BY <1>1, <1>5, <2>1 DEF CreateInvoice, NoInvoice
  <2>3. \A j \in Invoices : Cardinality(Asking(j))' = Cardinality(Asking(j))
    <3>1. \A j \in Invoices : Asking(j)' = Asking(j)
      BY <1>5 DEF CreateInvoice, Asking
    <3>2. QED
      BY <3>1
  <2>4. ASSUME NEW p \in Goods PROVE stock'[p] + Out(k, p)' = Opening[p]
    <3>1. \A j \in Invoices : k[j] # 0 => invoices'[j].lines = invoices[j].lines
      BY <1>2, <2>2
    <3>2. Out(k, p)' = Out(k, p)
      BY <1>1, <3>1, OutStays
    <3>3. QED
      BY <1>2, <2>2, <3>2
  <2>5. ASSUME NEW j \in Invoices
        PROVE  /\ Cardinality(Asking(j))' + (IF invoices'[j].status = "ISSUED" THEN 1 ELSE 0) <= k[j]
               /\ invoices'[j].status = "PENDING_ISSUED" => k[j] >= 1
               /\ invoices'[j].status = "ABSENT" => k[j] = 0
    BY <1>1, <1>2, <2>2, <2>3
  <2>6. Taken(k)'
    BY <2>4, <2>5 DEF Taken, Out
  <2>7. QED
    BY <2>6
<1>6. ASSUME NEW r \in Requests, NEW i \in Invoices,
             PublishBegin(r, i) \/ CancelBegin(r, i) \/ UpdateBegin(r, i) \/ DeleteBegin(r, i)
      PROVE  Goal
  <2>1. ASSUME NEW j \in Invoices PROVE Cardinality(Asking(j))' = Cardinality(Asking(j))
    <3>1. /\ r \notin Asking(j) /\ ~(r \in Asking(j))'
          /\ \A s \in Requests \ {r} : pc'[s] = pc[s] /\ doc'[s] = doc[s]
      BY <1>1, <1>6 DEF PublishBegin, CancelBegin, UpdateBegin, DeleteBegin, Accept, Goto, Asking
    <3>2. QED
      BY <3>1, AskingMoves
  <2>2. UNCHANGED <<invoices, stock>>
    BY <1>6 DEF PublishBegin, CancelBegin, UpdateBegin, DeleteBegin, tables
  <2>3. QED
    BY <1>1, <1>4, <2>1, <2>2
<1>7. ASSUME NEW r \in Requests, LockRead(r) \/ RollbackRead(r)
      PROVE  Goal
  <2>1. ASSUME NEW j \in Invoices PROVE Cardinality(Asking(j))' = Cardinality(Asking(j))
    <3>1. /\ (r \in Asking(j))' = (r \in Asking(j))
          /\ \A s \in Requests \ {r} : pc'[s] = pc[s] /\ doc'[s] = doc[s]
      BY <1>1, <1>7 DEF LockRead, RollbackRead, Goto, Asking
    <3>2. QED
      BY <3>1, AskingMoves
  <2>2. UNCHANGED <<invoices, stock>>
    BY <1>7 DEF LockRead, RollbackRead, tables
  <2>3. QED
    BY <1>1, <1>4, <2>1, <2>2
<1>8. ASSUME NEW r \in Requests, Refuse(r) \/ Fail(r)
      PROVE  Goal
  <2>1. /\ pc'[r] = "idle" /\ UNCHANGED <<invoices, stock>>
        /\ \A s \in Requests \ {r} : pc'[s] = pc[s] /\ doc'[s] = doc[s]
    BY <1>1, <1>8 DEF Refuse, Fail, Respond, Goto, tables, TypeOK, SchemaTypeOK
  <2>2. \A i \in Invoices : Cardinality(Asking(i))' <= Cardinality(Asking(i))
    BY <1>1, <2>1, AskingMoves
  <2>3. QED
    BY <1>4, <2>1, <2>2
<1>9. ASSUME NEW r \in Requests, UpdateDetails(r) \/ UpdateHeader(r)
      PROVE  FALSE
  BY <1>1, <1>9 DEF UpdateDetails, UpdateHeader, Unedited
<1> DEFINE Alone(r) == \A s \in Requests \ {r} : pc'[s] = pc[s] /\ doc'[s] = doc[s]
(* The lines of the invoice a writing step is about.                       *)
<1>10. ASSUME NEW r \in Requests, pc[r] # "idle"
       PROVE  /\ doc[r] \in Invoices /\ k[doc[r]] \in Nat
              /\ \A p \in Goods : invoices[doc[r]].lines[p] \in Nat
  BY <1>1, <1>10, LinesAreNat DEF TypeOK, SchemaTypeOK, InvoiceRow
<1>11. ASSUME NEW r \in Requests, Reserve(r)
       PROVE  Goal
  <2>0. PICK i \in Invoices : doc[r] = i
    BY <1>1, <1>11 DEF Reserve
  <2> DEFINE n == k[i] + 1
  <2>1. n \in Nat /\ seen[r].lines = invoices[i].lines
    BY <1>1, <1>11, <2>0 DEF Reserve, Unedited
  <2>2. /\ Alone(r) /\ pc'[r] = "awaiting" /\ doc'[r] = i /\ pc[r] = "publishing"
    BY <1>1, <1>11, <2>0 DEF Reserve, Goto, TypeOK, SchemaTypeOK
  <2>3. Restates(i, "PENDING_ISSUED")
    BY <1>1, <1>11, <2>0, StatusWrites
  <2>4. Cardinality(Asking(i))' = Cardinality(Asking(i)) + 1
    <3>1. (r \in Asking(i))' /\ r \notin Asking(i)
      BY <2>2 DEF Asking
    <3>2. QED
      BY <2>1, <2>2, <3>1, AskingMoves
  <2>5. Cardinality(Asking(i))' + 0 <= n
    BY <1>1, <1>2, <2>1, <2>4
  <2>6. ASSUME NEW p \in Goods
        PROVE  stock'[p] + n * invoices[i].lines[p] = stock[p] + k[i] * invoices[i].lines[p]
    <3> DEFINE x == invoices[i].lines[p]
    <3>1. stock'[p] = stock[p] - x
      BY <1>1, <1>11, <2>0, <2>1 DEF Reserve
    <3>2. x \in Nat /\ k[i] \in Nat /\ stock[p] \in Int
      BY <1>1, <1>10, <2>0, <2>2
    <3> HIDE DEF x
    <3>3. n * x = k[i] * x + x /\ k[i] * x \in Nat
      BY <3>2, OneMore
    <3>4. QED
      BY <3>1, <3>2, <3>3 DEF x
  <2>7. "PENDING_ISSUED" \in InvoiceStatus \ {"ABSENT"} /\ n >= 1
    BY <2>1, <1>1 DEF InvoiceStatus
  <2> HIDE DEF n
  <2>8. QED
    BY <1>3, <2>0, <2>1, <2>2, <2>3, <2>5, <2>6, <2>7
(* The other writing steps end their request.                              *)
<1>12. ASSUME NEW r \in Requests, pc[r] # "idle", Respond(r),
              NEW s \in InvoiceStatus \ {"ABSENT", "PENDING_ISSUED"}, Restates(doc[r], s),
              NEW n \in Nat,
              Cardinality(Asking(doc[r])) - (IF r \in Asking(doc[r]) THEN 1 ELSE 0)
                + (IF s = "ISSUED" THEN 1 ELSE 0) <= n,
              \A p \in Goods : stock'[p] + n * invoices[doc[r]].lines[p]
                                 = stock[p] + k[doc[r]] * invoices[doc[r]].lines[p]
       PROVE  Goal
  <2>1. PICK i \in Invoices : doc[r] = i
    BY <1>1, <1>12
  <2>2. Alone(r) /\ pc'[r] = "idle"
    BY <1>1, <1>12 DEF Respond, Goto
  <2>3. Cardinality(Asking(i))' = Cardinality(Asking(i)) - (IF r \in Asking(i) THEN 1 ELSE 0)
    BY <2>1, <2>2, AskingMoves
  <2>4. Cardinality(Asking(i))' + (IF s = "ISSUED" THEN 1 ELSE 0) <= n
    BY <1>12, <2>1, <2>3
  <2>5. s \in InvoiceStatus \ {"ABSENT"} /\ s # "PENDING_ISSUED"
    BY <1>12
  <2>6. Restates(i, s)
    BY <1>12, <2>1
  <2>7. \A p \in Goods : stock'[p] + n * invoices[i].lines[p]
                           = stock[p] + k[i] * invoices[i].lines[p]
    BY <1>12, <2>1
  <2>8. QED
    BY <1>3, <2>1, <2>2, <2>4, <2>5, <2>6, <2>7
(* Goods that are put back were taken once more than they are afterwards.  *)
<1>13. ASSUME NEW r \in Requests, pc[r] # "idle", k[doc[r]] >= 1,
              \A p \in Goods : stock'[p] = stock[p] + invoices[doc[r]].lines[p]
       PROVE  /\ k[doc[r]] - 1 \in Nat
              /\ \A p \in Goods : stock'[p] + (k[doc[r]] - 1) * invoices[doc[r]].lines[p]
                                    = stock[p] + k[doc[r]] * invoices[doc[r]].lines[p]
  <2> DEFINE m == k[doc[r]] - 1
  <2>1. m \in Nat /\ k[doc[r]] = m + 1
    BY <1>10, <1>13
  <2>2. ASSUME NEW p \in Goods
        PROVE  stock'[p] + m * invoices[doc[r]].lines[p]
                 = stock[p] + k[doc[r]] * invoices[doc[r]].lines[p]
    <3> DEFINE x == invoices[doc[r]].lines[p]
    <3>1. x \in Nat /\ stock[p] \in Int /\ stock'[p] = stock[p] + x
      BY <1>1, <1>10, <1>13
    <3> HIDE DEF x, m
    <3>2. (m + 1) * x = m * x + x /\ m * x \in Nat
      BY <2>1, <3>1, OneMore
    <3>3. stock'[p] + m * x = stock[p] + k[doc[r]] * x
      BY <2>1, <3>1, <3>2
    <3>4. QED
      BY <3>3 DEF x
  <2>3. QED
    BY <2>1, <2>2
<1>14. ASSUME NEW r \in Requests, LockCommit(r) \/ DeleteCommit(r)
       PROVE  Goal
  <2>1. pc[r] # "idle" /\ Respond(r) /\ stock' = stock
    BY <1>14 DEF LockCommit, DeleteCommit
  <2>2. doc[r] \in Invoices /\ k[doc[r]] \in Nat
    BY <1>10, <2>1
  <2>3. PICK s \in {"ISSUED", "DELETED"} : /\ Restates(doc[r], s)
                                           /\ s = "ISSUED" => LockCommit(r)
    BY <1>1, <1>14, StatusWrites
  <2>4. s = "ISSUED" => r \in Asking(doc[r])
    BY <2>3 DEF LockCommit, Asking
  <2>5. Cardinality(Asking(doc[r])) - (IF r \in Asking(doc[r]) THEN 1 ELSE 0)
          + (IF s = "ISSUED" THEN 1 ELSE 0) <= k[doc[r]]
    BY <1>1, <1>2, <2>2, <2>4
  <2>6. s \in InvoiceStatus \ {"ABSENT", "PENDING_ISSUED"}
    BY <2>3 DEF InvoiceStatus
  <2>7. \A p \in Goods : stock'[p] + k[doc[r]] * invoices[doc[r]].lines[p]
                           = stock[p] + k[doc[r]] * invoices[doc[r]].lines[p]
    BY <2>1
  <2>8. QED
    BY <1>12, <2>1, <2>2, <2>3, <2>5, <2>6, <2>7
<1>15. ASSUME NEW r \in Requests, RollbackCommit(r) \/ CancelCommit(r)
       PROVE  Goal
  <2>1. pc[r] # "idle" /\ Respond(r)
    BY <1>15 DEF RollbackCommit, CancelCommit
  <2>2. doc[r] \in Invoices /\ k[doc[r]] \in Nat
    BY <1>10, <2>1
  <2>3. PICK s \in {"SYNC_FAILED", "CANCELED"} : Restates(doc[r], s)
    BY <1>1, <1>15, StatusWrites
  <2>4. r \in Asking(doc[r]) \/ Sold(doc[r]) = 1
    BY <1>15 DEF RollbackCommit, CancelCommit, CanCancel, Cancelable, Asking
  <2>5. r \in Asking(doc[r]) => Cardinality(Asking(doc[r])) >= 1
    <3>1. IsFiniteSet(Asking(doc[r])) /\ Cardinality(Asking(doc[r])) \in Nat
      BY AskingCount
    <3>2. Cardinality(Asking(doc[r])) = 0 <=> Asking(doc[r]) = {}
      BY <3>1, FS_EmptySet
    <3>3. QED
      BY <3>1, <3>2
  <2>6. /\ k[doc[r]] >= 1
        /\ Cardinality(Asking(doc[r])) - (IF r \in Asking(doc[r]) THEN 1 ELSE 0) <= k[doc[r]] - 1
    BY <1>1, <1>2, <2>2, <2>4, <2>5
  <2>7. \A p \in Goods : stock'[p] = stock[p] + invoices[doc[r]].lines[p]
    BY <1>1, <1>15 DEF RollbackCommit, CancelCommit
  <2>8. s \in InvoiceStatus \ {"ABSENT", "PENDING_ISSUED"} /\ s # "ISSUED"
    BY <2>3 DEF InvoiceStatus
  <2>9. /\ k[doc[r]] - 1 \in Nat
        /\ \A p \in Goods : stock'[p] + (k[doc[r]] - 1) * invoices[doc[r]].lines[p]
                              = stock[p] + k[doc[r]] * invoices[doc[r]].lines[p]
    BY <1>13, <2>1, <2>6, <2>7
  <2>10. Cardinality(Asking(doc[r])) - (IF r \in Asking(doc[r]) THEN 1 ELSE 0)
          + (IF s = "ISSUED" THEN 1 ELSE 0) <= k[doc[r]] - 1
    BY <1>1, <2>2, <2>6, <2>8
  <2>11. QED
    BY <1>12, <2>1, <2>3, <2>8, <2>9, <2>10
<1>16. CASE UNCHANGED vars
  <2>1. \A i \in Invoices : Cardinality(Asking(i))' = Cardinality(Asking(i))
    <3>1. \A i \in Invoices : Asking(i)' = Asking(i)
      BY <1>16 DEF vars, Asking
    <3>2. QED
      BY <3>1
  <2>2. QED
    BY <1>1, <1>4, <1>16, <2>1 DEF vars, tables
<1>17. QED
  BY <1>5, <1>6, <1>7, <1>8, <1>9, <1>11, <1>14, <1>15, <1>16
     DEF Next, Begin, Continue, Waiting

(* A racing invariant from the first state on.                             *)
LEMMA Racing ==
  ASSUME NoEdits
  PROVE  /\ Init => RacingInv
         /\ RacingInv /\ [Next]_vars => RacingInv'
<1>1. Init => RacingInv
  <2> SUFFICES ASSUME Init PROVE RacingInv
    OBVIOUS
  <2>1. \A r \in Requests : pc[r] = "idle"
    BY DEF Init, SchemaInit
  <2>2. revenue >= IssuedTotal
    BY InitSums DEF Init, SchemaInit
  <2>3. QED
    BY <2>1, <2>2, InitTypes DEF RacingInv, Permitted, Unedited
<1>2. RacingInv /\ [Next]_vars => RacingInv'
  <2> SUFFICES ASSUME RacingInv, [Next]_vars PROVE RacingInv'
    OBVIOUS
  <2>1. TypeOK'
    BY StepTypes DEF RacingInv
  <2>2. Permitted' /\ \A r \in Requests : Unedited(r)'
    BY StepUnedited DEF RacingInv
  <2>3. revenue' >= IssuedTotal'
    BY <2>1, RevenueStep
  <2>4. QED
    BY <2>1, <2>2, <2>3 DEF RacingInv
<1>3. QED
  BY <1>1, <1>2

(* Whoever races to publish, cancel and delete an invoice, the revenue     *)
(* declared covers what the issued invoices say.                           *)
THEOREM RevenueCovers ==
  ASSUME NoEdits
  PROVE  Spec => []RevenueNotUnderstated
<1>1. RacingInv => RevenueNotUnderstated
  BY DEF RacingInv, RevenueNotUnderstated
<1>2. QED
  BY <1>1, Racing, PTL DEF Spec

(* What was taken once for each invoice that holds its goods covers them.  *)
LEMMA TakenCovers ==
  ASSUME TypeOK, NEW k \in [Invoices -> Nat], Taken(k)
  PROVE  GoodsNotInvented
<1> SUFFICES ASSUME NEW p \in Goods PROVE stock[p] + Held(p) <= Opening[p]
  BY DEF GoodsNotInvented
<1> DEFINE S == {i \in Invoices : Holding(i)}
           f == [i \in Invoices |-> invoices[i].lines[p]]
           e == [i \in Invoices |-> k[i] * invoices[i].lines[p]]
<1>1. p \in Products /\ stock[p] \in Int /\ Opening[p] \in Nat
  BY SchemaAssumption DEF SchemaAssumption, TypeOK, SchemaTypeOK
<1>2. \A i \in Invoices : k[i] \in Nat /\ invoices[i].lines[p] \in Nat
  BY <1>1, LinesAreNat DEF TypeOK, SchemaTypeOK, InvoiceRow
<1>3. \A i \in Invoices : f[i] \in Nat /\ e[i] \in Nat
  BY <1>2
<1>4. ASSUME NEW i \in S PROVE f[i] <= e[i]
  <2>1. IsFiniteSet(Asking(i)) /\ Cardinality(Asking(i)) \in Nat
    BY AskingCount
  <2>2. k[i] >= 1
    BY <1>2, <2>1 DEF Taken, Holding
  <2> DEFINE m == k[i] - 1
             x == invoices[i].lines[p]
  <2>3. m \in Nat /\ x \in Nat /\ k[i] = m + 1
    BY <1>2, <2>2
  <2> HIDE DEF m, x
  <2>4. x <= (m + 1) * x
    BY <2>3, OneMore
  <2>5. QED
    BY <2>3, <2>4 DEF x
<1>5. IsFiniteSet(Invoices) /\ IsFiniteSet(S)
  BY FiniteAssumption, FS_Subset DEF FiniteAssumption
<1>6. Held(p) = SumFunctionOnSet(f, S)
  BY DEF Held
<1>7. stock[p] + SumFunctionOnSet(e, Invoices) = Opening[p]
  BY DEF Taken
<1>8. S \in SUBSET Invoices
  OBVIOUS
<1> HIDE DEF S, f, e
<1>9. SumFunctionOnSet(f, S) <= SumFunctionOnSet(e, S)
  BY <1>3, <1>4, <1>5, <1>8, SumGrows
<1>10. SumFunctionOnSet(e, S) <= SumFunctionOnSet(e, Invoices)
  BY <1>3, <1>5, <1>8, SumSubset
<1>11. /\ SumFunctionOnSet(f, S) \in Int /\ SumFunctionOnSet(e, S) \in Int
       /\ SumFunctionOnSet(e, Invoices) \in Int
  BY <1>3, <1>5, <1>8, SumInt
<1>12. QED
  BY <1>1, <1>6, <1>7, <1>9, <1>10, <1>11

(* Nothing was taken before the first request.                             *)
LEMMA InitTaken ==
  ASSUME Init
  PROVE  \E k \in [Invoices -> Nat] : Taken(k)
<1> DEFINE k == [i \in Invoices |-> 0]
<1>1. \A i \in Invoices : Asking(i) = {} /\ invoices[i].status = "ABSENT"
  BY DEF Init, SchemaInit, NoInvoice, Asking
<1>2. \A i \in Invoices : Cardinality(Asking(i)) = 0
  BY <1>1, FS_EmptySet
<1>3. TypeOK
  BY InitTypes
<1>4. ASSUME NEW p \in Goods
      PROVE  stock[p] + SumFunctionOnSet([i \in Invoices |-> k[i] * invoices[i].lines[p]], Invoices)
               = Opening[p]
  <2>1. p \in Products /\ Opening[p] \in Nat /\ stock = Opening
    BY SchemaAssumption DEF SchemaAssumption, Init, SchemaInit
  <2>2. \A i \in Invoices : invoices[i].lines[p] \in Nat
    BY <1>3, <2>1, LinesAreNat DEF TypeOK, SchemaTypeOK, InvoiceRow
  <2> DEFINE e == [i \in Invoices |-> k[i] * invoices[i].lines[p]]
  <2>3. \A i \in Invoices : e[i] = 0
    BY <2>2
  <2>4. IsFiniteSet(Invoices)
    BY FiniteAssumption DEF FiniteAssumption
  <2> HIDE DEF e
  <2>5. SumFunctionOnSet(e, Invoices) = 0
    BY <2>3, <2>4, SumZero
  <2>6. QED
    BY <2>1, <2>5 DEF e
<1>5. k \in [Invoices -> Nat] /\ \A i \in Invoices : k[i] = 0
  OBVIOUS
<1>6. Taken(k)
  BY <1>1, <1>2, <1>4, <1>5 DEF Taken
<1>7. QED
  BY <1>5, <1>6

(* Nor are goods invented, whoever races: each unit that is put back was   *)
(* taken by a publication before.                                          *)
THEOREM NothingInvented ==
  ASSUME NoEdits
  PROVE  Spec => []GoodsNotInvented
<1> DEFINE Inv == RacingInv /\ \E k \in [Invoices -> Nat] : Taken(k)
<1>1. Init => Inv
  BY Racing, InitTaken
<1>2. Inv /\ [Next]_vars => Inv'
  <2> SUFFICES ASSUME Inv, [Next]_vars PROVE Inv'
    OBVIOUS
  <2>1. RacingInv' /\ TypeOK'
    BY Racing DEF RacingInv
  <2>2. PICK k \in [Invoices -> Nat] : Taken(k)
    OBVIOUS
  <2>3. \E l \in [Invoices -> Nat] : Taken(l)'
    BY <2>1, <2>2, TakenStep
  <2>4. QED
    BY <2>1, <2>3
<1>3. Inv => GoodsNotInvented
  BY TakenCovers DEF RacingInv
<1> HIDE DEF Inv
<1>4. QED
  BY <1>1, <1>2, <1>3, PTL DEF Spec
=============================================================================
