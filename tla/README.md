# Verification of the household-business accounting backend

This directory holds TLA+ models of the backend in `src/` (NestJS, Prisma,
PostgreSQL): a service that issues invoices through the tax authority, keeps the
stock, the receipts and payments and the yearly revenue of a household business,
produces goods, closes its financial periods, declares its taxes and keeps its
accounting books. TLC checks small instances; TLAPS proves the main results for
every value of the constants. Paths below are relative to the repository root.

To repeat the checks:

    tlc -config InvoicingSerial.cfg MCInvoicing     # any run of the tables below
    tlapm InvoicingProofs.tla    # and SettlementProofs, InventoryProofs, TaxYearProofs,
                                 # TaxRulesProofs, BooksProofs, and what these share:
                                 # SumTheorems, TaxEngineProofs

## 1. Inventory of the system

Every handler serves one user; all queries are restricted to the user's rows.
Node runs any number of requests at once, so requests interleave between any two
database statements. PostgreSQL runs at its default level, READ COMMITTED. There
is no queue, no scheduler and no recovery job: what a request does not finish is
never finished.

| Component | State it keeps | Operations | Interacts with | Hard behaviour |
|---|---|---|---|---|
| Outbound invoices (`src/invoices`) | `invoices`, `invoice_details`: status, lines, total, code of the authority | create, publish (reserve, ask the authority, book or roll back), update, cancel, delete | stock, revenue tracker, vouchers, tax authority | status checked before the transaction and not in it; answer of the authority arrives after other requests; death between the phases |
| Receipts and payments (`src/vouchers`) | `vouchers`: type, amount, status, link to an invoice | create, update, cancel, remove, bulkCancelByInvoice | `paidAmount`, `isPaid` of outbound and inbound invoices | amounts computed from unlocked reads; cancellation of a voucher and of its invoice at once |
| Inbound invoices (`src/inbound-invoices`) | `inbound_invoices`, `inbound_invoice_details`: status, synced flag, lines | create, syncToInventory, update, cancel, remove | stock, vouchers | stock written as a value from an unlocked read; flags written back |
| Products and stock (`src/products`) | `products.currentStock`, average cost, price | create, update, remove, updateStockFromCanceledInvoice | all of the above, production | conditional decrements beside absolute writes |
| Revenue tracker | `revenue_trackers.revenueYtd` per year | incremented by publish, decremented by cancel | invoices, tax declaration | must match the issued invoices |
| Tax authority (`src/tax-authority`) | external (the code has a mock) | requestTaxCode | publish | refuses, times out, answers late |
| Internal production orders (`src/internal-production-orders`) | `internal_production_orders`, `production_details`: status, materials, products | create, update, cancel | stock | stock written as a value from an unlocked read; cancellation without a condition; creation and update lock the user's row, cancellation does not |
| Financial periods, period lock (`src/financial-periods`, `src/common/guards`) | `financial_periods`: ABSENT / OPEN / CLOSED, taxes charged, payment date | initial period, lazy creation by the guard, close, reopen, finish payment, administrator's update; guard before every write of documents | invoices, vouchers, declaration | guard and handler are two transactions; counts and sums are read without a lock, and two of the intended locks are updates without data, which lock nothing; a close writes by id alone; the order of closing and reopening |
| Tax declaration (`src/tax-declaration`) | `tax_declaration_drafts`, `tax_declarations` | start, save steps 2 to 4, submit, submit with force, submit ignoring the warning | periods, tax engine | the submission uses figures read before its transaction |
| Tax engine (`src/tax-engine`) | none (pure) | VAT, income tax by percentage and by profit, total, penalty | declaration, periods, books | thresholds, negative profits, year to date |
| Onboarding, tax configuration (`src/onboarding`) | `tax_configurations` with validity ranges, `users.set_up_completed_at` | setup (also opens the first period), update | tax engine, periods | double requests; the clock passes midnight between check and write |
| Accounting books (`src/accounting-books`) | none; the client keeps a summary and its sync code | summary and pages of the revenue, cash, expense and goods books | all documents, product openings | a summary outdated without notice: changes that bring no later `updated_at`; balances carried from page to page |
| Dashboard | none (read-only SQL) | cards and charts | all tables | - |
| Voucher categories, voucher codes | categories; last code of a type | create, rename, remove; next code | vouchers | a code that already exists blocks creation |
| Authentication, tokens, users | refresh tokens | sign-in, refresh | - | outside bookkeeping |
| Audit log | append-only rows | log | users row (foreign key) | its insert conflicts with a lock on the users row, which matters in vouchers.create |

What makes each component correct:

- **Invoices and stock.** No good is oversold; what left the shelf is what
  pending and issued invoices hold; the revenue is the sum of the issued
  invoices; an invoice that was sent is not edited or deleted; canceled is final;
  an invoice sent gets an answer.
- **Vouchers.** `paidAmount` is the sum of the active vouchers of the invoice;
  never above its total; `isPaid` says that nothing remains; canceling an invoice
  cancels its vouchers; a linked voucher keeps its fields.
- **Inbound.** The stock is the opening stock plus the goods of synced bills in
  force minus those sold; a bill counts once; a voided bill counts not at all.
- **Production.** Materials and products move once per order and once back; a
  canceled order stays as it was.
- **Periods.** Closed periods form a prefix of the quarters; nothing is pending in
  a closed one and its revenue does not grow; taxes are paid for declared periods
  only.
- **Declaration.** A declaration is made once, and declares what the period sums;
  the declared period stays closed, and was charged what the declaration says unless
  a plain close raced with it; the year to date is the sum of the year's
  declarations, and quarterly taxes add up to the tax on it.
- **Tax engine.** More revenue is never less tax, more expense never more; no cliff
  at the exempt threshold.
- **Onboarding.** The configurations of a user follow each other without gap or
  overlap, the cooldown apart; every day has its period and its deadline.
- **Books.** A summary is as of the documents, or the client is told that it is not,
  unless a document changed without a later `updated_at`;
  a range, and a page, opens with the balance the one before it closed with; taxes
  of consecutive ranges add up.

PROJECT.json lists the hazards of the code line by line, with the properties that
watch over them.

## 2. The modules

    Schema --- Invoicing ---- MCInvoicing              SalesLedger (abstract)
      |            |    \---- InvoicingProofs             ^ implemented by Invoicing
      |------- Vouchers
      |            |
      |        Settlement --- MCSettlement              (Invoicing + Vouchers)
      |            |    \---- SettlementProofs
      |            |
      |-- ItemLists --- Inbound, Production
                   |
               Inventory ---- MCInventory               (Settlement + Inbound + Production)
                        \---- InventoryProofs

    TaxEngine --- Periods --- Declaration --- TaxYear --- MCTaxYear
      |                                          \------- TaxYearProofs
      |---------- Onboarding (with Calendar) --- TaxRules --- MCTaxRules
      |                                              \------- TaxRulesProofs
      \---------- Books --- MCBooks
                      \--- BooksProofs

The upper group is about documents, stock and payments, the lower one about
taxes. They meet in the statuses of a document: to a period or a book an invoice
is its status, its date and its amount, and the lower modules change those by the
same handlers.

| Module | Code | State |
|---|---|---|
| `Schema` | the tables of `prisma/schema.prisma`, `bulkCancelByInvoice`, `onDelete: SetNull` | `invoices`, `bills`, `vouchers`, `stock`, `revenue`; `pc` and `doc`, where each request is and which document it works on; `served` |
| `Invoicing` | `src/invoices/invoices.service.ts`: all writing handlers | `seen`: the row a request read |
| `SalesLedger` | nothing: the specification Invoicing implements | phase and content of an invoice, goods on hand, income |
| `Vouchers` | `src/vouchers/vouchers.service.ts`: create, update, cancel, remove | `task`: the voucher read, the fields sent, the amount computed |
| `Settlement` | invoices and vouchers served together | both |
| `ItemLists` | the lists of items of bills and orders | |
| `Inbound` | `src/inbound-invoices/inbound-invoices.service.ts`: all writing handlers | `load`: bill, items, flag and stock read |
| `Production` | `src/internal-production-orders/internal-production-orders.service.ts`: create, update, cancel | `orders`; `job`: details to revert and to apply, stock read |
| `Inventory` | all four served together | all |
| `TaxEngine` | `src/tax-engine/tax-engine.service.ts` | none |
| `Periods` | `src/financial-periods/*.service.ts`, the period guard, the document handlers as a period sees them | `periods`, `methods`, `papers`, `today`; `job`: what a request is at; `overridden`, `contested`: history |
| `Declaration` | `src/tax-declaration/tax-declaration.service.ts` | `drafts`, `declarations` |
| `TaxYear` | the three together, while quarters pass | all |
| `Calendar` | `calculatePeriodMetadata`: periods and deadlines of days | none |
| `Onboarding` | `src/onboarding/onboarding.service.ts`: setup, update | `configs`, `setUpAt`, `opened`, `today`, `job` |
| `TaxRules` | properties of configurations, calendar and engine together | |
| `Books` | `src/accounting-books/accounting-books.service.ts`: summaries, sync codes, pages | `rows`, `opening`, `clock`; `view`: the summary a client reads or has; `hidden`: history |
| `InvoicingProofs`, `SettlementProofs`, `InventoryProofs`, `TaxYearProofs`, `TaxRulesProofs`, `BooksProofs` | theorems about the module each is named after | |
| `TaxEngineProofs` | lemmas about the formulas of TaxEngine, for TaxRulesProofs, TaxYearProofs and BooksProofs | |
| `SumTheorems` | lemmas about `SumFunctionOnSet`, for all the modules that prove about sums | |
| `MC...` | small instances for TLC | |

The `map` of PROJECT.json gives the source lines of every definition.

### How a handler becomes actions

A handler is cut where it has read rows that it does not lock and later relies
on: other requests may commit there. `XBegin` is the part up to that point (guards
and reads), `XRead` a further one, `XCommit` the transaction that writes. All
writes of a transaction are one action. This is sound at READ COMMITTED because a
row that a transaction has updated stays locked until it ends, so that others see
none of its writes or all of them; where a transaction locks a row and *then*
reads other rows, the lock is modelled: `VoucherLocked` (a canceled voucher before
its invoice is reverted), `BillLocked` (a bill being synced), `DetailsLocked`
(detail rows deleted by an update), `UserLocked` (a production order being updated),
`ConfigLocked` (a chosen method being written). A transaction that waits for such a
lock is an action that is not enabled.

An update with no data is no statement: for `update({ where, data: {} })` Prisma only
reads the row, leaves `@updatedAt` alone and locks nothing. The code has three of
these that are meant as locks (`invoices.service.ts:708`,
`financial-period-validation.service.ts:34`, `financial-periods.service.ts:378`) and
one that is meant as a write (`internal-production-orders.service.ts:651`, when only
details are sent). The models have no lock and no write there.

An `UPDATE ... WHERE condition` is a guard on the committed row plus its effect; an
`increment` or `decrement` works on the committed value; a value the code computed
from an earlier read is taken from `seen`, `task` or `load`.

Choices a reader may ask about:

- *createInvoice* is one step: a draft touches neither stock nor revenue, and
  nobody knows its id before the answer.
- *publishInvoice*: reading the status and the details are one step (both are
  unlocked reads in a row). `Reserve` writes PENDING_ISSUED whatever the status is
  by then, as the code does, and decrements with the condition
  `currentStock >= quantity`. The commit of phase 1 is durable before the
  authority is asked: from there on a crash leaves the invoice PENDING_ISSUED.
  `RollbackCommit` adds the current details of goods *and services*, as the code
  does.
- *updateInvoice* writes after an unlocked status check, and holds no lock meanwhile.
  Two edits of the details may therefore leave both lists (`missed`: the deletion
  of the second began before the first committed its own); `UpdateHeader` writes back
  the total that was read.
- *vouchers.create* selects the users row FOR UPDATE first. Every other
  transaction in these modules that touches payments inserts an audit row, whose
  foreign key to users takes a key-share lock on the same row: the two are
  serialized, so `Collect` is one step. This is a fact about the migrations
  (`20260507060301`), not about the service code alone.
- *Failures.* `Fail`, `VoucherFail`, `BillFail` end a request at any point: a
  crash, a lost connection, a transaction timeout, or the victim PostgreSQL picks
  in a deadlock. What was committed stays. `Refuse` and its like are the
  exceptions of the code.
- *Inbound update*: an update that replaces the items deletes the detail rows it
  can see. The rows of another update that committed before the deletion began go
  too; if the deletion began earlier and waited for them, they stay (`left`).
  `edition` stands for the ids of those rows, so that a concurrent replacement is
  told apart.
- A product listed twice in a bill: each item writes the stock read once plus its
  own quantity (`Restocked`), so the last decides. An outbound invoice has one
  line per product: the code groups them before it counts.
- *Production* reads the stock of all products of an order before it writes the
  first: `RecallRead` is these reads. Creation and update select the user's row FOR
  UPDATE (lines 105 and 426). An update reads and writes with it held (`UserLocked`),
  so every transaction that inserts an audit row waits for it (`UserRowFree`), except
  the return of a refused publication, which inserts none. A creation waits for it
  too; what it does from there on is one step. A cancellation locks no row of the user
  and waits only where it inserts its audit row.
- *The period guard* comes before each handler, in a transaction of its own. Its
  update of the user has no data, so nothing is locked: the search for the period
  with the count of earlier open ones (`Guard`) and the creation of a missing one
  (`OpenPeriod`) are two steps. A request that its handler refuses at once is left out.
- *Closing* locks nothing at its beginning, for the same reason. `CloseBegin` reads
  the period, which must be open, and the configuration; `CloseCheck` writes the
  chosen method, which locks the row of the configuration from then on
  (`ConfigLocked`), and counts earlier open periods and unfinished invoices;
  `CloseCommit` takes the sums, the taxes and writes the period by its id alone,
  whatever its status is by then. A submission is read (`SubmitRead`), then runs the
  same close (`SubmitBegin`, `CloseCheck`) and inserts the declaration with it
  (`SubmitCommit`). Reopening does lock the row (line 616), but a close under way
  does not hold it before it writes.
- *Steps of a session* are single statements that matter, and so one step each.
- *A summary* is read in two steps, its sums and its sync code, in the order of
  each book's code; documents change between them.
- *updated_at* is the time of the statement, and others may commit before its own
  commit: `Times` reaches `Delay` commits back. An edit of an order may replace its
  details only, and then leaves its `updated_at` (`Edit`).
- *The rows of a book* are an `ORDER BY` with the id as the last key, so no two are
  equal. `Listed` is the list of them in which the i-th row has i rows up to and
  including itself (`UpTo`, the window of the code's running sum). TLC and the
  provers take this form; `SetToSortSeq`, which would do for TLC, has a body the
  provers cannot expand.

### What is abstracted

Names, dates, numbers of documents, customers and categories; prices and taxes of
a line (`Worth` and `Cost` give the total of a list of lines, any function will
do); the weighted average cost written beside the stock; audit rows, which no
handler reads; the fields `isSyncedToInventory: undefined` and `false` are one,
since the DTO's default is false; the cash limit of deductible payments. One user
and one year: `revenue` is one number. Ids are never used again.

In the tax modules: a document keeps its amount (what matters to a closed period
is its status and date); VOID is a document canceled or deleted. Periods are
quarters, because no code writes `vatFilingPeriod` and its default is QUARTERLY
(`Calendar` has months as well). `isSystemAutoUpgrade` is passed by no caller.
Taxes are counted in hundredths of the unit of money, where they are exact, as
the code's Decimals are. In `Books` a voucher's type, wallet and expense item do
not change, two documents may have the same time, and the conditions for showing a
virtual row are left out. `PenaltyAmount` is there for completeness and used by no
run.

`Prompt` says that clients date nothing into the future and that each quarter has
had business before the next one begins, which is what makes the guard create
every period. It is a constant: the theorems say which of them need it.

`overridden` is a history variable: the periods whose row an administrator wrote
(`PATCH /financial-periods/:id`), of which nothing else can be promised. `contested`
is one too: the periods declared while a plain close that had read them as open was
under way, and may still write its own taxes. So is `hidden`: the documents last
written since a client began to read its summary, with an `updated_at` that is not
later. No action reads any of the three; they serve to say which cases a property
leaves out, and section 3 tells what happens in those.

`Permits` says which operations each slot of `Requests` may be asked for on which
documents. It is a constant, and nothing is assumed of it but its type: it lets a
run say "one client per invoice" or "everybody may do everything", and theorems
quantify over it.

## 3. What is checked

The runs are named after their `.cfg` files.

| Run | Question | Instance | Distinct states |
|---|---|---|---|
| InvoicingSerial | Do the books balance when the writers of an invoice are serialized and anybody may cancel it, crashes included? (IInv, StockConservation, RevenueIsIssuedTotal, ContentLocked, StatusLocked, ImplementsLedger) | 3 slots, 2 invoices, 2 goods and a service, 10 requests | 28,985 |
| InvoicingPublishRaces | What is left when three slots publish and cancel one invoice at once? (StockNonNegative, GoodsNotInvented, RevenueNotUnderstated) | 3 slots, 1 invoice, stock for one sale of each basket, 9 requests | 34,364 |
| InvoicingLiveness | Does a sent invoice always get an answer? (PublicationEnds) | 2 slots that do anything, 1 invoice, 6 requests, no deaths | 10,104 |
| SettlementPayments | Does `paidAmount` follow the vouchers while they are written, edited, revoked, removed, and their invoice published, edited, canceled, deleted? (PaidIsReceived, NoVoucherOnCanceled, LinkedVoucherLocked) | 2 slots, 1 invoice worth 3, 2 vouchers of 1 or 2, 6 requests | 859,618 |
| SettlementLinks | What is left when vouchers are linked by update as well? (NotOverCollected, FlagIsRight) | as above, 5 requests | 653,317 |
| InventoryOneKeeper | Does the stock equal bought and made minus sold and used when one clerk moves goods and another pays? (StockBalance, PaidIsReceived) | 2 slots, 1 invoice, 2 bills, 1 voucher, 1 production order, 6 requests | 372,572 |
| InventoryKeepers | Two clerks buy, make and sell at once: is the shelf ever below zero, and does a canceled order stay as it is? (InventoryTypeOK, StockNonNegative, CanceledOrderFinal) | 2 slots, 1 invoice, 1 bill, 1 order, 6 requests | 2,189,860 |
| TaxRules | Two requests set up and change tax configurations over a year; what do all configurations they reach owe? (ConfigsChain, SpacedByCooldown, CalendarFits, TaxIsMonotone, NoCliff) | 2 slots, 4 categories, 5 days of 2026 around its quarters' ends, 3 configurations | 63,419 |
| TaxYearSerial | One user sells, spends, edits, closes, reopens and declares, request by request: are the books in order and the taxes right? (TaxYearTypeOK, ClosedIsPrefix, NothingPending, YearToDate, YearTaxAddsUp, NoLateRevenue, SubmittedIsTrue) | 1 slot, 2 quarters of a year, 2 sales, 1 expense, 2 methods | 4,830,796 |
| TaxYearRaces | What is left when two accountants, one of them an administrator, race? (DeclaredAsClosed, PaidIsFiled, YearToDate, DeclarationFinal) | 2 slots, 2 quarters of two years, 1 sale | 1,229,694 |
| Books | Is a summary that is not flagged true, short of changes with no later `updated_at`, and do balances and taxes add up over ranges and pages? (CodeVouches, BalancesCarryOver, PagesCarryOver, RangeTaxesAddUp) | 2 vouchers, 2 invoices, a bill and an order, 2 days, 3 commits, statements up to one commit late, pages of one row | 3,382,507 |

One run must find a counterexample, against a sentence of the repository:

| Run | What TLC finds |
|---|---|
| TaxYearReadOnly | `src/financial-periods/README.md:23` calls a closed period read-only. The guard checks the period of the date in the request or of the clock, not the one the document is in: a payment of a closed quarter is amended, or its invoice canceled, in the next quarter, and the sums of the closed one change (ClosedIsReadOnly) |

Every property of a passing run has a mutant, an operator `of`/`as` pair in
PROJECT.json: the same run with the definition replaced by a plausible mistake of
the code finds the property violated.

### Bounds and why they are enough

- `MaxRequests` bounds the requests served in a behaviour; everything else is
  finite by itself. The value of each run lets an invoice be created, published,
  refused, published again and canceled with the others in flight, or a voucher
  be written, edited, revoked and removed around the life of its invoice.
- Two slots are enough for every race of two requests; the publication races use
  three because a stale answer, a second publication and a cancellation make
  three. One invoice suffices where requests fight over a row, two where they
  fight over stock.
- Stocks are chosen so that both sides of every stock test occur: two invoices
  that cannot both be served (Serial), room for the first sale twice or not,
  depending on the basket (PublishRaces), one unit on hand and bills of one or two (Inventory).
- Worth 3 and amounts 1 and 2 make part payments, exact payment, and
  over-payment possible.
- The days of `TaxRules` lie 90 days apart or one less, so that the cooldown is
  met or just missed, and on either side of the end of a quarter; its sums lie on
  and around the threshold. Three configurations make two changes.
- `Picks` are the methods clients choose when they close or submit: by percentage and
  by profit in Serial, the one that is not the group's default in Races, so that
  two closers of a period charge it differently.
- Two quarters are enough for what relates a period to the one before it; one
  year (Serial) and the turn of a year (Races). Amounts and the threshold are such
  that the first sale already exceeds the exempt revenue and the second comes after it.
  Documents of a quarter may be dated after midnight of its last day in Races.
- Three commits let a document be written, changed and removed, or one replace
  another; `Delay = 1` lets a statement be older than a commit before its own, and so
  than a summary taken in between. `Books` and `TaxRules` do not check deadlock:
  commits, and the days of the clock, come to an end.
- The server waits when all slots are idle (`Waiting`), so deadlock checking is
  on: TLC reports a request that is neither able to go on, nor to be refused,
  nor to fail.

### Fairness

`FairSpec` asks weak fairness of `Continue(r)` for every slot: an `await` of a
promise that settles is resumed by the runtime, and a statement is answered by
the database. Nothing is assumed about clients or about which answer the
authority gives. That it answers at all holds of the code as it is, whose mock
sleeps 1.5 seconds and then grants or refuses; a real client of the authority will
need a timeout of its own, for the handler has none. Death of a request is excluded by
`MayFail = FALSE`: with it, PublicationEnds is false, since nothing recovers an
invoice whose request died.

### Known deviations, not kept as runs

Each is a short counterexample; start from the cfg named and change what is said.

Invoices, payments and stock:

- *Published twice.* Two publications of one draft both take its goods off the
  shelf: InvoicingSerial.cfg with `Permits <- RacingPermits`, `StockConservation`.
- *Edited while sent.* An edit begun on a draft rewrites the invoice after it was
  sent: the same, `ContentLocked`.
- *Edited twice.* Two edits of the details of a draft may leave both lists, with the
  total of one (`UpdateDetails`): InvoicingSerial.cfg with
  `Permits <- RacingPermits`, where TLC stops as it evaluates `TotalsMatch`,
  since the lines are none of the `Baskets` that have a worth.
- *A canceled invoice comes back.* Two publications, one issued and canceled, the
  other's answer arrives late (line 222 only logs): MCInvoicing, `PublishRacePermits`,
  property `CanceledIsFinal`.
- *Services gain stock.* A refused publication adds their units, which phase 1
  never took. The properties speak of `Goods` only for this reason.
- *Linked twice.* Sending a linked voucher its own link again counts its amount
  again, in one client's requests one after the other: SettlementPayments.cfg with
  `Permits <- LinkPermits`, `PaidIsReceived`.
- *A link is lost.* Two updates that link two vouchers to one invoice both write
  the sum they computed: SettlementLinks.cfg with `PaidCoversReceived`.
- *Linked to a canceled invoice.* The write of `resolveVoucherType` tests `isPaid`
  only: SettlementLinks.cfg with `NoVoucherOnCanceled`.
- *Locked fields change.* An amend that read the voucher before it was linked:
  SettlementLinks.cfg with `LinkedVoucherLocked`.
- *Paid more than it is worth.* A draft paid in advance and edited to a smaller
  total: SettlementPayments.cfg with `Baskets <- OneOrTwoPens` and `NotOverCollected`.
- *A synced bill is unlocked.* An update that read the bill before it was synced
  writes the old flag; a cancellation that read it before leaves the goods:
  InventoryKeepers.cfg with `StockBalance`.
- *A canceled bill is synced.* An update syncs a bill that was canceled unsynced
  (line 469 of its service tests the flag only): InventoryOneKeeper.cfg with `Buying` plus
  `"restock"`, `StockBalance`.
- *A sale is lost.* A sync, a recall or a rework writes a stock it read before a
  sale committed: InventoryKeepers.cfg with `StockBalance`. Two recalls of one
  order both return its materials, and a recall that read an order before it was
  rewritten reverts the old details: the same.
- *An order that lists a product twice*, or as material and product (create, unlike
  update, accepts it), puts the wrong number on the shelf: a recipe of that kind in
  `PenRecipes`, InventoryOneKeeper.cfg.
- *Repeated products of a bill*: only the last one is added to the stock, and the
  sum is taken off when the bill is voided. Add a delivery with a repeated product
  to `PenDeliveries` in InventoryOneKeeper.cfg, `StockBalance`.
- *Two updates of the items of one bill* leave both lists (`ReviseRead`); the total
  is that of one of them.

Periods and declarations; start from TaxYearSerial.cfg or TaxYearRaces.cfg:

- *The last day.* `endDate` has no time of day: a document written after midnight
  of the last day of a quarter is in no sum and keeps no period from closing
  (`Dates <- SomeLate`; `In` says so).
- *A draft in a closed period.* The period closes between the guard and the handler
  (two slots, `NothingPending`).
- *Out of order.* One accountant reopens a quarter while another closes the next
  one: each check passes, and an open period lies before a closed one (two slots,
  `ClosedIsPrefix`; in one year `YearToDate` goes with it). The same by one client if
  a quarter is skipped and its period created later (three quarters, `Prompt = FALSE`).
- *Created out of order.* `financial-period-validation.service.ts:24` says that an
  earlier open period prevents the creation of a later one, and its line 40 that
  requests of one user are sequential from there on. The update meant to see to that
  has no data: two guards both count no open period and both create theirs.
  TaxYearRaces.cfg with `NumQuarters = 3`, `YearOf <- LongerYear`, `Dates <- NextDates`,
  `Sales = {s1, s2}`, `Permits <- DraftsAndCloses`, `Prompt = FALSE`, and
  `OpenedInOrder`.
- *Charged otherwise than declared.* A plain close that read its period as open writes
  its taxes by the period's id (line 552) over those of a submission that has closed and
  declared it meanwhile, perhaps by another method: TaxYearRaces.cfg,
  `ChargedAsDeclared` without its exception for `contested`. The property of the run,
  `DeclaredAsClosed`, is this one with the exception together with `DeclaredIsClosed`.
- *Stale submission.* Figures read before the transaction of a submission may have
  changed when it closes the period (two slots, `SubmittedIsTrue`).
- *Closed without a declaration.* `PATCH .../close` with the year's later taxes
  continuing from declarations only: the revenue of that period is in no year to
  date, while the taxes it was charged are taken off (financial-periods/README.md:31 speaks
  of all earlier periods). `YearTaxAddsUp` therefore asks that all are declared.
- A reopened period keeps the taxes it was charged until it is closed again. The
  day of a change is covered by the old and the new configuration alike (both
  comparisons are inclusive). The dashboard shows the oldest period of all as
  overdue, paid or not, and its penalty runs on (`dashboard.service.ts`, lines 69 to 77).

Books (Books.cfg):

- *A change without notice.* `accounting-books/README.md:75` and
  `docs/ACCOUNTING_BOOKS_INTEGRATION_GUIDE.md` (section 3.1) say that the client is told
  whenever the data has changed. It is not if only the details of a production order
  are replaced: `updated_at` and the sync code of the goods book stay, while its sums
  change (`CodeTellsChanges`, also with `Delay = 0`). Nor if a commit brings an
  `updated_at` from before the client's read (`CodeTellsChanges` with no order in
  `MCAbout`). `CodeVouches` leaves these documents out (`hidden`), and says that nothing
  else is missed.
- The sync code does not see what is not a document of the range: opening stocks,
  earlier days (opening balances, the year to date of the income tax), the type
  of a product, the category of an expense. `CodeVouches` is about the sums of the range.
- A summary that is read while a document moves in and out of the range may show
  sums that never were together with a code that says so no more: the property asks
  that nothing was written during the reading. The revenue book sums before it
  takes the code, so there one commit between is enough.
- Payments without an expense item are in the rows of the expense book and in none
  of its items. Pages of revenue and expenses are ordered by date alone, so that
  rows of one day may swap between pages. Goods of an invoice that waits for its
  code have left the shelf and not the book. An edit of an opening stock changes the
  book and not `currentStock`.

## 4. What is proved

All constants are arbitrary: any number of request slots, documents, products,
quarters and configurations, any `Permits`, failures on or off. The assumptions
named `...Assumption` only give the constants their types, and TLC evaluates them
in every run. What a theorem needs beyond them stands in its last column.

| Module | Theorem | Statement | Needs |
|---|---|---|---|
| InvoicingProofs | Typing | `[]TypeOK` | |
| | NoOverselling | `[]StockNonNegative` | |
| | Freshness | `[]IInv` | `Serialized` |
| | ContentStaysLocked | `ContentLocked` | `Serialized` |
| | StatusStaysLocked | `StatusLocked` | `Serialized` |
| | InvoicingImplementsLedger | `ImplementsLedger` | `Serialized` |
| | BooksBalance | `[](StockConservation /\ RevenueIsIssuedTotal)` | `Serialized` |
| | RevenueCovers | `[]RevenueNotUnderstated` | `NoEdits` |
| | NothingInvented | `[]GoodsNotInvented` | `NoEdits` |
| SettlementProofs | SettlementTyping | the types of its tables, steps and tasks (`Typed`) | |
| | CanceledHasNoVoucher | `[]NoVoucherOnCanceled` | `NoLinking` |
| | LinkedStaysLocked | `LinkedVoucherLocked` | `NoLinking` |
| | NoPaymentForgotten | `[]PaidCoversReceived` | `NoLinking` |
| | PaidMatches | `[]PaidIsReceived` | `NoLinking`, `Serialized` |
| | NeverOverCollected | `[]NotOverCollected` | `NoEdits` |
| | FlagStaysRight | `[]FlagIsRight` | `NoEdits`, `NothingFree` |
| InventoryProofs | InventoryTyping | `[]InventoryTypeOK` | |
| | ShelfNeverNegative | `[]StockNonNegative` | |
| | CanceledOrdersAreFinal | `CanceledOrderFinal` | |
| | StockBalances | `[]StockBalance` | `OneKeeper`, `NoRestock`, `ListedOnce` |
| TaxYearProofs | TaxYearTyping | `[]TaxYearTypeOK` | |
| | DeclaredStaysClosed | `[]DeclaredAsClosed` | |
| | PaidStaysFiled | `[]PaidIsFiled` | |
| | DeclarationsAreFinal | `DeclarationFinal` | |
| | NothingStaysPending | `[]NothingPending` | `Alone` |
| | ClosedRevenueNeverGrows | `NoLateRevenue` | `Alone` |
| | SubmissionsAreTrue | `SubmittedIsTrue` | `Alone` |
| | BooksCloseInOrder | `[]ClosedIsPrefix` | `Alone`, `Prompt` |
| | YearsAddUp | `[]YearToDate` | `Alone`, `Prompt` |
| | YearsAreTaxedOnce | `[]YearTaxAddsUp` | `Alone`, `Prompt` |
| TaxRulesProofs | ConfigsAlwaysChain | `[]ConfigsChain` | |
| | ConfigsKeepCooldown | `[]SpacedByCooldown` | |
| | TaxesAreMonotone | `[]TaxIsMonotone` | |
| | TaxesHaveNoCliff | `[]NoCliff` | |
| | DatesFit | `[]CalendarFits` | |
| BooksProofs | Documents | the types of documents, and of what a client has of them (`BooksTyped`) | |
| | SummariesVouched | `[]CodeVouches` | |
| | BalancesCarry | `[]BalancesCarryOver` | |
| | PagesCarry | `[]PagesCarryOver` | |
| | RangeTaxes | `[]RangeTaxesAddUp` | |

The conditions are operators of the model. No lock of the code enforces them; what
happens without one is told in the deviations above. Wherever a run checks the same
property, an `ASSUME` of its MC module makes TLC confirm that the run's clients
meet the condition (`Prompt` is a constant the cfg sets).

- `Serialized`: for each invoice, one slot at most creates, publishes, edits or
  deletes it, while all slots may cancel it (InvoicingSerial, SettlementPayments).
- `NoEdits`: no invoice is edited after it was created; otherwise everybody may do
  everything (InvoicingPublishRaces, SettlementLinks).
- `NoLinking`: no voucher is linked to an invoice by an update, only as it is created
  (SettlementPayments).
- `NothingFree`: no basket is worth nothing. The DTO of products admits a
  price of zero, and an invoice that is worth zero is created with nothing left to
  pay and yet not flagged as paid, so that `FlagIsRight` is false of it.
- `OneKeeper`: one slot moves goods, the others only collect and pay
  (InventoryOneKeeper).
- `NoRestock`: no update of a bill syncs it. An update of a canceled bill would
  (line 469 of its service tests the flag only), and unbalance the book.
- `ListedOnce`: no bill and no recipe names a good twice, since only the last listing
  reaches the shelf.
- `Alone`: one request at a time, and no administrator's update of a period
  (TaxYearSerial).
- `Prompt`: as in section 2.

**Sums.** Fifteen of the properties are about sums. The models
write a sum as `SumFunctionOnSet(f, S)`, whose definition is recursive and takes out
an element of `S` chosen by `CHOOSE`. The induction theorems of the library take a
predicate as a parameter, which the provers cannot instantiate, so
`SumTheorems` begins with induction over sets in place of predicates:
`NatInduces` (a set of numbers that contains 0 and with each number the next contains
all) and `SubsetsInduce` (a set of subsets of a finite set). From these it
builds the recursive function (`AddsExists`), which `CHOOSE` then picks, and shows that a
sum does not depend on the order in which its elements are taken
(`SumRemove`). The rest is what the proofs use: a sum of numbers
is a number, grows with its set and its terms, splits over disjoint sets, adds up
termwise, and moves by the share of one element when only that one changes
(`SumMoves`). The sums are over finite sets: `FiniteAssumption` and
`PeriodsAssumption` say that the ids of documents are finite in number, and so are
the slots.

**Invoices.** `NoOverselling` is inductive with the types alone: the only
decrement carries its condition. For the rest, the proof must show that a stale
read is nevertheless still true when it is used. That is `Fresh`: for each step a
request may be at, what the row read earlier still has in common with the row
now. It is not inductive alone; with `Permitted` (a request at work is one its
slot may be asked for), `TotalsMatch` (the stored total is that of the lines) and
the types it is `IInv`:

1. `NoInterference`: under `Serialized` and `IInv`, two slots are never at work on
   the same invoice, unless both cancel it: the statuses `Fresh` gives to a writer
   and to a cancellation exclude each other.
2. `StaysFresh`, `OthersStayFresh`: a step of one request leaves the `Fresh` of
   another one intact.
3. `StepFresh`: one case per action, its own `Fresh` and that of the others.
4. `RowSteps`: from `IInv`, what a step may do to the row of an invoice; the two
   locking theorems follow.
5. `LedgerStep`: each action is a step of `SalesLedger` or leaves its variables
   alone, with one lemma per kind of step; the refinement theorem follows.

**Stock and revenue.** `BooksBalance` is read off the refinement: the ledger's
steps move the shelf and what invoices hold by the same lines in opposite directions, and
income by what is issued (`LedgerBalances`), so the sums balance wherever
Invoicing implements the ledger. When publications race, they do not, and the two
inequalities need an invariant of their own. `RacingInv` says what a request
knows of the lines and total of its invoice, which nobody edits; with it revenue
falls only by the total of an invoice that ceases to be issued. For goods, an invoice
may have been taken off the shelf several times: `Taken(k)` says that the shelf is
the opening stock less the lines of each invoice `k[i]` times, where `k[i]` covers the
requests that may still put the goods back (`Asking`), and the cancellation that
an issued invoice may meet. `NothingInvented` has the invariant that some `k` is so.

**Vouchers.** Requests race freely here. An amend checks the locked fields of a
voucher in one step and writes in another, without a lock. Its write is safe only
because a link appears in no other way than with the voucher itself, so that the
link it saw can at most have gone since: `AtWork` says so for every request at
work. `SettleInv` joins it to `NoVoucherOnCanceled`, which is not inductive without
it: a removal or an amend could otherwise act on a voucher that does not exist
yet, or give a link to one. The lemma `StepRows` says what a step may do to a
row of a voucher, and the locking theorem is read off it.

**Payments.** `PayInv` adds what a cancellation of a voucher still knows after it
committed its mark: the amount it takes off is that of the voucher, unless the invoice
was deleted (`Relied`), and nobody else takes it off (`OneReverts`). From there each step
changes `paid` and the sum of the active vouchers alike, or cancels the invoice with all
its vouchers (`Balanced`). That leaves `paid` above the sum on canceled invoices
only, and `PaidCoversReceived` follows whoever publishes; equality on the others
holds as long as no late answer revives a canceled one, which is what `Serialized`
excludes (`Timely`). The two properties of amounts against totals do not need the
vouchers: `LinkInv` says that `paid` is within the total, and that what a request
linking a voucher computed from its read is within the total it will write to,
which stays since nobody edits.

**Production.** An update rewrites an order it found active several statements
earlier. `Undisturbed` says that the order is still active then: the update holds
the row of the user, a cancellation inserts an audit row and waits for it
(`UserRowFree`). It says too that an order about to be inserted is in no other
request's hands. `OrderInv` is this with the types of the rows.

**Shelf and stock.** Bills and orders write the stock as a value computed from an
unlocked read. The shelf stays above zero nevertheless, whatever races: an
absolute write adds to what was read, or reverts what the read was tested against, and
what was read was not negative. `ShelfInv` says this of every request at work
(`Sane`). The balance of the stock holds for one keeper, and then only because
what the keeper's request read of its document and of the stock is still so when it
writes (`CertainSale`, `CertainBill`, `CertainOrder`; together with the balance
`KeeperInv`): each step then moves the shelf by what it moves in the sums of invoices,
bills and orders. The other slots pay and collect at the same time.

**Periods and declarations.** No lock helps here, and none is needed: a declaration is
never removed, a declared period is not reopened, and every close leaves its
period closed. So a declared period stays closed, races included, unless an
administrator writes its row (`DeclaredIsClosed`), and so does a paid one (`PaidIsFiled`).
What it was charged needs more: a close of the period that is still on its way would
write other taxes. A submission on its way cannot, since it fails at the declaration
that is there; a plain close can, and `Contests` says that then either it was under
way when the period was declared (`contested`), or an administrator had opened the
period again. These, with `InCalendar` (a request is about a quarter that is there),
are `FiledInv`. That nothing is pending in a
closed period is true of requests one after the other: a draft on its way then has
its period open, and a period whose close has checked it has nothing unfinished
(`Prepared`; with `NothingPending` it is `Settled`). The order of closing needs,
besides, that each period exists once the quarter is past, which the guard
achieves if every quarter has business (`Existing`), and that what is being closed
is open and, once that was checked, the first open period (`FirstOpen`); these are
`Ordered`.

**Years.** Types come first here (`TypingInv`): figures are numbers only if those of a
draft, a request and a declaration are, and a method is one of the enum.
`SubmissionsAreTrue` rests on `Truthful`: what a request on its way to a submission
carries are the sums of its period, as long as nobody else writes. `YearInv`
joins `FiledInv`, `Ordered` and the types with the two properties. Since periods
close in order and a declared one stays closed, a submission declares a quarter
after all that are declared (`SubmitsLast`), so that the year before it is the year
of the last declaration (`LastOfYear`) and its sums grow by one term (`YearGrows`).
That quarterly taxes add up says more: what is taken off for the earlier periods is what
their declarations say (`DeductExactly`), and the cut at zero in `Deduct` never
applies, since the tax by percentage grows with revenue (`VatGrows`,
`PercentageGrows` of `TaxEngineProofs`).

**Configurations and taxes.** Two setups or updates may read the same
configuration; the conditional updates make the second one fail. `Ready` says what
a request still knows when it writes: its new configuration begins the cooldown
after the one it read, whatever day it is by then, since the start of a
configuration never changes; whether that one is still the last is the condition
of its update. `ChainInv` joins this to the two properties. The taxes of the
engine are then shown to grow with revenue and shrink with expense, and to
grow by no more than the revenue does outside group 1, at any
threshold and any rates of a catalogue, for every configuration that the handlers
can have written (`RatesInUse`), with any method of the enum, since no code compares
the one chosen at a close with the group (`FormsOf`).

**Dates.** `CalendarFits` is proved for every calendar of whole quarters and the month
after them, whatever the lengths of its months and its first weekday
(`CalendarAssumption`); the run takes that of 2026. The end of a month is a sum
over the months before it, which grows with the month (`EndsGrow`, by `NatInduces`).
So a day is in one month (`DaysHaveMonths`, `MonthIs`), a period ends in its last month
(`PeriodEnds`), and the day after begins the next period (`NextPeriod`). Of any three
days in a row one is a working day, which is where the deadline ends up
(`MovesOffWeekend`).

**Books.** The sync code of a book is the number of rows of its tables and the time of
the latest change among them, as far as the range reaches. A document may leave the
range, enter it from another day, or be deleted without a trace, and an older change may
hide behind a later one, so that equal codes say little at first sight. `ViewFits` says
when they are enough. A document is untouched if it was not written since the client
began to read (`since`): its time is not later, and it is not `hidden`. Each commit
takes its document from the untouched ones and leaves it hidden, with a time after
`since`, or in no table. So a table still has at most the untouched ones among those it
had, and those touched and not hidden show a time after `since` (`TablesOfBook`,
`WritesKept`). If counts are equal, nothing is later and the tables hold nothing hidden,
all the documents the client looked at are untouched (`AllUntouched`, `CodeKnows`), and
what it was shown is what the sums are now.
`RangesJoin` and `SumUnion` give the sums of ranges that follow each other; the taxes by
percentage then add up since the year to date of the second range begins with the
first. For rows, `FewerUpTo` and `RowsAreListed` show that a set ordered by a total order
has just one row for each rank: the number of rows up to a row takes all the values
from 1 to the size of the set and none twice. `FirstRow`, `NextRow` and `LastRow` are read
off: the first row carries in the opening balance, each row the balance of the one
before it, and the last one leaves the closing balance, in cash books ordered
by day and id as in goods books ordered by day, kind and id (`ByDateOrders`,
`ByDayAndRankOrders`). Pages are slices of that list (`PageHasItsRows`, `RowsFollow`).
The assumptions used are those of `BooksAssumption`: ids are numbered from one,
there is a configuration, and the tables of constants have their types.

Checked by TLC only:

- `PublicationEnds`, a liveness property under fairness, which the prover has no
  rules for;
- `ClosedIsReadOnly`, `OpenedInOrder` and `CodeTellsChanges`, which are false;
- that the mutants of section 3 are found.

All other properties of the runs are theorems.
What is checked in a run for more than its theorem says: `YearToDate` in TaxYearRaces,
for two accountants over two years, where the theorem speaks of one request at a
time; and `PaidIsReceived` in InventoryOneKeeper, with the payments of bills, where
the theorem is about Settlement.

## 5. Plan

Done: the modules of section 2, from the documents (Schema, Invoicing, Vouchers,
Settlement, Inbound, Production, Inventory) to the taxes (TaxEngine, Periods,
Declaration, TaxYear, Calendar, Onboarding, TaxRules) and the books (Books), with
their runs and theorems. What is left, in this order:

1. The handlers of documents joined to the period guard in one module: what a
   publication in three phases, not one of a status, does to a period that closes.
2. Creation and removal of products, and the price and cost fields they write.
3. `VoucherCodes`: numbering and categories. `ConnectionPool`: publication inside a
   transaction that needs a second connection, once a deployment says how many
   there are and how long a request waits for one.
4. Theorems that ask less of the clients where the code gives more: `YearToDate` with
   two accountants, and `PaidIsReceived` of inbound invoices.

## 6. Not modelled

- The dashboard: SQL reports that keep no state and promise nothing beyond their
  queries. The headings of the books.
- Voucher categories, and the codes of vouchers. The next code is the last row's plus one; a
  voucher that changes its type takes its code along, after which creation may
  meet a code that exists. This is a matter of strings, and listed as a hazard.
- Creation and removal of products; prices and average costs, which no property is about.
- The connection pool: `validateStockAvailability` asks for a second connection
  inside a transaction. Whether requests can starve each other depends on settings
  of the deployment.
- Authentication, tokens and users: the models have one authenticated user.
- The audit log: rows no handler reads. Its foreign key to users is accounted for
  in `Collect` and `UserRowFree`.
- Files, metadata, logging and DTO validation: pure I/O; inputs are valid ones.

Components that are modelled in part are marked `partly` in PROJECT.json, with
what is missing.
