------------------------------- MODULE Books -------------------------------
(***************************************************************************)
(* The accounting books                                                    *)
(* (src/accounting-books/accounting-books.service.ts):                     *)
(* sums and running balances over the documents of a range of days, and    *)
(* the sync code by which a client that shows a summary learns, with each  *)
(* page of records it asks for, that the summary is outdated.  Each query  *)
(* of a summary sees what is committed when it runs.                       *)
(*                                                                         *)
(* The documents change here as the other modules' handlers change them,   *)
(* one commit a step.  A commit that writes the document's row writes its  *)
(* updated_at, with the time of the statement: others may have committed   *)
(* since.  One that replaces the details of a production order and nothing *)
(* else leaves the row, and so its updated_at, as it was.                  *)
(***************************************************************************)
EXTENDS TaxEngine, Sequences, FiniteSets, FiniteSetsExt, Functions, SequencesExt

CONSTANTS
  About,      \* the documents in the order of their ids: the table, and the
              \* columns that stay as they are
  Products,   \* the products of the catalogue that are no services
  Openings,   \* the opening stocks a product may be given
  LastDay,    \* the days of the year modelled: 1 to LastDay
  Ranges,     \* ranges of days
  Asked,      \* the ranges a client asks a summary for
  Configs,    \* the tax configurations, in the order they apply
  Sizes,      \* the amount of a document, and the number of its goods
  Limit,      \* rows on a page
  Delay,      \* bound on the commits between a statement and its own commit
  MaxClock,   \* bound on the number of commits
  None

Docs == DOMAIN About
Days == 1 .. LastDay

Of(table) == {d \in Docs : About[d].table = table}
Books     == {"revenue", "cash", "expense", "goods"}
Wallets   == {"CASH", "BANK"}
Items     == {"ITEM_A", "ITEM_B", "ITEM_C", "ITEM_D", "ITEM_E", "ITEM_F"}

ASSUME BooksAssumption ==
  /\ Len(About) \in Nat /\ Docs = 1 .. Len(About)
  /\ LastDay \in Nat
  /\ Ranges \subseteq {r \in [from : Days, to : Days] : r.from <= r.to}
  /\ Asked \subseteq Ranges
  /\ Sizes \subseteq Nat
  /\ Openings \subseteq Nat /\ Openings # {}
  /\ Limit \in Nat \ {0} /\ Delay \in Nat
  /\ \A d \in Docs : About[d].table \in {"invoice", "voucher", "bill", "order"}
  /\ \A d \in Of("voucher") : /\ About[d].type \in {"RECEIPT", "PAYMENT"}
                              /\ About[d].wallet \in Wallets
                              /\ About[d].item \in Items \cup {"NONE"}
                              /\ About[d].deductible \in BOOLEAN
  /\ \A d \in Docs \ Of("voucher") : About[d].moves \in [Products -> Int]
  /\ Len(Configs) \in Nat \ {0} /\ DOMAIN Configs = 1 .. Len(Configs)
  /\ \A c \in DOMAIN Configs :
       Configs[c] \in [from : Days, to : Days, group : Groups, vatRate : Nat, pitRate : Nat,
                      method : Methods]

VARIABLES
  rows,     \* the documents
  opening,  \* products.opening_stock_quantity
  clock,    \* the number of commits
  view,     \* the summary a client reads, or has
  hidden    \* history: the documents last written since the client began to
            \* read, with an updated_at that is not later

booksVars == <<rows, opening, clock, view, hidden>>

(* COUNTS is ISSUED, ACTIVE or, for a bill, ACTIVE and synced; DRAFT what  *)
(* may become so.                                                          *)
States == {"ABSENT", "DRAFT", "COUNTS", "CANCELED"}
Absent == [state |-> "ABSENT", day |-> 0, size |-> 0, stamp |-> 0]

NoView == [book |-> None, range |-> None, code |-> None, totals |-> None,
           since |-> 0, until |-> 0]

-----------------------------------------------------------------------------
(* Plausible mistakes, each caught by a property of the run: a code of the *)
(* count alone; an opening balance that stops a day early; the balance     *)
(* carried over is that of the first row; taxes on the range alone.        *)
CountOnly(S)      == [count |-> Cardinality(S), latest |-> 0]
DayBefore(r)      == {d \in Docs : rows[d].state = "COUNTS" /\ rows[d].day < r.from - 1}
CarriedRow(first) == first.balance
NothingBefore(r)  == {}

-----------------------------------------------------------------------------
Within(r) == {d \in Docs : rows[d].state # "ABSENT" /\ rows[d].day \in r.from .. r.to}
Counted(r) == {d \in Within(r) : rows[d].state = "COUNTS"}
Before(r)  == {d \in Docs : rows[d].state = "COUNTS" /\ rows[d].day < r.from}

Sum(S) == SumFunctionOnSet([d \in Docs |-> rows[d].size], S)

(* The sync codes: how many rows a book looks at, and the latest change of *)
(* one, table by table.                                                    *)
Fingerprint(S) == [count |-> Cardinality(S), latest |-> Max({0} \cup {rows[d].stamp : d \in S})]

Expenses == {d \in Of("voucher") : About[d].type = "PAYMENT" /\ About[d].deductible}

LookedAt(book, r) ==
  CASE book = "revenue" -> <<Within(r) \cap Of("invoice"), Within(r) \cap Of("voucher")>>
    [] book = "cash"    -> <<Within(r) \cap Of("voucher")>>
    [] book = "expense" -> <<Counted(r) \cap Expenses>>
    [] book = "goods"   -> <<Counted(r) \cap Of("bill"), Counted(r) \cap Of("invoice"),
                             Counted(r) \cap Of("order")>>

SyncCode(book, r) ==
  LET tables == LookedAt(book, r) IN [i \in DOMAIN tables |-> Fingerprint(tables[i])]

(* isSummaryOutdated of a page of records, for the code the client sends.  *)
Outdated(book, r, code) ==
  IF book = "cash" THEN code # None /\ code # SyncCode(book, r)
  ELSE code = None \/ code # SyncCode(book, r)

-----------------------------------------------------------------------------
(* The revenue book, and the taxes it shows by the latest configuration    *)
(* that meets the range or else the latest one.                            *)
ValidTaxConfig(r) ==
  LET meeting == {c \in DOMAIN Configs : Configs[c].from <= r.to /\ Configs[c].to >= r.from} IN
  Configs[Max(IF meeting = {} THEN DOMAIN Configs ELSE meeting)]

RevenueBook(S) ==
  [revenue |-> Sum(S \cap Of("invoice")), orders |-> Cardinality(S \cap Of("invoice"))]

VatShown(r) == Sum(Counted(r) \cap Of("invoice")) * ValidTaxConfig(r).vatRate

(* calculateS2a: the income tax of the year up to the end of the range     *)
(* less that of the year before the range.                                 *)
PitOn(S, config) ==
  LET revenue == Sum(S \cap Of("invoice"))
      expense == Sum(S \cap Expenses)
  IN  TotalTaxDue(revenue, expense, config) - VatAmount(revenue, config)

YearBefore(r) == Before(r)

PitShown(r, config) ==
  AtLeastZero(PitOn(YearBefore(r) \cup Counted(r), config) - PitOn(YearBefore(r), config))

-----------------------------------------------------------------------------
(* The cash books, one for each wallet. *)
Signed(d) == IF About[d].type = "RECEIPT" THEN rows[d].size ELSE -rows[d].size

Paid(type, S) == Sum({d \in S : About[d].type = type})

InWallet(w, S) == {d \in S \cap Of("voucher") : About[d].wallet = w}

CashOpening(w, r) ==
  Paid("RECEIPT", InWallet(w, Before(r))) - Paid("PAYMENT", InWallet(w, Before(r)))

CashTotals(w, S) == [receipts |-> Paid("RECEIPT", InWallet(w, S)),
                     payments |-> Paid("PAYMENT", InWallet(w, S))]

CashClosing(w, r) ==
  LET totals == CashTotals(w, Counted(r)) IN
  CashOpening(w, r) + totals.receipts - totals.payments

(* The documents of S in an order, which says what is not after a document:*)
(* the i-th is the one with i of S up to it.                               *)
UpTo(d, S, order) == S \cap order[d]
Listed(S, order)  ==
  [i \in 1 .. Cardinality(S) |-> CHOOSE d \in S : Cardinality(UpTo(d, S, order)) = i]

(* The rows in the order of their dates and ids, each with its balance.    *)
ByDate ==
  [d \in Docs |-> {e \in Docs : \/ rows[e].day < rows[d].day
                                \/ rows[e].day = rows[d].day /\ e <= d}]

CashBalance(w, r, d) ==
  CashOpening(w, r) + SumFunctionOnSet([e \in Of("voucher") |-> Signed(e)],
                                       UpTo(d, InWallet(w, Counted(r)), ByDate))

CashRows(w, r) ==
  LET listed == Listed(InWallet(w, Counted(r)), ByDate) IN
  [i \in DOMAIN listed |-> [doc |-> listed[i], balance |-> CashBalance(w, r, listed[i])]]

-----------------------------------------------------------------------------
(* The expense book, by the item its category maps a payment to. *)
ExpenseBook(S) == [i \in Items |-> Sum({d \in S \cap Expenses : About[d].item = i})]

-----------------------------------------------------------------------------
(* The book of goods: what bills bring and orders produce comes in, what   *)
(* orders use and invoices sell goes out.                                  *)
Move(d, p) == About[d].moves[p] * rows[d].size
Moving(p, S) == {d \in S \ Of("voucher") : About[d].moves[p] # 0}

NetMove(p, S) == SumFunctionOnSet([d \in Moving(p, Docs) |-> Move(d, p)], Moving(p, S))

GoodsOpening(p, r) == opening[p] + NetMove(p, Before(r))

GoodsTotals(p, S) ==
  [received |-> NetMove(p, {d \in Moving(p, S) : About[d].moves[p] > 0}),
   issued   |-> -NetMove(p, {d \in Moving(p, S) : About[d].moves[p] < 0})]

GoodsClosing(p, r) ==
  LET totals == GoodsTotals(p, Counted(r)) IN
  GoodsOpening(p, r) + totals.received - totals.issued

(* The rows of a day: bills, goods produced, goods used, invoices. *)
Rank(d, p) ==
  CASE About[d].table = "bill"    -> 1
    [] About[d].table = "order"   -> IF About[d].moves[p] > 0 THEN 2 ELSE 3
    [] About[d].table = "invoice" -> 4

ByDayAndRank(p) ==
  [d \in Docs \ Of("voucher") |->
     {e \in Docs \ Of("voucher") :
        \/ rows[e].day < rows[d].day
        \/ rows[e].day = rows[d].day /\ Rank(e, p) < Rank(d, p)
        \/ rows[e].day = rows[d].day /\ Rank(e, p) = Rank(d, p) /\ e <= d}]

GoodsRow(p, r, d) ==
  [doc |-> d, move |-> Move(d, p),
   balance |-> GoodsOpening(p, r)
               + NetMove(p, UpTo(d, Moving(p, Counted(r)), ByDayAndRank(p)))]

GoodsRows(p, r) ==
  LET listed == Listed(Moving(p, Counted(r)), ByDayAndRank(p)) IN
  [i \in DOMAIN listed |-> GoodsRow(p, r, listed[i])]

Page(all, n) ==
  SubSeq(all, (n - 1) * Limit + 1,
         IF n * Limit < Len(all) THEN n * Limit ELSE Len(all))

(* getVirtualRowBalance: what the first line of a page says was carried    *)
(* over, from the page's own first row or else from the totals.            *)
CarriedInto(first) == first.balance - first.move

CarriedOver(p, r, n, page) ==
  IF page # <<>> THEN CarriedInto(page[1])
  ELSE GoodsOpening(p, r) + IF n = 1 THEN 0 ELSE NetMove(p, Counted(r))

-----------------------------------------------------------------------------
(* The documents' commits.  A voucher and an order count from the start;   *)
(* an invoice does once it is issued, a bill once it is synced.            *)
Write(d, row) ==
  /\ clock < MaxClock
  /\ clock' = clock + 1
  /\ rows' = [rows EXCEPT ![d] = row]
  /\ hidden' = IF row.state # "ABSENT" /\ row.stamp <= view.since
               THEN hidden \cup {d} ELSE hidden \ {d}
  /\ UNCHANGED <<opening, view>>

(* The times a statement that commits now may have been made at.           *)
Times == {t \in 1 .. clock + 1 : clock < t + Delay}

Save(d, row) == \E t \in Times : Write(d, [row EXCEPT !.stamp = t])

FirstStates(d) ==
  CASE About[d].table = "invoice" -> {"DRAFT"}
    [] About[d].table = "bill"    -> {"DRAFT", "COUNTS"}
    [] OTHER                      -> {"COUNTS"}

Record(d) ==
  /\ rows[d].state = "ABSENT"
  /\ \E state \in FirstStates(d), day \in Days, size \in Sizes :
       Save(d, [state |-> state, day |-> day, size |-> size, stamp |-> 0])

(* An edit: of a draft or, for vouchers and orders, of what counts.  The   *)
(* details of an order are rows of their own.                              *)
Editable(d) ==
  \/ rows[d].state = "DRAFT"
  \/ rows[d].state = "COUNTS" /\ About[d].table \in {"voucher", "order"}

Edit(d) ==
  /\ Editable(d)
  /\ \/ \E day \in Days, size \in Sizes :
          Save(d, [rows[d] EXCEPT !.day = day, !.size = size])
     \/ /\ About[d].table = "order"
        /\ \E size \in Sizes : Write(d, [rows[d] EXCEPT !.size = size])

Finish(d) == rows[d].state = "DRAFT" /\ Save(d, [rows[d] EXCEPT !.state = "COUNTS"])

Cancel(d) == rows[d].state = "COUNTS" /\ Save(d, [rows[d] EXCEPT !.state = "CANCELED"])

(* A delete leaves no row: of a draft, or of any voucher. *)
Delete(d) ==
  /\ \/ rows[d].state = "DRAFT"
     \/ rows[d].state # "ABSENT" /\ About[d].table = "voucher"
  /\ Write(d, Absent)

(* update of products: the opening stock, which changes no document. *)
EditOpening(p) ==
  /\ clock < MaxClock
  /\ clock' = clock + 1
  /\ \E quantity \in Openings : opening' = [opening EXCEPT ![p] = quantity]
  /\ UNCHANGED <<rows, view, hidden>>

-----------------------------------------------------------------------------
(* A client reads a summary: the cash book's code before its sums, the     *)
(* revenue book's after them, and the others' in either order.             *)
Totals(book, S) ==
  CASE book = "revenue" -> RevenueBook(S)
    [] book = "cash"    -> [w \in Wallets |-> CashTotals(w, S)]
    [] book = "expense" -> ExpenseBook(S)
    [] book = "goods"   -> [p \in Products |-> GoodsTotals(p, S)]

TotalsNow(book, r) == Totals(book, Counted(r))

CodeFirst(book, r) ==
  /\ view = NoView /\ book # "revenue"
  /\ view' = [NoView EXCEPT !.book = book, !.range = r, !.since = clock,
                            !.code = SyncCode(book, r)]
  /\ hidden' = {}
  /\ UNCHANGED <<rows, opening, clock>>

TotalsFirst(book, r) ==
  /\ view = NoView /\ book # "cash"
  /\ view' = [NoView EXCEPT !.book = book, !.range = r, !.since = clock,
                            !.totals = TotalsNow(book, r)]
  /\ hidden' = {}
  /\ UNCHANGED <<rows, opening, clock>>

Answered == view.code # None /\ view.totals # None

Answer ==
  /\ view # NoView /\ ~Answered
  /\ view' = [view EXCEPT
       !.code   = IF @ = None THEN SyncCode(view.book, view.range) ELSE @,
       !.totals = IF @ = None THEN TotalsNow(view.book, view.range) ELSE @,
       !.until  = clock]
  /\ UNCHANGED <<rows, opening, clock, hidden>>

BooksInit ==
  /\ rows = [d \in Docs |-> Absent]
  /\ opening = [p \in Products |-> Min(Openings)]
  /\ clock = 0
  /\ view = NoView
  /\ hidden = {}

BooksNext ==
  \/ \E d \in Docs : Record(d) \/ Edit(d) \/ Finish(d) \/ Cancel(d) \/ Delete(d)
  \/ \E p \in Products : EditOpening(p)
  \/ \E book \in Books, r \in Asked : CodeFirst(book, r) \/ TotalsFirst(book, r)
  \/ Answer

BooksSpec == BooksInit /\ [][BooksNext]_booksVars

-----------------------------------------------------------------------------
(* What a client is not told of: its summary was read while nothing was    *)
(* written, and the code of now is the one it sends.                       *)
NotTold ==
  Answered /\ view.since = view.until /\ ~Outdated(view.book, view.range, view.code)

(* "If the data has changed, the backend sets isSummaryOutdated": a client *)
(* is told as soon as what happened in the range no longer adds up to what *)
(* it shows.  Not so: an order whose details are replaced keeps its        *)
(* updated_at, and a commit may bring an updated_at from before the read.  *)
CodeTellsChanges == NotTold => view.totals = TotalsNow(view.book, view.range)

(* These are all it misses: a client is told, whatever was edited, moved to*)
(* other days, canceled or deleted in between, unless one of the documents *)
(* its book now looks at was last written with no later updated_at.        *)
InBook(book, r) == UNION Range(LookedAt(book, r))

CodeVouches ==
  NotTold /\ hidden \cap InBook(view.book, view.range) = {}
    => view.totals = TotalsNow(view.book, view.range)

Follows(r, s) == s.from = r.to + 1

(* What the books show is the same for every reader, so the properties of  *)
(* sums and balances look at the states in which nobody reads.             *)
Unread == view = NoView

(* A range opens with what the one before it closed with, in money and in  *)
(* goods, and the last row of a range has the balance it closes with.      *)
BalancesCarryOver ==
  Unread => \A r \in Ranges :
    /\ \A w \in Wallets :
         /\ \A s \in Ranges : Follows(r, s) => CashOpening(w, s) = CashClosing(w, r)
         /\ LET listed == CashRows(w, r) IN
            listed # <<>> => Last(listed).balance = CashClosing(w, r)
    /\ \A p \in Products :
         /\ \A s \in Ranges : Follows(r, s) => GoodsOpening(p, s) = GoodsClosing(p, r)
         /\ LET listed == GoodsRows(p, r) IN
            listed # <<>> => Last(listed).balance = GoodsClosing(p, r)

(* A page of the book of goods begins with what the page before it ended   *)
(* with, the first one with the opening balance, also when it is empty.    *)
PagesCarryOver ==
  Unread => \A p \in Products, r \in Ranges :
    LET all == GoodsRows(p, r) IN
    /\ CarriedOver(p, r, 1, Page(all, 1)) = GoodsOpening(p, r)
    /\ \A n \in 2 .. Len(all) + 1 :
         Page(all, n - 1) # <<>> =>
           CarriedOver(p, r, n, Page(all, n)) = Last(Page(all, n - 1)).balance

(* "Tax in the period = tax to its end - tax before it": the taxes shown   *)
(* for consecutive ranges of a year add up to the tax on all of it, by     *)
(* percentage exactly; by profit they do not fall short of it, and exceed  *)
(* it only by tax on a profit that later expenses have eaten up.           *)
RangeTaxesAddUp ==
  Unread => \A r, s \in Ranges :
    LET all    == [from |-> r.from, to |-> s.to]
        config == ValidTaxConfig(all)
    IN  r.from = 1 /\ Follows(r, s) /\ ValidTaxConfig(r) = config /\ ValidTaxConfig(s) = config
        => /\ VatShown(r) + VatShown(s) = VatShown(all)
           /\ \A method \in AllowedMethods[config.group] :
                LET by     == [config EXCEPT !.method = method]
                    first  == PitOn(Counted(r), by)
                    whole  == PitOn(Counted(all), by)
                IN  /\ PitShown(r, by) + PitShown(s, by) = Max({first, whole})
                    /\ method = "PERCENTAGE" => first <= whole
=============================================================================
