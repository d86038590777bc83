------------------------------ MODULE Periods ------------------------------
(***************************************************************************)
(* The tax periods of a user                                               *)
(* (src/financial-periods/financial-periods.service.ts), the guard that    *)
(* lets a request change documents only while a period is open             *)
(* (src/common/guards/period-lock.guard.ts), and the documents a period    *)
(* sums: outbound invoices and deductible payments.  Periods are quarters: *)
(* no code writes another filing period than the default.                  *)
(*                                                                         *)
(* A document keeps its amount here: editing one matters to a period by    *)
(* its status and its date.  The guard and the handler behind it are two   *)
(* transactions, so anything may happen between them.                      *)
(***************************************************************************)
EXTENDS TaxEngine, FiniteSets, FiniteSetsExt, Functions

CONSTANTS
  Requests,     \* slots for requests in flight
  NumQuarters,  \* the quarters from the user's setup on
  YearOf,       \* the year of a quarter
  Configs,      \* table tax_configurations: group and rates; methods change
  ConfigOf,     \* the configuration in force at the end of a quarter
  Sales,        \* outbound invoices
  Outlays,      \* payment vouchers that are deductible expenses
  Amount,       \* what a document adds to a sum
  Dates,        \* the dates documents may have: a quarter, and whether it is
                \* a time after midnight of the quarter's last day
  Permits,      \* the operations each slot is asked for
  Claims,       \* figures a client may send along when closing a period
  Picks,        \* methods a client may send along: any of the enum
  Prompt,       \* whether nobody dates a document into the future and every
                \* quarter has had business before the next one begins
  None

Quarters == 1 .. NumQuarters
Papers   == Sales \cup Outlays
Figures  == [revenue : Nat, expense : Nat]

ASSUME PeriodsAssumption ==
  /\ NumQuarters \in Nat \ {0}
  /\ YearOf \in [Quarters -> Nat]
  /\ \A q \in Quarters : ConfigOf[q] \in DOMAIN Configs
  /\ \A c \in DOMAIN Configs : /\ Configs[c].group \in Groups
                               /\ Configs[c].vatRate \in Nat
                               /\ Configs[c].pitRate \in Nat
  /\ IsFiniteSet(Papers) /\ Amount \in [Papers -> Nat]
  /\ Dates \subseteq [quarter : Quarters, late : BOOLEAN]
  /\ Claims \subseteq Figures /\ Picks \subseteq Methods
  /\ Prompt \in BOOLEAN
  /\ None \notin Figures /\ None \notin Methods

VARIABLES
  periods,       \* table financial_periods
  methods,       \* tax_configurations.chosen_pit_method
  papers,        \* the documents
  declarations,  \* table tax_declarations
  drafts,        \* table tax_declaration_drafts
  today,         \* the quarter the clock shows
  job,           \* what each request is at, and what it read
  overridden,    \* history: the periods whose row an administrator wrote
  contested      \* history: the periods declared while a plain close of them,
                 \* which had read that they are open, was still under way

taxVars ==
  <<periods, methods, papers, declarations, drafts, today, job, overridden, contested>>

PeriodRow == [status : {"ABSENT", "OPEN", "CLOSED"}, vat : Nat, pit : Nat, tax : Nat,
              paid : BOOLEAN]
NoPeriod  == [status |-> "ABSENT", vat |-> 0, pit |-> 0, tax |-> 0, paid |-> FALSE]
NewPeriod == [NoPeriod EXCEPT !.status = "OPEN"]

(* VOID is a document canceled or deleted, which is the same to a period.  *)
PaperStatus == {"ABSENT", "DRAFT", "PENDING_ISSUED", "SYNC_FAILED", "ISSUED", "ACTIVE", "VOID"}
NoPaper     == [status |-> "ABSENT", date |-> None]

NoJob  == [op |-> "idle"]
Done(r) == job' = [job EXCEPT ![r] = NoJob]

MayAsk(r, op) == job[r] = NoJob /\ op \in Permits[r]

-----------------------------------------------------------------------------
(* What a period sums: calculateRealtimeTaxData compares dates with        *)
(* midnight of the last day, so a time on that day is in no sum.           *)
In(p, q) ==
  papers[p].date # None /\ papers[p].date.quarter = q /\ ~papers[p].date.late

Revenue(q) ==
  SumFunctionOnSet(Amount, {p \in Sales : papers[p].status = "ISSUED" /\ In(p, q)})
Expense(q) ==
  SumFunctionOnSet(Amount, {p \in Outlays : papers[p].status = "ACTIVE" /\ In(p, q)})
RealtimeTaxData(q) == [revenue |-> Revenue(q), expense |-> Expense(q)]

Unfinished(q) ==
  {p \in Sales : papers[p].status \in {"DRAFT", "PENDING_ISSUED", "SYNC_FAILED"} /\ In(p, q)}

Opened(q) == periods[q].status = "OPEN"
Closed(q) == periods[q].status = "CLOSED"
Declared(q) == declarations[q] # None

-----------------------------------------------------------------------------
(* Plausible mistakes, each caught by a property of a run: the guard looks *)
(* at the clock only; drafts do not keep a period open; a period is closed *)
(* though it is closed, or reopened before a closed one; the year to date  *)
(* runs over the new year, or is that of the period alone; earlier taxes   *)
(* are not deducted, or deducted below zero; taxes are paid for a period   *)
(* that is not declared.                                                   *)
TodayOnly(date)              == today
FinalizedAlways(q)           == TRUE
ClosableAgain(q)             == periods[q].status # "ABSENT"
ReopenableUndeclared(q)      == ~Declared(q)
EarlierClosedEver(q)         == {e \in 1 .. q - 1 : Closed(e)}
RevenueAlone(q, revenue)     == revenue
DeductNothing(charged, owed) == owed
DeductBelow(charged, owed)   == owed - charged
PayableClosed(q)             == Closed(q)

-----------------------------------------------------------------------------
(* PeriodLockGuard: the date in the request's body or else the clock says  *)
(* which period must be open.  One that is missing is created, unless an   *)
(* earlier one is open.  The update of the user with which the guard       *)
(* begins has no fields and locks nothing.                                 *)
CheckedQuarter(date) == IF date = None THEN today ELSE date.quarter

Creations == {"draft", "spend"}
PaperOps  == Creations \cup {"send", "cancel", "drop", "amend", "revoke"}

(* A creation sends its date, an amended payment may, the others do not.   *)
PossibleDates(op) ==
  LET known == {d \in Dates : Prompt => d.quarter <= today} IN
  CASE op \in Creations -> known
    [] op = "amend"     -> known \cup {None}
    [] OTHER            -> {None}

(* What each handler requires of its document, before and after the guard. *)
Required(op, p) ==
  CASE op = "draft"  -> p \in Sales /\ papers[p].status = "ABSENT"
    [] op = "spend"  -> p \in Outlays /\ papers[p].status = "ABSENT"
    [] op = "cancel" -> papers[p].status = "ISSUED"
    [] op \in {"send", "drop"}    -> papers[p].status \in {"DRAFT", "SYNC_FAILED"}
    [] op \in {"amend", "revoke"} -> papers[p].status = "ACTIVE"

Asked(op, p, date) == [op |-> op, paper |-> p, date |-> date]

ToOpen(op, p, date) ==
  [op |-> "opening", wanted |-> op, paper |-> p, date |-> date, quarter |-> CheckedQuarter(date)]

(* The period is looked up and, if there is none, the earlier ones are     *)
(* counted.  A request its handler would refuse at once is left out: its   *)
(* guard opens at most a period that other requests open as well.          *)
Guard(r, op, p) ==
  /\ MayAsk(r, op) /\ Required(op, p)
  /\ \E date \in PossibleDates(op) :
       LET q == CheckedQuarter(date) IN
       \/ Opened(q) /\ job' = [job EXCEPT ![r] = Asked(op, p, date)]
       \/ /\ periods[q].status = "ABSENT"
          /\ ~\E e \in 1 .. q - 1 : Opened(e)
          /\ job' = [job EXCEPT ![r] = ToOpen(op, p, date)]
  /\ UNCHANGED <<periods, methods, papers, declarations, drafts, today, overridden, contested>>

(* ensurePeriodExists: the period is looked up again, and created if there *)
(* is still none.                                                          *)
OpenPeriod(r) ==
  /\ job[r].op = "opening"
  /\ \/ Opened(job[r].quarter) /\ UNCHANGED periods
     \/ /\ periods[job[r].quarter].status = "ABSENT"
        /\ periods' = [periods EXCEPT ![job[r].quarter] = NewPeriod]
  /\ job' = [job EXCEPT ![r] = Asked(@.wanted, @.paper, @.date)]
  /\ UNCHANGED <<methods, papers, declarations, drafts, today, overridden, contested>>

SetPaper(r, status, date) ==
  /\ papers' = [papers EXCEPT ![job[r].paper] = [status |-> status, date |-> date]]
  /\ Done(r)
  /\ UNCHANGED <<periods, methods, declarations, drafts, today, overridden, contested>>

Row(r) == papers[job[r].paper]
Handles(r, op) == job[r].op = op /\ Required(op, job[r].paper)

(* The handlers: createInvoice, canceledInvoice, delete of invoices ...    *)
DraftInvoice(r)  == Handles(r, "draft")  /\ SetPaper(r, "DRAFT", job[r].date)
CancelInvoice(r) == Handles(r, "cancel") /\ SetPaper(r, "VOID", None)
DropInvoice(r)   == Handles(r, "drop")   /\ SetPaper(r, "VOID", None)

(* ... publishInvoice, which waits for the tax authority ...               *)
SendInvoice(r) ==
  /\ Handles(r, "send")
  /\ papers' = [papers EXCEPT ![job[r].paper].status = "PENDING_ISSUED"]
  /\ job' = [job EXCEPT ![r].op = "sent"]
  /\ UNCHANGED <<periods, methods, declarations, drafts, today, overridden, contested>>

AnswerInvoice(r) ==
  /\ job[r].op = "sent" /\ Row(r).status = "PENDING_ISSUED"
  /\ \E status \in {"ISSUED", "SYNC_FAILED"} : SetPaper(r, status, Row(r).date)

(* ... and create, update and cancel of vouchers.                          *)
Spend(r)        == Handles(r, "spend")  /\ SetPaper(r, "ACTIVE", job[r].date)
RevokeOutlay(r) == Handles(r, "revoke") /\ SetPaper(r, "VOID", None)

AmendOutlay(r) ==
  /\ Handles(r, "amend")
  /\ SetPaper(r, "ACTIVE", IF job[r].date = None THEN Row(r).date ELSE job[r].date)

PaperStep(r) ==
  \/ DraftInvoice(r) \/ CancelInvoice(r) \/ DropInvoice(r) \/ SendInvoice(r)
  \/ AnswerInvoice(r) \/ Spend(r) \/ AmendOutlay(r) \/ RevokeOutlay(r)

-----------------------------------------------------------------------------
(* What a close books.  The year to date continues from the most recent    *)
(* declaration of a closed period of the year.                             *)
EarlierClosed(q) == {e \in 1 .. q - 1 : YearOf[e] = YearOf[q] /\ Closed(e)}

BeforePeriod(q) ==
  LET filed == {e \in EarlierClosed(q) : Declared(e)} IN
  IF filed = {} THEN [revenue |-> 0, expense |-> 0]
  ELSE [revenue |-> declarations[Max(filed)].ytdRevenue,
        expense |-> declarations[Max(filed)].ytdExpense]

YtdRevenue(q, revenue) == BeforePeriod(q).revenue + revenue
YtdExpense(q, expense) == BeforePeriod(q).expense + expense

ConfigAt(q, method) ==
  [group |-> Configs[ConfigOf[q]].group, vatRate |-> Configs[ConfigOf[q]].vatRate,
   pitRate |-> Configs[ConfigOf[q]].pitRate, method |-> method]

(* calculateYtdTaxForPercentageMethod: owed on the year less what earlier  *)
(* closed periods were charged.                                            *)
Deduct(charged, owed) == AtLeastZero(owed - charged)

YtdVat(q, revenue, config) ==
  Deduct(SumFunctionOnSet([e \in Quarters |-> periods[e].vat], EarlierClosed(q)),
         VatAmount(YtdRevenue(q, revenue), config))
YtdPit(q, revenue, config) ==
  Deduct(SumFunctionOnSet([e \in Quarters |-> periods[e].pit], EarlierClosed(q)),
         PitByPercentage(YtdRevenue(q, revenue), config))

TaxOf(q, method, revenue, expense) ==
  LET config == ConfigAt(q, method) IN
  IF TakesPercentage(config)
  THEN [vat |-> YtdVat(q, revenue, config), pit |-> YtdPit(q, revenue, config),
        tax |-> YtdVat(q, revenue, config) + YtdPit(q, revenue, config)]
  ELSE [vat |-> VatAmount(revenue, config), pit |-> PitByProfit(revenue, expense, config),
        tax |-> TotalTaxDue(revenue, expense, config)]

-----------------------------------------------------------------------------
(* closeFinancialPeriod: the update with which it begins has no fields and *)
(* locks nothing.  The period is read, and must be open; the configuration *)
(* is read, or the chosen method written into it, which locks its row from *)
(* then on; earlier open periods and unfinished invoices are counted.      *)
Closers == {"closing", "filing", "filing ignored"}

Closable(q) == Opened(q)

Closing(op, q, figures, chosen) ==
  [op |-> op, period |-> q, figures |-> figures, chosen |-> chosen, checked |-> FALSE,
   method |-> IF chosen = None THEN methods[ConfigOf[q]] ELSE chosen]

CloseBegin(r, q) ==
  /\ MayAsk(r, "close")
  /\ Closable(q)
  /\ \E chosen \in Picks \cup {None}, figures \in Claims \cup {None} :
       job' = [job EXCEPT ![r] = Closing("closing", q, figures, chosen)]
  /\ UNCHANGED <<periods, methods, papers, declarations, drafts, today, overridden, contested>>

ConfigLocked(c) ==
  \E s \in Requests : /\ job[s].op \in Closers /\ job[s].checked /\ job[s].chosen # None
                      /\ ConfigOf[job[s].period] = c

Finalized(q) == Unfinished(q) = {}

CloseCheck(r) ==
  /\ job[r].op \in Closers /\ ~job[r].checked
  /\ job[r].chosen # None => ~ConfigLocked(ConfigOf[job[r].period])
  /\ ~\E e \in 1 .. job[r].period - 1 : Opened(e)
  /\ Finalized(job[r].period)
  /\ job' = [job EXCEPT ![r].checked = TRUE]
  /\ UNCHANGED <<periods, methods, papers, declarations, drafts, today, overridden, contested>>

(* The figures are those sent along or, without them, the sums as they are *)
(* at the end; the taxes, the method and the status are written, whatever  *)
(* the status of the period is by then.                                    *)
FiguresOf(r) ==
  IF job[r].figures = None THEN RealtimeTaxData(job[r].period) ELSE job[r].figures

TaxIn(r) ==
  TaxOf(job[r].period, job[r].method, FiguresOf(r).revenue, FiguresOf(r).expense)

BookPeriod(r) ==
  /\ periods' = [periods EXCEPT ![job[r].period] =
       [@ EXCEPT !.status = "CLOSED", !.vat = TaxIn(r).vat, !.pit = TaxIn(r).pit,
                 !.tax = TaxIn(r).tax]]
  /\ methods' = IF job[r].chosen = None THEN methods
                ELSE [methods EXCEPT ![ConfigOf[job[r].period]] = job[r].chosen]

CloseCommit(r) ==
  /\ job[r].op = "closing" /\ job[r].checked
  /\ BookPeriod(r)
  /\ Done(r)
  /\ UNCHANGED <<papers, declarations, drafts, today, overridden, contested>>

-----------------------------------------------------------------------------
(* openFinancialPeriod: with its row locked, a closed period that is not   *)
(* declared and has no closed period after it is opened again; the taxes   *)
(* it was charged stay in the row.  A close under way does not hold that   *)
(* row before it writes.                                                   *)
Reopenable(q) == ~Declared(q) /\ ~\E e \in q + 1 .. NumQuarters : Closed(e)

Reopen(r, q) ==
  /\ MayAsk(r, "reopen")
  /\ Closed(q) /\ Reopenable(q)
  /\ periods' = [periods EXCEPT ![q].status = "OPEN"]
  /\ UNCHANGED <<methods, papers, declarations, drafts, today, job, overridden, contested>>

(* finishedTaxPayment: the payment date of a declared period, once. *)
TaxPayable(q) == Closed(q) /\ Declared(q)

PayTax(r, q) ==
  /\ MayAsk(r, "pay tax")
  /\ TaxPayable(q) /\ ~periods[q].paid
  /\ periods' = [periods EXCEPT ![q].paid = TRUE]
  /\ UNCHANGED <<methods, papers, declarations, drafts, today, job, overridden, contested>>

(* update: an administrator writes the status and the payment date.        *)
Override(r, q) ==
  /\ MayAsk(r, "override")
  /\ periods[q].status # "ABSENT"
  /\ \E status \in {"OPEN", "CLOSED"}, paid \in BOOLEAN :
       periods' = [periods EXCEPT ![q].status = status, ![q].paid = paid]
  /\ overridden' = overridden \cup {q}
  /\ UNCHANGED <<methods, papers, declarations, drafts, today, job, contested>>

(* A refusal, or a crash: what was not committed is lost. *)
Abandon(r) ==
  /\ job[r] # NoJob
  /\ Done(r)
  /\ UNCHANGED <<periods, methods, papers, declarations, drafts, today, overridden, contested>>

NextQuarter ==
  /\ today < NumQuarters
  /\ Prompt => periods[today].status # "ABSENT"
  /\ today' = today + 1
  /\ UNCHANGED <<periods, methods, papers, declarations, drafts, job, overridden, contested>>

PeriodStep(r) ==
  \/ \E q \in Quarters : CloseBegin(r, q) \/ Reopen(r, q) \/ PayTax(r, q) \/ Override(r, q)
  \/ CloseCheck(r)
  \/ CloseCommit(r)
  \/ Abandon(r)
=============================================================================
