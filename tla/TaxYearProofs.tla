--------------------------- MODULE TaxYearProofs ---------------------------
(***************************************************************************)
(* What holds of periods and declarations for every set of requests,       *)
(* quarters, documents, configurations and permits.                        *)
(***************************************************************************)
EXTENDS TaxYear, TaxEngineProofs, SumTheorems

Submissions == {"submit", "submit force", "submit ignore"}

(* The tables have the keys and the columns they are created with, and the *)
(* clock shows a quarter.                                                  *)
Shapes ==
  /\ today \in Quarters
  /\ DOMAIN periods = Quarters
  /\ \A q \in Quarters : DOMAIN periods[q] = {"status", "vat", "pit", "tax", "paid"}
  /\ DOMAIN declarations = Quarters
  /\ DOMAIN papers = Papers
  /\ \A p \in Papers : DOMAIN papers[p] = {"status", "date"}
  /\ DOMAIN job = Requests
  /\ \A r \in Requests : "op" \in DOMAIN job[r]

(* What a request asks for is in the calendar: the period it closes or     *)
(* declares, and the one its guard is about to create, which is that of    *)
(* the date sent and, with prompt clients, has begun.                      *)
Asks(r) ==
  /\ job[r].op \in Submissions \cup Closers => job[r].period \in Quarters
  /\ job[r].op = "opening" =>
       /\ job[r].quarter \in Quarters /\ job[r].wanted \in PaperOps
       /\ job[r].date = None \/ job[r].quarter = job[r].date.quarter
       /\ Prompt => job[r].quarter <= today

InCalendar == \A r \in Requests : Asks(r)

(* A plain close of a declared period is one that an administrator opened, *)
(* or was under way when it was declared.                                  *)
Contests(r) ==
  job[r].op = "closing" /\ Declared(job[r].period) =>
    job[r].period \in overridden \cup contested

FiledInv ==
  /\ Shapes /\ InCalendar /\ DeclaredIsClosed /\ PaidIsFiled /\ ChargedAsDeclared
  /\ \A r \in Requests : Contests(r)

(* The setup leaves one open period and nothing declared.                  *)
LEMMA InitFiled == TaxYearInit => FiledInv
<1> SUFFICES ASSUME TaxYearInit PROVE FiledInv
  OBVIOUS
<1>1. Shapes
  <2>1. today \in Quarters
    BY PeriodsAssumption DEF PeriodsAssumption, TaxYearInit, Quarters
  <2>2. QED
    BY <2>1 DEF TaxYearInit, Shapes, NewPeriod, NoPeriod, NoPaper, NoJob
<1>2. InCalendar /\ \A r \in Requests : Contests(r)
  BY DEF TaxYearInit, InCalendar, Asks, Contests, NoJob, Closers, Submissions
<1>3. DeclaredIsClosed /\ ChargedAsDeclared
  BY DEF TaxYearInit, DeclaredIsClosed, ChargedAsDeclared, Declared
<1>4. PaidIsFiled
  BY DEF TaxYearInit, PaidIsFiled, NewPeriod, NoPeriod
<1>5. QED
  BY <1>1, <1>2, <1>3, <1>4 DEF FiledInv

(* What a document handler, a guard or a step of a session does to the     *)
(* work of the requests: only the one that runs it changes.                *)
LEMMA PaperSteps ==
  ASSUME Shapes, NEW r \in Requests, PaperStep(r)
  PROVE  /\ UNCHANGED <<periods, methods, declarations, drafts, today, overridden, contested>>
         /\ job' = [job EXCEPT ![r] = job'[r]]
         /\ job'[r].op \in {"idle", "sent"} /\ "op" \in DOMAIN job'[r]
         /\ DOMAIN papers' = Papers
         /\ \A p \in Papers : DOMAIN papers'[p] = {"status", "date"}
<1> USE DEF Shapes, Row, Handles
<1>1. ASSUME NEW status, NEW date, SetPaper(r, status, date)
      PROVE  /\ UNCHANGED <<periods, methods, declarations, drafts, today, overridden, contested>>
             /\ job' = [job EXCEPT ![r] = job'[r]]
             /\ job'[r].op \in {"idle", "sent"} /\ "op" \in DOMAIN job'[r]
             /\ DOMAIN papers' = Papers
             /\ \A p \in Papers : DOMAIN papers'[p] = {"status", "date"}
  BY <1>1 DEF SetPaper, Done, NoJob
<1>2. CASE SendInvoice(r)
  <2>1. job' = [job EXCEPT ![r] = [job[r] EXCEPT !.op = "sent"]]
    BY <1>2 DEF SendInvoice
  <2>2. [job[r] EXCEPT !.op = "sent"].op = "sent" /\ "op" \in DOMAIN [job[r] EXCEPT !.op = "sent"]
    OBVIOUS
  <2>3. QED
    BY <1>2, <2>1, <2>2 DEF SendInvoice
<1>3. CASE AnswerInvoice(r)
  BY <1>1, <1>3 DEF AnswerInvoice
<1>4. CASE DraftInvoice(r) \/ CancelInvoice(r) \/ DropInvoice(r)
  BY <1>1, <1>4 DEF DraftInvoice, CancelInvoice, DropInvoice
<1>5. CASE Spend(r) \/ AmendOutlay(r) \/ RevokeOutlay(r)
  BY <1>1, <1>5 DEF Spend, AmendOutlay, RevokeOutlay
<1>6. QED
  BY <1>2, <1>3, <1>4, <1>5 DEF PaperStep

(* The steps that change nothing but the work of the request, and those    *)
(* that change nothing but a draft.                                        *)
Notes(r) ==
  /\ UNCHANGED <<periods, declarations, papers, overridden, contested>>
  /\ job' = [job EXCEPT ![r] = job'[r]]
  /\ "op" \in DOMAIN job'[r]

(* The guard asks for a quarter of the calendar, and with prompt clients   *)
(* for none that has not begun.                                            *)
LEMMA DatesInQuarters ==
  ASSUME Shapes, NEW op, NEW date \in PossibleDates(op)
  PROVE  /\ CheckedQuarter(date) \in Quarters
         /\ Prompt => CheckedQuarter(date) <= today
         /\ date = None \/ CheckedQuarter(date) = date.quarter
<1>1. \/ date = None
      \/ date \in Dates /\ (Prompt => date.quarter <= today)
  BY DEF PossibleDates, Creations
<1>2. date \in Dates => date.quarter \in Quarters
  BY PeriodsAssumption DEF PeriodsAssumption
<1>3. QED
  BY <1>1, <1>2, PeriodsAssumption DEF PeriodsAssumption, CheckedQuarter, Shapes, Quarters

(* The guard notes what it was asked, for an open period or one that is   *)
(* to be created.                                                          *)
LEMMA GuardSteps ==
  ASSUME Shapes, NEW r \in Requests, NEW op \in PaperOps, NEW p \in Papers, Guard(r, op, p)
  PROVE  /\ Notes(r) /\ UNCHANGED <<methods, drafts, today>>
         /\ job'[r].op \in PaperOps \cup {"opening"}
         /\ \E date \in PossibleDates(op) :
              LET q == CheckedQuarter(date) IN
              /\ q \in Quarters /\ (Prompt => q <= today) /\ (date = None \/ q = date.quarter)
              /\ \/ Opened(q) /\ job'[r] = Asked(op, p, date)
                 \/ job'[r] = ToOpen(op, p, date)
<1>1. PICK date \in PossibleDates(op) :
        \/ /\ Opened(CheckedQuarter(date))
           /\ job' = [job EXCEPT ![r] = Asked(op, p, date)]
        \/ job' = [job EXCEPT ![r] = ToOpen(op, p, date)]
  BY DEF Guard
<1>2. CheckedQuarter(date) \in Quarters /\ (Prompt => CheckedQuarter(date) <= today)
      /\ (date = None \/ CheckedQuarter(date) = date.quarter)
  BY DatesInQuarters
<1>3. /\ job' = [job EXCEPT ![r] = job'[r]]
      /\ \/ job'[r] = ToOpen(op, p, date)
         \/ job'[r] = Asked(op, p, date) /\ Opened(CheckedQuarter(date))
  BY <1>1 DEF Shapes
<1>4. "op" \in DOMAIN job'[r] /\ job'[r].op \in PaperOps \cup {"opening"}
  BY <1>3 DEF Asked, ToOpen
<1>5. Notes(r) /\ UNCHANGED <<methods, drafts, today>>
  BY <1>3, <1>4 DEF Guard, Notes
<1>6. QED
  BY <1>2, <1>3, <1>4, <1>5

(* Creating the period, or finding it, leaves it open.                     *)
LEMMA Opens ==
  ASSUME Shapes, InCalendar, NEW r \in Requests, OpenPeriod(r)
  PROVE  LET q == job[r].quarter IN
         /\ UNCHANGED <<methods, papers, declarations, drafts, today, overridden, contested>>
         /\ job' = [job EXCEPT ![r] = job'[r]]
         /\ job'[r] = Asked(job[r].wanted, job[r].paper, job[r].date)
         /\ job'[r].op \in PaperOps /\ "op" \in DOMAIN job'[r]
         /\ q \in Quarters /\ (Prompt => q <= today)
         /\ job[r].date = None \/ q = job[r].date.quarter
         /\ periods'[q].status = "OPEN"
         /\ \/ UNCHANGED periods
            \/ periods[q].status = "ABSENT" /\ periods' = [periods EXCEPT ![q] = NewPeriod]
<1> DEFINE q == job[r].quarter
<1>1. /\ q \in Quarters /\ (Prompt => q <= today) /\ job[r].wanted \in PaperOps
      /\ job[r].date = None \/ q = job[r].date.quarter
  BY DEF OpenPeriod, InCalendar, Asks
<1>2. job'[r] = Asked(job[r].wanted, job[r].paper, job[r].date)
      /\ job' = [job EXCEPT ![r] = job'[r]]
  BY DEF OpenPeriod, Shapes
<1>3. job'[r].op \in PaperOps /\ "op" \in DOMAIN job'[r]
  BY <1>1, <1>2 DEF Asked
<1>4. \/ Opened(q) /\ UNCHANGED periods
      \/ periods[q].status = "ABSENT" /\ periods' = [periods EXCEPT ![q] = NewPeriod]
  BY DEF OpenPeriod
<1>5. periods'[q].status = "OPEN"
  BY <1>1, <1>4 DEF Opened, Shapes, NewPeriod, NoPeriod
<1>6. QED
  BY <1>1, <1>2, <1>3, <1>4, <1>5 DEF OpenPeriod

(* A submission that was read asks for a period of the calendar.           *)
LEMMA SubmissionReads ==
  ASSUME Shapes, NEW r \in Requests, NEW q \in Quarters, SubmitRead(r, q)
  PROVE  /\ Notes(r)
         /\ job'[r].op \in Submissions /\ job'[r].period = q
<1>1. PICK op \in Submissions, method \in Picks :
        job' = [job EXCEPT ![r] = [op |-> op, period |-> q, chosen |-> method,
                                   figures |-> DeclaredFigures(op, q)]]
  BY DEF SubmitRead, Submissions
<1>2. job'[r] = [op |-> op, period |-> q, chosen |-> method, figures |-> DeclaredFigures(op, q)]
  BY <1>1 DEF Shapes
<1>3. job' = [job EXCEPT ![r] = job'[r]]
  BY <1>1, <1>2
<1>4. job'[r].op = op /\ job'[r].period = q /\ "op" \in DOMAIN job'[r]
  BY <1>2
<1>5. UNCHANGED <<periods, declarations, papers, overridden, contested>>
  BY DEF SubmitRead
<1>6. QED
  BY <1>1, <1>3, <1>4, <1>5 DEF Notes

(* A close or a submission begins on a period that it reads as open.       *)
LEMMA ClosingBegins ==
  ASSUME Shapes, InCalendar, NEW r \in Requests,
         \/ \E q \in Quarters : CloseBegin(r, q)
         \/ SubmitBegin(r)
  PROVE  /\ Notes(r) /\ UNCHANGED <<methods, drafts, today>>
         /\ job'[r].op \in Closers /\ job'[r].period \in Quarters
         /\ Opened(job'[r].period) /\ ~job'[r].checked
<1>1. ASSUME NEW q \in Quarters, NEW op \in Closers, NEW figures, NEW chosen,
             Closable(q), job' = [job EXCEPT ![r] = Closing(op, q, figures, chosen)],
             UNCHANGED <<periods, methods, papers, declarations, drafts, today, overridden, contested>>
      PROVE  /\ Notes(r) /\ UNCHANGED <<methods, drafts, today>>
             /\ job'[r].op \in Closers /\ job'[r].period \in Quarters
             /\ Opened(job'[r].period) /\ ~job'[r].checked
  <2>1. job'[r] = Closing(op, q, figures, chosen)
    BY <1>1 DEF Shapes
  <2>2. /\ job'[r].op = op /\ job'[r].period = q /\ "op" \in DOMAIN job'[r]
        /\ job'[r].checked = FALSE
    BY <2>1 DEF Closing
  <2>3. QED
    BY <1>1, <2>1, <2>2 DEF Notes, Closable
<1>2. ASSUME NEW q \in Quarters, CloseBegin(r, q)
      PROVE  /\ Notes(r) /\ UNCHANGED <<methods, drafts, today>>
             /\ job'[r].op \in Closers /\ job'[r].period \in Quarters
             /\ Opened(job'[r].period) /\ ~job'[r].checked
  <2>1. PICK chosen \in Picks \cup {None}, figures \in Claims \cup {None} :
          job' = [job EXCEPT ![r] = Closing("closing", q, figures, chosen)]
    BY <1>2 DEF CloseBegin
  <2>2. "closing" \in Closers
    BY DEF Closers
  <2>3. /\ Closable(q)
        /\ UNCHANGED <<periods, methods, papers, declarations, drafts, today, overridden, contested>>
    BY <1>2 DEF CloseBegin
  <2>4. QED
    BY <1>1, <2>1, <2>2, <2>3
<1>3. CASE SubmitBegin(r)
  <2> DEFINE op == IF job[r].op = "submit ignore" THEN "filing ignored" ELSE "filing"
  <2>1. op \in Closers /\ job[r].period \in Quarters
    BY <1>3 DEF SubmitBegin, Closers, Submissions, InCalendar, Asks
  <2>2. job' = [job EXCEPT ![r] = Closing(op, job[r].period, job[r].figures, job[r].chosen)]
    BY <1>3 DEF SubmitBegin
  <2>3. Closable(job[r].period)
    BY <1>3 DEF SubmitBegin
  <2>4. UNCHANGED <<periods, methods, papers, declarations, drafts, today, overridden, contested>>
    BY <1>3 DEF SubmitBegin
  <2> HIDE DEF op
  <2>5. QED
    BY <1>1, <2>1, <2>2, <2>3, <2>4
<1>4. QED
  BY <1>2, <1>3

(* The checks that follow find no earlier period open and nothing          *)
(* unfinished, and note only that they were made.                          *)
LEMMA ClosingChecks ==
  ASSUME Shapes, InCalendar, NEW r \in Requests, CloseCheck(r)
  PROVE  /\ Notes(r) /\ UNCHANGED <<methods, drafts, today>>
         /\ job[r].op \in Closers /\ job'[r].op = job[r].op
         /\ job'[r].period = job[r].period /\ job[r].period \in Quarters
         /\ job'[r].figures = job[r].figures /\ job'[r].chosen = job[r].chosen
         /\ job'[r].method = job[r].method
         /\ Finalized(job[r].period) /\ ~\E e \in 1 .. job[r].period - 1 : Opened(e)
<1>1. job' = [job EXCEPT ![r] = [job[r] EXCEPT !.checked = TRUE]]
  BY DEF CloseCheck
<1>2. job'[r] = [job[r] EXCEPT !.checked = TRUE] /\ job' = [job EXCEPT ![r] = job'[r]]
  BY <1>1 DEF Shapes
<1>3. /\ job'[r].op = job[r].op /\ job'[r].period = job[r].period
      /\ job'[r].figures = job[r].figures /\ job'[r].chosen = job[r].chosen
      /\ job'[r].method = job[r].method /\ "op" \in DOMAIN job'[r]
  BY <1>2 DEF Shapes
<1>4. job[r].op \in Closers /\ job[r].period \in Quarters
  BY DEF CloseCheck, InCalendar, Asks
<1>5. QED
  BY <1>2, <1>3, <1>4 DEF CloseCheck, Notes

(* A close or a submission ends with its row written and its work done.    *)
LEMMA ClosingEnds ==
  ASSUME Shapes, InCalendar, NEW r \in Requests, CloseCommit(r) \/ SubmitCommit(r)
  PROVE  LET q == job[r].period IN
         /\ job[r].op \in Closers /\ q \in Quarters /\ job[r].checked
         /\ BookPeriod(r) /\ Done(r)
         /\ UNCHANGED <<papers, today, overridden>> /\ contested \subseteq contested'
         /\ \/ UNCHANGED declarations
            \/ ~Declared(q) /\ declarations' = [declarations EXCEPT ![q] = declarations'[q]]
<1>1. job[r].op \in Closers
  BY DEF CloseCommit, SubmitCommit, Closers
<1>2. job[r].period \in Quarters
  BY <1>1 DEF InCalendar, Asks
<1>3. CASE CloseCommit(r)
  BY <1>1, <1>2, <1>3 DEF CloseCommit
<1>4. CASE SubmitCommit(r)
  <2>1. declarations' = [declarations EXCEPT ![job[r].period] = declarations'[job[r].period]]
    BY <1>2, <1>4 DEF SubmitCommit, Shapes
  <2>2. QED
    BY <1>1, <1>2, <1>4, <2>1 DEF SubmitCommit, Declarable
<1>5. QED
  BY <1>3, <1>4

(* The handlers of a period that take one step, other than closing it.     *)
RowStep(r, q) == Reopen(r, q) \/ PayTax(r, q) \/ Override(r, q)

(* The steps of a session before its submission. *)
SessionStep(r, q) ==
  StartSession(r, q) \/ SaveRevenue(r, q) \/ SaveInventory(r, q) \/ SaveExpense(r, q)

(* Every step is one of these kinds.                                       *)
LEMMA StepKinds ==
  ASSUME [TaxYearNext]_taxVars
  PROVE  \/ \E r \in Requests :
              \/ \E op \in PaperOps, p \in Papers : Guard(r, op, p)
              \/ OpenPeriod(r)
              \/ PaperStep(r)
              \/ \E q \in Quarters : RowStep(r, q) \/ SessionStep(r, q) \/ SubmitRead(r, q)
              \/ (\E q \in Quarters : CloseBegin(r, q)) \/ SubmitBegin(r)
              \/ CloseCheck(r)
              \/ CloseCommit(r) \/ SubmitCommit(r)
              \/ Abandon(r)
         \/ NextQuarter
         \/ UNCHANGED taxVars
BY DEF TaxYearNext, PeriodStep, DeclarationStep, RowStep, SessionStep

(* Such a handler reopens a closed and undeclared period, marks a closed   *)
(* and declared one as paid, or is an administrator's.                     *)
LEMMA RowSteps ==
  ASSUME Shapes, NEW r \in Requests, NEW q \in Quarters, RowStep(r, q)
  PROVE  /\ UNCHANGED <<methods, papers, declarations, drafts, today, job, contested>>
         /\ DOMAIN periods' = Quarters
         /\ \A e \in Quarters \ {q} : periods'[e] = periods[e]
         /\ DOMAIN periods'[q] = DOMAIN periods[q]
         /\ \/ /\ overridden' = overridden
               /\ Closed(q) /\ ~Declared(q) /\ Opened(q)'
               /\ periods'[q].paid = periods[q].paid
               /\ ~\E e \in q + 1 .. NumQuarters : Closed(e)
            \/ /\ overridden' = overridden
               /\ Closed(q) /\ Declared(q) /\ Closed(q)'
               /\ \A c \in {"vat", "pit", "tax"} : periods'[q][c] = periods[q][c]
            \/ /\ overridden' = overridden \cup {q}
               /\ "override" \in Permits[r]
<1>1. CASE Reopen(r, q)
  BY <1>1 DEF Reopen, Shapes, Reopenable, Opened, Closed
<1>2. CASE PayTax(r, q)
  BY <1>2 DEF PayTax, Shapes, TaxPayable, Closed
<1>3. CASE Override(r, q)
  <2>1. PICK status \in {"OPEN", "CLOSED"}, paid \in BOOLEAN :
          periods' = [periods EXCEPT ![q].status = status, ![q].paid = paid]
    BY <1>3 DEF Override
  <2>2. /\ DOMAIN periods' = Quarters
        /\ \A e \in Quarters \ {q} : periods'[e] = periods[e]
        /\ DOMAIN periods'[q] = DOMAIN periods[q]
    BY <2>1 DEF Shapes
  <2>3. QED
    BY <1>3, <2>2 DEF Override, MayAsk
<1>4. QED
  BY <1>1, <1>2, <1>3 DEF RowStep

(* What a close or a submission writes.                                    *)
LEMMA Booked ==
  ASSUME Shapes, NEW r \in Requests, NEW q \in Quarters, q = job[r].period, BookPeriod(r)
  PROVE  /\ DOMAIN periods' = Quarters
         /\ \A e \in Quarters \ {q} : periods'[e] = periods[e]
         /\ DOMAIN periods'[q] = DOMAIN periods[q]
         /\ Closed(q)' /\ periods'[q].paid = periods[q].paid
         /\ periods'[q].vat = TaxIn(r).vat /\ periods'[q].pit = TaxIn(r).pit
         /\ periods'[q].tax = TaxIn(r).tax
<1>1. periods' = [periods EXCEPT ![q] =
        [periods[q] EXCEPT !.status = "CLOSED", !.vat = TaxIn(r).vat, !.pit = TaxIn(r).pit,
                           !.tax = TaxIn(r).tax]]
  BY DEF BookPeriod
<1>2. periods'[q] = [periods[q] EXCEPT !.status = "CLOSED", !.vat = TaxIn(r).vat,
                                       !.pit = TaxIn(r).pit, !.tax = TaxIn(r).tax]
  BY <1>1 DEF Shapes
<1>3. QED
  BY <1>1, <1>2 DEF Shapes, Closed

(* No step adds a row or a column.                                         *)
LEMMA StepShapes ==
  ASSUME Shapes, InCalendar, [TaxYearNext]_taxVars
  PROVE  Shapes'
<1>1. ASSUME NEW r \in Requests, Notes(r), UNCHANGED today
      PROVE  Shapes'
  BY <1>1 DEF Notes, Shapes
<1>2. ASSUME NEW r \in Requests,
             \/ \E op \in PaperOps, p \in Papers : Guard(r, op, p)
             \/ \E q \in Quarters : SubmitRead(r, q) \/ CloseBegin(r, q)
             \/ SubmitBegin(r) \/ CloseCheck(r)
      PROVE  Shapes'
  <2>1. Notes(r)
    BY <1>2, GuardSteps, SubmissionReads, ClosingBegins, ClosingChecks
  <2>2. UNCHANGED today
    BY <1>2 DEF Guard, SubmitRead, CloseBegin, SubmitBegin, CloseCheck
  <2>3. QED
    BY <1>1, <2>1, <2>2
<1>3. ASSUME NEW r \in Requests, OpenPeriod(r)
      PROVE  Shapes'
  <2>1. /\ DOMAIN periods' = Quarters
        /\ \A q \in Quarters : DOMAIN periods'[q] = {"status", "vat", "pit", "tax", "paid"}
    BY <1>3, Opens DEF Shapes, NewPeriod, NoPeriod
  <2>2. /\ UNCHANGED <<papers, declarations, today>>
        /\ job' = [job EXCEPT ![r] = job'[r]] /\ "op" \in DOMAIN job'[r]
    BY <1>3, Opens
  <2>3. QED
    BY <2>1, <2>2 DEF Shapes
<1>4. ASSUME NEW r \in Requests, PaperStep(r)
      PROVE  Shapes'
  BY <1>4, PaperSteps DEF Shapes
<1>5. ASSUME NEW r \in Requests, NEW q \in Quarters, RowStep(r, q)
      PROVE  Shapes'
  BY <1>5, RowSteps DEF Shapes
<1>6. ASSUME NEW r \in Requests, NEW q \in Quarters, SessionStep(r, q)
      PROVE  Shapes'
  BY <1>6 DEF SessionStep, StartSession, SaveRevenue, SaveInventory, SaveExpense, SetDraft, Shapes
<1>7. ASSUME NEW r \in Requests, CloseCommit(r) \/ SubmitCommit(r)
      PROVE  Shapes'
  <2>1. job[r].period \in Quarters /\ BookPeriod(r) /\ Done(r)
    BY <1>7, ClosingEnds
  <2>2. DOMAIN declarations' = Quarters /\ UNCHANGED papers
    BY <1>7, ClosingEnds DEF Shapes
  <2>3. UNCHANGED today
    BY <1>7 DEF CloseCommit, SubmitCommit
  <2>4. /\ DOMAIN periods' = Quarters
        /\ \A q \in Quarters : DOMAIN periods'[q] = {"status", "vat", "pit", "tax", "paid"}
    BY <2>1, Booked DEF Shapes
  <2>5. QED
    BY <2>1, <2>2, <2>3, <2>4 DEF Shapes, Done, NoJob
<1>8. ASSUME NEW r \in Requests, Abandon(r)
      PROVE  Shapes'
  BY <1>8 DEF Abandon, Done, NoJob, Shapes
<1>9. CASE NextQuarter
  BY <1>9, PeriodsAssumption DEF PeriodsAssumption, NextQuarter, Shapes, Quarters
<1>10. CASE UNCHANGED taxVars
  BY <1>10 DEF taxVars, Shapes
<1>11. QED
  BY <1>2, <1>3, <1>4, <1>5, <1>6, <1>7, <1>8, <1>9, <1>10, StepKinds

(* What the requests ask for stays in the calendar: the clock only moves   *)
(* on.                                                                     *)
LEMMA StepCalendar ==
  ASSUME Shapes, InCalendar, [TaxYearNext]_taxVars
  PROVE  InCalendar'
<1>0. today \in Nat /\ Quarters \subseteq Nat
  BY PeriodsAssumption DEF PeriodsAssumption, Shapes, Quarters
<1>1. ASSUME NEW r \in Requests, UNCHANGED today, job' = [job EXCEPT ![r] = job'[r]], Asks(r)'
      PROVE  InCalendar'
  <2>1. \A s \in Requests \ {r} : job'[s] = job[s]
    BY <1>1 DEF Shapes
  <2>2. \A s \in Requests \ {r} : Asks(s)'
    BY <1>1, <2>1 DEF InCalendar, Asks
  <2>3. QED
    BY <1>1, <2>2 DEF InCalendar
<1>2. ASSUME NEW r \in Requests, job'[r].op \in PaperOps \cup {"idle", "sent"}
      PROVE  Asks(r)'
  BY <1>2 DEF Asks, PaperOps, Creations, Submissions, Closers
<1>3. ASSUME NEW r \in Requests, NEW op \in PaperOps, NEW p \in Papers, Guard(r, op, p)
      PROVE  InCalendar'
  <2>1. /\ UNCHANGED today /\ job' = [job EXCEPT ![r] = job'[r]]
        /\ job'[r].op \in PaperOps \cup {"opening"}
    BY <1>3, GuardSteps DEF Notes
  <2>2. PICK date \in PossibleDates(op) :
          LET q == CheckedQuarter(date) IN
          /\ q \in Quarters /\ (Prompt => q <= today) /\ (date = None \/ q = date.quarter)
          /\ \/ Opened(q) /\ job'[r] = Asked(op, p, date)
             \/ job'[r] = ToOpen(op, p, date)
    BY <1>3, GuardSteps
  <2>3. CASE job'[r].op = "opening"
    <3>1. op \notin {"opening"} /\ "opening" \notin Submissions \cup Closers
      BY DEF PaperOps, Creations, Submissions, Closers
    <3>2. job'[r] = ToOpen(op, p, date)
      BY <2>2, <2>3, <3>1 DEF Asked
    <3>3. /\ job'[r].wanted = op /\ job'[r].date = date
          /\ job'[r].quarter = CheckedQuarter(date)
      BY <3>2 DEF ToOpen
    <3>4. Asks(r)'
      BY <2>1, <2>2, <2>3, <3>1, <3>3 DEF Asks
    <3>5. QED
      BY <1>1, <2>1, <3>4
  <2>4. CASE job'[r].op \in PaperOps
    BY <1>1, <1>2, <2>1, <2>4
  <2>5. QED
    BY <2>1, <2>3, <2>4
<1>4. ASSUME NEW r \in Requests, OpenPeriod(r)
      PROVE  InCalendar'
  BY <1>1, <1>2, <1>4, Opens
<1>5. ASSUME NEW r \in Requests, PaperStep(r)
      PROVE  InCalendar'
  <2>1. UNCHANGED today /\ job' = [job EXCEPT ![r] = job'[r]] /\ job'[r].op \in {"idle", "sent"}
    BY <1>5, PaperSteps
  <2>2. QED
    BY <1>1, <1>2, <2>1
<1>6. ASSUME UNCHANGED <<today, job>>
      PROVE  InCalendar'
  BY <1>6 DEF InCalendar, Asks
<1>7. ASSUME NEW r \in Requests, NEW q \in Quarters, RowStep(r, q) \/ SessionStep(r, q)
      PROVE  InCalendar'
  BY <1>6, <1>7, RowSteps
     DEF SessionStep, StartSession, SaveRevenue, SaveInventory, SaveExpense, SetDraft
<1>8. ASSUME NEW r \in Requests, UNCHANGED today, job' = [job EXCEPT ![r] = job'[r]],
             job'[r].op \in Submissions \cup Closers, job'[r].period \in Quarters
      PROVE  InCalendar'
  <2>1. Asks(r)'
    BY <1>8 DEF Asks, Submissions, Closers
  <2>2. QED
    BY <1>1, <1>8, <2>1
<1>9. ASSUME NEW r \in Requests, NEW q \in Quarters, SubmitRead(r, q)
      PROVE  InCalendar'
  <2>1. UNCHANGED today
    BY <1>9 DEF SubmitRead
  <2>2. QED
    BY <1>8, <1>9, <2>1, SubmissionReads DEF Notes
<1>10. ASSUME NEW r \in Requests, (\E q \in Quarters : CloseBegin(r, q)) \/ SubmitBegin(r)
      PROVE  InCalendar'
  BY <1>8, <1>10, ClosingBegins DEF Notes
<1>11. ASSUME NEW r \in Requests, CloseCheck(r)
      PROVE  InCalendar'
  BY <1>8, <1>11, ClosingChecks DEF Notes
<1>12. ASSUME NEW r \in Requests, CloseCommit(r) \/ SubmitCommit(r) \/ Abandon(r)
      PROVE  InCalendar'
  <2>1. UNCHANGED today /\ Done(r)
    BY <1>12 DEF CloseCommit, SubmitCommit, Abandon
  <2>2. job' = [job EXCEPT ![r] = job'[r]] /\ job'[r].op = "idle"
    BY <2>1 DEF Done, NoJob, Shapes
  <2>3. QED
    BY <1>1, <1>2, <2>1, <2>2
<1>13. CASE NextQuarter
  <2>1. today' = today + 1 /\ UNCHANGED job
    BY <1>13 DEF NextQuarter
  <2>2. \A r \in Requests : job[r].op = "opening" => job[r].quarter \in Nat
    BY <1>0 DEF InCalendar, Asks
  <2>3. QED
    BY <1>0, <2>1, <2>2 DEF InCalendar, Asks
<1>14. QED
  BY <1>3, <1>4, <1>5, <1>6, <1>7, <1>9, <1>10, <1>11, <1>12, <1>13, StepKinds DEF taxVars

(* A plain close begins on a period that is not declared, unless an        *)
(* administrator opened it, and a submission that overtakes it is noted.   *)
LEMMA StepContests ==
  ASSUME FiledInv, [TaxYearNext]_taxVars
  PROVE  \A s \in Requests : Contests(s)'
<1> USE DEF FiledInv
<1>1. ASSUME NEW r \in Requests, UNCHANGED declarations, job' = [job EXCEPT ![r] = job'[r]],
             overridden \subseteq overridden', contested \subseteq contested', Contests(r)'
      PROVE  \A s \in Requests : Contests(s)'
  <2>1. \A s \in Requests \ {r} : job'[s] = job[s]
    BY <1>1 DEF Shapes
  <2>2. \A s \in Requests \ {r} : Contests(s)'
    BY <1>1, <2>1 DEF Contests, Declared
  <2>3. QED
    BY <1>1, <2>2
<1>2. ASSUME NEW r \in Requests, Notes(r), job'[r].op # "closing"
      PROVE  \A s \in Requests : Contests(s)'
  <2>1. Contests(r)'
    BY <1>2 DEF Contests
  <2>2. QED
    BY <1>1, <1>2, <2>1 DEF Notes
<1>3. ASSUME NEW r \in Requests, NEW op \in PaperOps, NEW p \in Papers, Guard(r, op, p)
      PROVE  \A s \in Requests : Contests(s)'
  <2>1. Notes(r) /\ job'[r].op \in PaperOps \cup {"opening"}
    BY <1>3, GuardSteps
  <2>2. job'[r].op # "closing"
    BY <2>1 DEF PaperOps, Creations
  <2>3. QED
    BY <1>2, <2>1, <2>2
<1>4. ASSUME NEW r \in Requests, OpenPeriod(r)
      PROVE  \A s \in Requests : Contests(s)'
  <2>1. /\ UNCHANGED <<declarations, overridden, contested>>
        /\ job' = [job EXCEPT ![r] = job'[r]] /\ job'[r].op \in PaperOps
    BY <1>4, Opens
  <2>2. Contests(r)'
    BY <2>1 DEF Contests, PaperOps, Creations
  <2>3. QED
    BY <1>1, <2>1, <2>2
<1>5. ASSUME NEW r \in Requests, PaperStep(r)
      PROVE  \A s \in Requests : Contests(s)'
  <2>1. /\ UNCHANGED <<declarations, overridden, contested>>
        /\ job' = [job EXCEPT ![r] = job'[r]] /\ job'[r].op \in {"idle", "sent"}
    BY <1>5, PaperSteps
  <2>2. Contests(r)'
    BY <2>1 DEF Contests
  <2>3. QED
    BY <1>1, <2>1, <2>2
<1>6. ASSUME UNCHANGED <<job, declarations, contested>>, overridden \subseteq overridden'
      PROVE  \A s \in Requests : Contests(s)'
  BY <1>6 DEF Contests, Declared
<1>7. ASSUME NEW r \in Requests, NEW q \in Quarters, RowStep(r, q) \/ SessionStep(r, q)
      PROVE  \A s \in Requests : Contests(s)'
  <2>1. UNCHANGED <<job, declarations, contested>> /\ overridden \subseteq overridden'
    BY <1>7 DEF RowStep, Reopen, PayTax, Override, SessionStep, StartSession, SaveRevenue,
                SaveInventory, SaveExpense, SetDraft
  <2>2. QED
    BY <1>6, <2>1
<1>8. ASSUME NEW r \in Requests, NEW q \in Quarters, SubmitRead(r, q)
      PROVE  \A s \in Requests : Contests(s)'
  BY <1>2, <1>8, SubmissionReads DEF Submissions
<1>9. ASSUME NEW r \in Requests, (\E q \in Quarters : CloseBegin(r, q)) \/ SubmitBegin(r)
      PROVE  \A s \in Requests : Contests(s)'
  <2>1. PICK q \in Quarters : q = job'[r].period /\ Notes(r) /\ Opened(q)
    BY <1>9, ClosingBegins
  <2>2. Declared(q) => q \in overridden
    BY <2>1 DEF DeclaredIsClosed, Opened, Closed
  <2>3. Contests(r)'
    BY <2>1, <2>2 DEF Contests, Notes, Declared
  <2>4. QED
    BY <1>1, <2>1, <2>3 DEF Notes
<1>10. ASSUME NEW r \in Requests, CloseCheck(r)
      PROVE  \A s \in Requests : Contests(s)'
  <2>1. Notes(r) /\ job'[r].op = job[r].op /\ job'[r].period = job[r].period
    BY <1>10, ClosingChecks
  <2>2. Contests(r)'
    BY <2>1 DEF Contests, Notes, Declared
  <2>3. QED
    BY <1>1, <2>1, <2>2 DEF Notes
<1>11. ASSUME NEW r \in Requests, CloseCommit(r) \/ Abandon(r)
      PROVE  \A s \in Requests : Contests(s)'
  <2>1. Done(r) /\ UNCHANGED <<declarations, overridden, contested>>
    BY <1>11 DEF CloseCommit, Abandon
  <2>2. job' = [job EXCEPT ![r] = job'[r]] /\ job'[r].op = "idle"
    BY <2>1 DEF Done, NoJob, Shapes
  <2>3. Contests(r)'
    BY <2>2 DEF Contests
  <2>4. QED
    BY <1>1, <2>1, <2>2, <2>3
<1>12. ASSUME NEW r \in Requests, SubmitCommit(r)
      PROVE  \A s \in Requests : Contests(s)'
  <2>1. PICK q \in Quarters : q = job[r].period
    BY <1>12, ClosingEnds
  <2>2. /\ Done(r) /\ UNCHANGED overridden
        /\ \A e \in Quarters \ {q} : declarations'[e] = declarations[e]
        /\ contested' = contested \cup {e \in {q} : UnderWay(e)}
    BY <1>12, <2>1 DEF SubmitCommit, Shapes
  <2>3. job'[r].op = "idle" /\ \A s \in Requests \ {r} : job'[s] = job[s]
    BY <2>2 DEF Done, NoJob, Shapes
  <2>4. ASSUME NEW s \in Requests \ {r}, job[s].op = "closing", job[s].period = q
        PROVE  q \in contested'
    BY <2>2, <2>4 DEF UnderWay
  <2>5. ASSUME NEW s \in Requests \ {r}
        PROVE  Contests(s)'
    <3>1. job[s].op = "closing" => job[s].period \in Quarters
      BY DEF InCalendar, Asks, Closers
    <3>2. CASE job[s].op = "closing" /\ job[s].period # q
      BY <2>2, <2>3, <3>1, <3>2 DEF Contests, Declared
    <3>3. CASE job[s].op = "closing" /\ job[s].period = q
      BY <2>3, <2>4, <3>3 DEF Contests
    <3>4. QED
      BY <2>3, <3>2, <3>3 DEF Contests
  <2>6. Contests(r)'
    BY <2>3 DEF Contests
  <2>7. QED
    BY <2>5, <2>6
<1>13. CASE NextQuarter \/ UNCHANGED taxVars
  BY <1>6, <1>13 DEF NextQuarter, taxVars
<1>14. QED
  BY <1>3, <1>4, <1>5, <1>7, <1>8, <1>9, <1>10, <1>11, <1>12, <1>13, StepKinds

(* While no administrator writes its row, a declared period stays closed   *)
(* and only such a period is paid; what it was charged stays as well,      *)
(* unless a plain close of it was under way when it was declared.          *)
LEMMA StepFiled ==
  ASSUME FiledInv, [TaxYearNext]_taxVars
  PROVE  DeclaredIsClosed' /\ PaidIsFiled' /\ ChargedAsDeclared'
<1> USE DEF FiledInv
<1> DEFINE Kept == DeclaredIsClosed' /\ PaidIsFiled' /\ ChargedAsDeclared'
<1>0. ASSUME UNCHANGED <<periods, declarations, overridden, contested>>
      PROVE  Kept
  BY <1>0 DEF DeclaredIsClosed, PaidIsFiled, ChargedAsDeclared, Declared, Closed
<1>1. ASSUME NEW r \in Requests, Notes(r)
      PROVE  Kept
  BY <1>0, <1>1 DEF Notes
<1>2. ASSUME NEW r \in Requests, OpenPeriod(r)
      PROVE  Kept
  <2>1. CASE UNCHANGED periods
    BY <1>0, <1>2, <2>1 DEF OpenPeriod
  <2>2. ASSUME NEW q \in Quarters, periods[q].status = "ABSENT",
               periods' = [periods EXCEPT ![q] = NewPeriod]
        PROVE  Kept
    <3>1. q \notin overridden => ~Declared(q)
      BY <2>2 DEF DeclaredIsClosed, Closed
    <3>2. periods'[q].paid = FALSE /\ \A e \in Quarters \ {q} : periods'[e] = periods[e]
      BY <2>2 DEF Shapes, NewPeriod, NoPeriod
    <3>3. UNCHANGED <<declarations, overridden, contested>>
      BY <1>2 DEF OpenPeriod
    <3>4. QED
      BY <3>1, <3>2, <3>3 DEF DeclaredIsClosed, PaidIsFiled, ChargedAsDeclared, Declared, Closed
  <2>3. QED
    BY <1>2, <2>1, <2>2, Opens
<1>3. ASSUME NEW r \in Requests, PaperStep(r)
      PROVE  Kept
  BY <1>0, <1>3, PaperSteps
<1>4. ASSUME NEW r \in Requests, NEW q \in Quarters, RowStep(r, q)
      PROVE  Kept
  <2>1. UNCHANGED <<declarations, contested>> /\ \A e \in Quarters \ {q} : periods'[e] = periods[e]
    BY <1>4, RowSteps
  <2>2. CASE /\ overridden' = overridden
             /\ Closed(q) /\ ~Declared(q) /\ Opened(q)'
             /\ periods'[q].paid = periods[q].paid
    BY <2>1, <2>2 DEF DeclaredIsClosed, PaidIsFiled, ChargedAsDeclared, Declared, Closed
  <2>3. CASE /\ overridden' = overridden
             /\ Closed(q) /\ Declared(q) /\ Closed(q)'
             /\ \A c \in {"vat", "pit", "tax"} : periods'[q][c] = periods[q][c]
    <3>1. /\ periods'[q].vat = periods[q].vat /\ periods'[q].pit = periods[q].pit
          /\ periods'[q].tax = periods[q].tax
      BY <2>3
    <3>2. QED
      BY <2>1, <2>3, <3>1 DEF DeclaredIsClosed, PaidIsFiled, ChargedAsDeclared, Declared, Closed
  <2>4. CASE overridden' = overridden \cup {q}
    BY <2>1, <2>4 DEF DeclaredIsClosed, PaidIsFiled, ChargedAsDeclared, Declared, Closed
  <2>5. QED
    BY <1>4, <2>2, <2>3, <2>4, RowSteps
<1>5. ASSUME NEW r \in Requests, NEW q \in Quarters, SessionStep(r, q)
      PROVE  Kept
  BY <1>0, <1>5 DEF SessionStep, StartSession, SaveRevenue, SaveInventory, SaveExpense, SetDraft
<1>6. ASSUME NEW r \in Requests, CloseCommit(r) \/ SubmitCommit(r)
      PROVE  Kept
  <2>1. PICK q \in Quarters : q = job[r].period
    BY <1>6, ClosingEnds
  <2>2. /\ UNCHANGED overridden /\ contested \subseteq contested'
        /\ \A e \in Quarters \ {q} : periods'[e] = periods[e]
        /\ Closed(q)' /\ periods'[q].paid = periods[q].paid
        /\ periods'[q].vat = TaxIn(r).vat /\ periods'[q].pit = TaxIn(r).pit
        /\ periods'[q].tax = TaxIn(r).tax
    BY <1>6, <2>1, ClosingEnds, Booked
  <2>3. CASE CloseCommit(r)
    <3>1. UNCHANGED <<declarations, contested>>
      BY <2>3 DEF CloseCommit
    <3>2. Declared(q) => q \in overridden \cup contested
      BY <2>1, <2>3 DEF CloseCommit, Contests
    <3>3. QED
      BY <2>2, <3>1, <3>2 DEF DeclaredIsClosed, PaidIsFiled, ChargedAsDeclared, Declared, Closed
  <2>4. CASE SubmitCommit(r)
    <3>1. /\ \A e \in Quarters \ {q} : declarations'[e] = declarations[e]
          /\ declarations'[q].vat = TaxIn(r).vat /\ declarations'[q].pit = TaxIn(r).pit
          /\ declarations'[q].tax = TaxIn(r).tax
          /\ ~Declared(q)
      BY <2>1, <2>4 DEF SubmitCommit, Shapes, Declarable
    <3>2. q \notin overridden => ~periods[q].paid
      BY <3>1 DEF PaidIsFiled
    <3>3. QED
      BY <2>2, <3>1, <3>2 DEF DeclaredIsClosed, PaidIsFiled, ChargedAsDeclared, Declared, Closed
  <2>5. QED
    BY <1>6, <2>3, <2>4
<1>7. ASSUME NEW r \in Requests, Abandon(r)
      PROVE  Kept
  BY <1>0, <1>7 DEF Abandon
<1>8. ASSUME NextQuarter \/ UNCHANGED taxVars
      PROVE  Kept
  BY <1>0, <1>8 DEF NextQuarter, taxVars
<1> HIDE DEF Kept
<1>9. ASSUME NEW r \in Requests, NEW op \in PaperOps, NEW p \in Papers, Guard(r, op, p)
      PROVE  Kept
  BY <1>1, <1>9, GuardSteps
<1>10. ASSUME NEW r \in Requests, NEW q \in Quarters, SubmitRead(r, q)
      PROVE  Kept
  BY <1>1, <1>10, SubmissionReads
<1>11. ASSUME NEW r \in Requests, (\E q \in Quarters : CloseBegin(r, q)) \/ SubmitBegin(r)
      PROVE  Kept
  BY <1>1, <1>11, ClosingBegins
<1>12. ASSUME NEW r \in Requests, CloseCheck(r)
      PROVE  Kept
  BY <1>1, <1>12, ClosingChecks
<1>13. Kept
  BY <1>2, <1>3, <1>4, <1>5, <1>6, <1>7, <1>8, <1>9, <1>10, <1>11, <1>12, StepKinds
<1>14. QED
  BY <1>13 DEF Kept

(* The invariant of the theorems on declarations.                          *)
THEOREM Filing == TaxYearSpec => []FiledInv
<1>1. FiledInv /\ [TaxYearNext]_taxVars => FiledInv'
  BY StepShapes, StepCalendar, StepFiled, StepContests DEF FiledInv
<1>2. QED
  BY <1>1, InitFiled, PTL DEF TaxYearSpec

(* A declared period is closed and is not reopened, however many           *)
(* accountants close, submit and reopen at once (closeFinancialPeriod,     *)
(* openFinancialPeriod, processSubmission), unless an administrator writes *)
(* its row; and it stays charged what its declaration says, unless a plain *)
(* close had read that it is open before it was declared and was still on  *)
(* its way then (closeFinancialPeriod writes the row by its id alone).     *)
THEOREM DeclaredStaysClosed == TaxYearSpec => []DeclaredAsClosed
<1>1. FiledInv => DeclaredAsClosed
  BY DEF FiledInv, DeclaredAsClosed
<1>2. QED
  BY <1>1, Filing, PTL

(* Tax is confirmed as paid only for a period that is closed and declared  *)
(* (finishedTaxPayment), and it stays so.                                  *)
THEOREM PaidStaysFiled == TaxYearSpec => []PaidIsFiled
<1>1. FiledInv => PaidIsFiled
  BY DEF FiledInv
<1>2. QED
  BY <1>1, Filing, PTL

(* Only a submission writes a declaration. *)
LEMMA OnlySubmissionsDeclare ==
  ASSUME Shapes, [TaxYearNext]_taxVars, ~\E r \in Requests : SubmitCommit(r)
  PROVE  UNCHANGED declarations
<1>1. ASSUME NEW r \in Requests, NEW op \in PaperOps, NEW p \in Papers, Guard(r, op, p)
      PROVE  UNCHANGED declarations
  BY <1>1 DEF Guard
<1>2. ASSUME NEW r \in Requests, PaperStep(r) PROVE UNCHANGED declarations
  BY <1>2, PaperSteps
<1>3. ASSUME NEW r \in Requests, NEW q \in Quarters,
             RowStep(r, q) \/ SessionStep(r, q) \/ SubmitRead(r, q) \/ CloseBegin(r, q)
      PROVE  UNCHANGED declarations
  BY <1>3 DEF RowStep, Reopen, PayTax, Override, SessionStep, StartSession, SaveRevenue,
              SaveInventory, SaveExpense, SetDraft, SubmitRead, CloseBegin
<1>4. ASSUME NEW r \in Requests,
             OpenPeriod(r) \/ SubmitBegin(r) \/ CloseCheck(r) \/ CloseCommit(r) \/ Abandon(r)
      PROVE  UNCHANGED declarations
  BY <1>4 DEF OpenPeriod, SubmitBegin, CloseCheck, CloseCommit, Abandon
<1>5. ASSUME NextQuarter \/ UNCHANGED taxVars PROVE UNCHANGED declarations
  BY <1>5 DEF NextQuarter, taxVars
<1>6. QED
  BY <1>1, <1>2, <1>3, <1>4, <1>5, StepKinds

(* A declaration is never written again, also after an administrator has   *)
(* reopened its period (the unique period of tax_declarations).            *)
THEOREM DeclarationsAreFinal == TaxYearSpec => DeclarationFinal
<1> DEFINE Same == \A q \in Quarters : Declared(q) => declarations'[q] = declarations[q]
<1>1. ASSUME FiledInv, [TaxYearNext]_taxVars
      PROVE  Same
  <2>0. ASSUME UNCHANGED declarations PROVE Same
    BY <2>0
  <2>1. ASSUME NEW r \in Requests, SubmitCommit(r)
        PROVE  Same
    <3>1. PICK q \in Quarters : q = job[r].period
      BY <1>1, <2>1, ClosingEnds DEF FiledInv
    <3>2. \/ UNCHANGED declarations
          \/ ~Declared(q) /\ declarations' = [declarations EXCEPT ![q] = declarations'[q]]
      BY <1>1, <2>1, <3>1, ClosingEnds DEF FiledInv
    <3>3. QED
      BY <1>1, <3>2 DEF FiledInv, Shapes
  <2> HIDE DEF Same
  <2>2. QED
    BY <1>1, <2>0, <2>1, OnlySubmissionsDeclare DEF FiledInv
<1>2. QED
  BY <1>1, Filing, PTL DEF TaxYearSpec, DeclarationFinal

-----------------------------------------------------------------------------
(* A draft on its way has its period open, and a period that is being      *)
(* closed has nothing unfinished in it once that was checked.              *)
Prepared(r) ==
  /\ job[r].op = "draft" /\ job[r].date # None =>
       job[r].date.quarter \in Quarters /\ Opened(job[r].date.quarter)
  /\ job[r].op \in Closers /\ job[r].checked => Unfinished(job[r].period) = {}

Settled == NothingPending /\ \A r \in Requests : Prepared(r)

(* Only a draft that is written puts an unfinished invoice into a period:  *)
(* sending, answering, canceling and deleting one never does.              *)
LEMMA UnfinishedShrinks ==
  ASSUME Shapes, NEW r \in Requests, PaperStep(r), NEW q \in Quarters
  PROVE  \/ Unfinished(q)' \subseteq Unfinished(q)
         \/ job[r].op = "draft" /\ job[r].date # None /\ job[r].date.quarter = q
<1> DEFINE Open == {"DRAFT", "PENDING_ISSUED", "SYNC_FAILED"}
<1>0. ASSUME \A p \in Papers : papers'[p].status \in Open /\ papers'[p].date # None =>
               papers[p].status \in Open /\ papers'[p].date = papers[p].date
      PROVE  Unfinished(q)' \subseteq Unfinished(q)
  BY <1>0 DEF Unfinished, In, Papers
<1>1. ASSUME NEW status, NEW date, SetPaper(r, status, date),
             \/ status \notin Open \/ date = None
             \/ Row(r).status \in Open /\ date = Row(r).date
      PROVE  Unfinished(q)' \subseteq Unfinished(q)
  BY <1>0, <1>1 DEF SetPaper, Row, Shapes
<1>2. CASE DraftInvoice(r)
  <2>1. CASE job[r].date = None
    BY <1>1, <1>2, <2>1 DEF DraftInvoice
  <2>2. CASE job[r].date # None /\ job[r].date.quarter # q
    <3>1. papers' = [papers EXCEPT ![job[r].paper] = [status |-> "DRAFT", date |-> job[r].date]]
      BY <1>2 DEF DraftInvoice, SetPaper
    <3>2. QED
      BY <2>2, <3>1 DEF Unfinished, In, Papers, Shapes
  <2>3. QED
    BY <1>2, <2>1, <2>2 DEF DraftInvoice, Handles
<1>3. CASE CancelInvoice(r) \/ DropInvoice(r) \/ RevokeOutlay(r)
  BY <1>1, <1>3 DEF CancelInvoice, DropInvoice, RevokeOutlay
<1>4. CASE SendInvoice(r)
  <2>1. papers[job[r].paper].status \in Open
    BY <1>4 DEF SendInvoice, Handles, Required
  <2>2. papers' = [papers EXCEPT ![job[r].paper] =
          [papers[job[r].paper] EXCEPT !.status = "PENDING_ISSUED"]]
    BY <1>4 DEF SendInvoice
  <2>3. QED
    BY <1>0, <2>1, <2>2 DEF Shapes
<1>5. CASE AnswerInvoice(r)
  BY <1>1, <1>5 DEF AnswerInvoice
<1>6. CASE Spend(r) \/ AmendOutlay(r)
  BY <1>1, <1>6 DEF Spend, AmendOutlay
<1>7. QED
  BY <1>2, <1>3, <1>4, <1>5, <1>6 DEF PaperStep

(* With one request at a time a step that finishes an invoice, writes a    *)
(* draft or closes a period leaves nothing pending in a closed period.     *)
LEMMA StepSettled ==
  ASSUME Alone, Shapes, InCalendar, Settled, [TaxYearNext]_taxVars
  PROVE  Settled'
<1>0. ASSUME NEW r \in Requests, Prepared(r)', NothingPending'
      PROVE  Settled'
  BY <1>0 DEF Alone, Settled
<1>1. ASSUME NEW r \in Requests, UNCHANGED <<periods, papers>>, Prepared(r)'
      PROVE  Settled'
  <2>1. NothingPending'
    BY <1>1 DEF Settled, NothingPending, Unfinished, In, Closed
  <2>2. QED
    BY <1>0, <1>1, <2>1
<1>13. ASSUME NEW r \in Requests, NEW op \in PaperOps, NEW p \in Papers, Guard(r, op, p)
      PROVE  Settled'
  <2>1. PICK date \in PossibleDates(op) :
          LET q == CheckedQuarter(date) IN
          /\ q \in Quarters /\ (date = None \/ q = date.quarter)
          /\ \/ Opened(q) /\ job'[r] = Asked(op, p, date)
             \/ job'[r] = ToOpen(op, p, date)
    BY <1>13, GuardSteps
  <2>2. UNCHANGED <<periods, papers>> /\ job'[r].op \in PaperOps \cup {"opening"}
    BY <1>13, GuardSteps DEF Notes
  <2>3. job'[r].op \notin Closers
    BY <2>2 DEF PaperOps, Creations, Closers
  <2>4. job'[r].op = "draft" => job'[r] = Asked(op, p, date) /\ Opened(CheckedQuarter(date))
    BY <2>1 DEF ToOpen
  <2>5. job'[r].op = "draft" => job'[r].date = date
    BY <2>4 DEF Asked
  <2>6. Prepared(r)'
    BY <2>1, <2>2, <2>3, <2>4, <2>5 DEF Prepared, Opened
  <2>7. QED
    BY <1>1, <2>2, <2>6
<1>14. ASSUME NEW r \in Requests, OpenPeriod(r)
      PROVE  Settled'
  <2>1. PICK q \in Quarters :
          /\ q = job[r].quarter /\ periods'[q].status = "OPEN"
          /\ job[r].date = None \/ q = job[r].date.quarter
          /\ \/ UNCHANGED periods
             \/ periods' = [periods EXCEPT ![q] = NewPeriod]
    BY <1>14, Opens
  <2>2. /\ job'[r] = Asked(job[r].wanted, job[r].paper, job[r].date)
        /\ job'[r].op \in PaperOps /\ UNCHANGED papers
    BY <1>14, Opens
  <2>3. job'[r].date = job[r].date
    BY <2>2 DEF Asked
  <2>4. Prepared(r)'
    BY <2>1, <2>2, <2>3 DEF Prepared, Opened, PaperOps, Creations, Closers
  <2>5. \A e \in Quarters : Closed(e)' => Closed(e)
    BY <2>1 DEF Closed, Shapes, NewPeriod, NoPeriod
  <2>6. NothingPending'
    BY <2>2, <2>5 DEF Settled, NothingPending, Unfinished, In
  <2>7. QED
    BY <1>0, <2>4, <2>6
<1>2. ASSUME NEW r \in Requests, PaperStep(r)
      PROVE  Settled'
  <2>1. Prepared(r)'
    BY <1>2, PaperSteps DEF Prepared, Closers
  <2>2. ASSUME NEW q \in Quarters, Closed(q)
        PROVE  Unfinished(q)' = {}
    <3>1. ~(job[r].op = "draft" /\ job[r].date # None /\ job[r].date.quarter = q)
      BY <2>2 DEF Settled, Prepared, Opened, Closed
    <3>2. QED
      BY <1>2, <2>2, <3>1, UnfinishedShrinks DEF Settled, NothingPending
  <2>3. NothingPending'
    BY <1>2, <2>2, PaperSteps DEF NothingPending, Closed
  <2>4. QED
    BY <1>0, <2>1, <2>3
<1>3. ASSUME NEW r \in Requests, NEW q \in Quarters, RowStep(r, q)
      PROVE  Settled'
  <2>1. job'[r] = NoJob
    BY <1>3, RowSteps DEF RowStep, Reopen, PayTax, Override, MayAsk
  <2>2. Prepared(r)'
    BY <2>1 DEF Prepared, NoJob, Closers
  <2>3. \A e \in Quarters : Closed(e)' => Closed(e)
    BY <1>3, RowSteps DEF Alone, Closed
  <2>4. NothingPending'
    BY <1>3, <2>3, RowSteps DEF Settled, NothingPending, Unfinished, In
  <2>5. QED
    BY <1>0, <2>2, <2>4
<1>4. ASSUME UNCHANGED <<periods, papers, job>>
      PROVE  Settled'
  BY <1>4 DEF Settled, NothingPending, Prepared, Unfinished, In, Opened, Closed
<1>5. ASSUME NEW r \in Requests, NEW q \in Quarters, SessionStep(r, q)
      PROVE  Settled'
  BY <1>4, <1>5 DEF SessionStep, StartSession, SaveRevenue, SaveInventory, SaveExpense, SetDraft
<1>7. ASSUME NEW r \in Requests, NEW q \in Quarters, SubmitRead(r, q)
      PROVE  Settled'
  <2>1. Prepared(r)'
    BY <1>7, SubmissionReads DEF Prepared, Submissions, Closers
  <2>2. QED
    BY <1>1, <1>7, <2>1, SubmissionReads DEF Notes
<1>8. ASSUME NEW r \in Requests, (\E q \in Quarters : CloseBegin(r, q)) \/ SubmitBegin(r)
      PROVE  Settled'
  <2>1. Notes(r) /\ job'[r].op \in Closers /\ ~job'[r].checked
    BY <1>8, ClosingBegins
  <2>2. Prepared(r)'
    BY <2>1 DEF Prepared, Closers
  <2>3. QED
    BY <1>1, <2>1, <2>2 DEF Notes
<1>6. ASSUME NEW r \in Requests, CloseCheck(r)
      PROVE  Settled'
  <2>1. /\ Notes(r) /\ job'[r].op \in Closers /\ job'[r].period = job[r].period
        /\ Unfinished(job[r].period) = {}
    BY <1>6, ClosingChecks DEF Finalized
  <2>2. Prepared(r)'
    BY <2>1 DEF Notes, Prepared, Unfinished, In, Closers
  <2>3. QED
    BY <1>1, <2>1, <2>2 DEF Notes
<1>9. ASSUME NEW r \in Requests, CloseCommit(r) \/ SubmitCommit(r)
      PROVE  Settled'
  <2>1. PICK q \in Quarters : q = job[r].period
    BY <1>9, ClosingEnds
  <2>2. /\ Unfinished(q) = {} /\ UNCHANGED papers
        /\ \A e \in Quarters \ {q} : periods'[e] = periods[e]
    BY <1>9, <2>1, ClosingEnds, Booked DEF Settled, Prepared
  <2>3. NothingPending'
    BY <2>2 DEF Settled, NothingPending, Unfinished, In, Closed
  <2>4. Prepared(r)'
    <3>1. job'[r] = NoJob
      BY <1>9, ClosingEnds DEF Done, Shapes
    <3>2. QED
      BY <3>1 DEF NoJob, Prepared, Closers
  <2>5. QED
    BY <1>0, <2>3, <2>4
<1>10. ASSUME NEW r \in Requests, Abandon(r)
      PROVE  Settled'
  <2>1. Prepared(r)'
    BY <1>10 DEF Abandon, Done, NoJob, Prepared, Closers, Shapes
  <2>2. QED
    BY <1>1, <1>10, <2>1 DEF Abandon
<1>11. CASE NextQuarter \/ UNCHANGED taxVars
  BY <1>4, <1>11 DEF NextQuarter, taxVars
<1>15. QED
  BY <1>2, <1>3, <1>5, <1>6, <1>7, <1>8, <1>9, <1>10, <1>11, <1>13, <1>14, StepKinds

(* Periods exist up to the clock's, without a gap before it, and one that  *)
(* is being closed is open and, once that was checked, has no open period  *)
(* before it.                                                              *)
Existing ==
  \A q \in Quarters : /\ periods[q].status # "ABSENT" => q <= today
                      /\ q < today => periods[q].status # "ABSENT"

InOrder == \A q, e \in Quarters : Closed(q) /\ e < q => ~Opened(e)

FirstOpen(r) ==
  job[r].op \in Closers =>
    /\ Opened(job[r].period)
    /\ job[r].checked => \A e \in Quarters : e < job[r].period => ~Opened(e)

Ordered == InOrder /\ Existing /\ \A r \in Requests : FirstOpen(r)

(* Quarters are numbers, and those before a quarter are quarters.          *)
LEMMA QuartersBefore ==
  /\ NumQuarters \in Nat /\ Quarters \subseteq Nat /\ 1 \in Quarters
  /\ \A q \in Quarters : \A e : e \in 1 .. q - 1 <=> e \in Quarters /\ e < q
  /\ \A q \in Quarters : \A e : e \in q + 1 .. NumQuarters <=> e \in Quarters /\ q < e
BY PeriodsAssumption DEF PeriodsAssumption, Quarters

(* Periods closed in the order of the quarters are a prefix of them.       *)
LEMMA OrderIsPrefix == InOrder => ClosedIsPrefix
BY QuartersBefore DEF InOrder, ClosedIsPrefix

(* With one request at a time and prompt clients a step closes the         *)
(* earliest open period or reopens the latest closed one.                  *)
LEMMA StepOrdered ==
  ASSUME Alone, Prompt, Shapes, InCalendar, Ordered, [TaxYearNext]_taxVars
  PROVE  Ordered'
<1> USE QuartersBefore
<1>0. ASSUME NEW r \in Requests, InOrder', Existing', FirstOpen(r)'
      PROVE  Ordered'
  BY <1>0 DEF Alone, Ordered
<1>1. ASSUME NEW r \in Requests, OpenPeriod(r)
      PROVE  Ordered'
  <2>1. UNCHANGED today /\ job'[r].op \in PaperOps
    BY <1>1, Opens
  <2>2. FirstOpen(r)'
    BY <2>1 DEF FirstOpen, PaperOps, Creations, Closers
  <2>3. CASE UNCHANGED periods
    BY <1>0, <2>1, <2>2, <2>3 DEF Ordered, InOrder, Existing, Opened, Closed
  <2>4. ASSUME NEW q \in Quarters, q <= today,
               periods[q].status = "ABSENT", periods' = [periods EXCEPT ![q] = NewPeriod]
        PROVE  Ordered'
    <3>1. q = today
      BY <2>4 DEF Ordered, Existing, Shapes
    <3>2. periods'[q].status = "OPEN" /\ \A e \in Quarters \ {q} : periods'[e] = periods[e]
      BY <2>4 DEF Shapes, NewPeriod, NoPeriod
    <3>3. \A e \in Quarters : Closed(e) => e < q
      BY <2>4, <3>1 DEF Ordered, Existing, Shapes, Closed
    <3>4. ASSUME NEW x \in Quarters, NEW e \in Quarters, Closed(x)', e < x
          PROVE  ~Opened(e)'
      <4>1. x # q /\ Closed(x)
        BY <3>2, <3>4 DEF Closed
      <4>2. x < q /\ x \in Nat /\ q \in Nat /\ e \in Nat
        BY <3>3, <4>1
      <4>3. e # q
        BY <3>4, <4>2
      <4>4. QED
        BY <3>2, <3>4, <4>1, <4>3 DEF Ordered, InOrder, Opened
    <3>5. Existing'
      BY <2>1, <3>1, <3>2 DEF Ordered, Existing, Shapes
    <3>6. InOrder'
      BY <3>4 DEF InOrder
    <3>7. QED
      BY <1>0, <2>2, <3>5, <3>6
  <2>5. QED
    BY <1>1, <2>3, <2>4, Opens
<1>2. ASSUME NEW r \in Requests, UNCHANGED <<periods, today>>, FirstOpen(r)'
      PROVE  Ordered'
  BY <1>0, <1>2 DEF Ordered, InOrder, Existing, Opened, Closed
<1>14. ASSUME NEW r \in Requests, NEW op \in PaperOps, NEW p \in Papers, Guard(r, op, p)
      PROVE  Ordered'
  <2>1. UNCHANGED <<periods, today>>
    BY <1>14 DEF Guard
  <2>2. FirstOpen(r)'
    BY <1>14, GuardSteps DEF FirstOpen, PaperOps, Creations, Closers
  <2>3. QED
    BY <1>2, <2>1, <2>2
<1>3. ASSUME NEW r \in Requests, PaperStep(r)
      PROVE  Ordered'
  <2>1. FirstOpen(r)'
    BY <1>3, PaperSteps DEF FirstOpen, Closers
  <2>2. QED
    BY <1>2, <1>3, <2>1, PaperSteps
<1>4. ASSUME NEW r \in Requests, NEW q \in Quarters, RowStep(r, q)
      PROVE  Ordered'
  <2>1. FirstOpen(r)'
    <3>1. job'[r] = NoJob
      BY <1>4, RowSteps DEF RowStep, Reopen, PayTax, Override, MayAsk
    <3>2. QED
      BY <3>1 DEF FirstOpen, NoJob, Closers
  <2>2. /\ UNCHANGED today
        /\ \A e \in Quarters \ {q} : periods'[e] = periods[e]
        /\ Closed(q)
    BY <1>4, RowSteps DEF Alone
  <2>3. \/ Opened(q)' /\ ~\E e \in q + 1 .. NumQuarters : Closed(e)
        \/ Closed(q)'
    BY <1>4, RowSteps DEF Alone
  <2>4. InOrder'
    BY <2>2, <2>3, QuartersBefore DEF Ordered, InOrder, Opened, Closed
  <2>5. Existing'
    BY <2>2, <2>3 DEF Ordered, Existing, Opened, Closed, Shapes
  <2>6. QED
    BY <1>0, <2>1, <2>4, <2>5
<1>5. ASSUME UNCHANGED <<periods, today, job>>
      PROVE  Ordered'
  BY <1>5 DEF Ordered, InOrder, Existing, FirstOpen, Opened, Closed
<1>6. ASSUME NEW r \in Requests, NEW q \in Quarters, SessionStep(r, q)
      PROVE  Ordered'
  BY <1>5, <1>6 DEF SessionStep, StartSession, SaveRevenue, SaveInventory, SaveExpense, SetDraft
<1>7. ASSUME NEW r \in Requests, NEW q \in Quarters, SubmitRead(r, q)
      PROVE  Ordered'
  <2>1. FirstOpen(r)'
    BY <1>7, SubmissionReads DEF FirstOpen, Submissions, Closers
  <2>2. QED
    BY <1>2, <1>7, <2>1 DEF SubmitRead
<1>8. ASSUME NEW r \in Requests, (\E q \in Quarters : CloseBegin(r, q)) \/ SubmitBegin(r)
      PROVE  Ordered'
  <2>1. UNCHANGED <<periods, today>>
    BY <1>8 DEF CloseBegin, SubmitBegin
  <2>2. FirstOpen(r)'
    BY <1>8, <2>1, ClosingBegins DEF FirstOpen, Opened
  <2>3. QED
    BY <1>2, <2>1, <2>2
<1>15. ASSUME NEW r \in Requests, CloseCheck(r)
      PROVE  Ordered'
  <2>1. UNCHANGED <<periods, today>>
    BY <1>15 DEF CloseCheck
  <2>2. /\ job[r].op \in Closers /\ job'[r].period = job[r].period
        /\ job[r].period \in Quarters /\ ~\E e \in 1 .. job[r].period - 1 : Opened(e)
    BY <1>15, ClosingChecks
  <2>3. FirstOpen(r)'
    BY <2>1, <2>2, QuartersBefore DEF Ordered, FirstOpen, Opened
  <2>4. QED
    BY <1>2, <2>1, <2>3
<1>9. ASSUME NEW r \in Requests, CloseCommit(r) \/ SubmitCommit(r)
      PROVE  Ordered'
  <2>1. PICK q \in Quarters : q = job[r].period
    BY <1>9, ClosingEnds
  <2>2. /\ \A e \in Quarters : e < q => ~Opened(e)
        /\ Opened(q) /\ Closed(q)'
        /\ \A e \in Quarters \ {q} : periods'[e] = periods[e]
    BY <1>9, <2>1, ClosingEnds, Booked DEF Ordered, FirstOpen
  <2>3. UNCHANGED today
    BY <1>9 DEF CloseCommit, SubmitCommit
  <2>4. InOrder'
    BY <2>2 DEF Ordered, InOrder, Opened, Closed
  <2>5. Existing'
    BY <2>2, <2>3 DEF Ordered, Existing, Opened, Closed, Shapes
  <2>6. FirstOpen(r)'
    <3>1. job'[r] = NoJob
      BY <1>9, ClosingEnds DEF Done, Shapes
    <3>2. QED
      BY <3>1 DEF FirstOpen, NoJob, Closers
  <2>7. QED
    BY <1>0, <2>4, <2>5, <2>6
<1>10. ASSUME NEW r \in Requests, Abandon(r)
      PROVE  Ordered'
  <2>1. job'[r] = NoJob /\ UNCHANGED <<periods, today>>
    BY <1>10 DEF Abandon, Done, Shapes
  <2>2. FirstOpen(r)'
    BY <2>1 DEF FirstOpen, NoJob, Closers
  <2>3. QED
    BY <1>2, <2>1, <2>2
<1>11. CASE NextQuarter
  <2>1. /\ today' = today + 1 /\ periods[today].status # "ABSENT"
        /\ UNCHANGED <<periods, job>>
    BY <1>11 DEF NextQuarter
  <2>2. today \in Nat /\ Existing
    BY DEF Shapes, Ordered
  <2>3. \A q \in Quarters : q \in Nat
    OBVIOUS
  <2>4. Existing'
    BY <2>1, <2>2, <2>3 DEF Existing
  <2>5. QED
    BY <2>1, <2>4 DEF Ordered, InOrder, FirstOpen, Opened, Closed
<1>12. CASE UNCHANGED taxVars
  BY <1>5, <1>12 DEF taxVars
<1>16. QED
  BY <1>1, <1>3, <1>4, <1>6, <1>7, <1>8, <1>9, <1>10, <1>11, <1>12, <1>14, <1>15, StepKinds

(* Requests one at a time leave nothing unfinished in a closed period: no  *)
(* invoice in it can still be issued (validatePendingInvoices and the      *)
(* guard).                                                                 *)
THEOREM NothingStaysPending == Alone => (TaxYearSpec => []NothingPending)
<1> SUFFICES ASSUME Alone PROVE TaxYearSpec => []NothingPending
  OBVIOUS
<1>1. TaxYearInit => Settled
  <2> SUFFICES ASSUME TaxYearInit PROVE Settled
    OBVIOUS
  <2>1. NothingPending
    BY DEF TaxYearInit, NothingPending, Closed, NewPeriod, NoPeriod
  <2>2. \A r \in Requests : Prepared(r)
    BY DEF TaxYearInit, Prepared, NoJob, Closers
  <2>3. QED
    BY <2>1, <2>2 DEF Settled
<1>2. FiledInv /\ Settled /\ [TaxYearNext]_taxVars => Settled'
  BY StepSettled DEF FiledInv
<1>3. Settled => NothingPending
  BY DEF Settled
<1>4. QED
  BY <1>1, <1>2, <1>3, Filing, PTL DEF TaxYearSpec

(* Requests one at a time close the books in order and open them in the    *)
(* reverse order, when no quarter is skipped and nothing is dated into the *)
(* future (closeFinancialPeriod, openFinancialPeriod, PeriodLockGuard).    *)
THEOREM BooksCloseInOrder == Alone /\ Prompt => (TaxYearSpec => []ClosedIsPrefix)
<1> SUFFICES ASSUME Alone, Prompt PROVE TaxYearSpec => []ClosedIsPrefix
  OBVIOUS
<1>1. TaxYearInit => Ordered
  <2> SUFFICES ASSUME TaxYearInit PROVE Ordered
    OBVIOUS
  <2>1. \A q \in Quarters : ~Closed(q)
    BY DEF TaxYearInit, Closed, NewPeriod, NoPeriod
  <2>2. Existing
    BY QuartersBefore DEF TaxYearInit, Existing, NewPeriod, NoPeriod
  <2>3. \A r \in Requests : FirstOpen(r)
    BY DEF TaxYearInit, FirstOpen, NoJob, Closers
  <2>4. QED
    BY <2>1, <2>2, <2>3 DEF Ordered, InOrder
<1>2. FiledInv /\ Ordered /\ [TaxYearNext]_taxVars => Ordered'
  BY StepOrdered DEF FiledInv
<1>3. Ordered => ClosedIsPrefix
  BY OrderIsPrefix DEF Ordered
<1>4. QED
  BY <1>1, <1>2, <1>3, Filing, PTL DEF TaxYearSpec

-----------------------------------------------------------------------------
(* The rates of the configuration of a quarter are those the tax functions *)
(* take, whatever method is chosen.                                        *)
LEMMA ConfigRates ==
  ASSUME NEW q \in Quarters, NEW method \in Methods
  PROVE  Rates(ConfigAt(q, method))
BY PeriodsAssumption DEF PeriodsAssumption, ConfigAt, Rates

(* The documents and the quarters are finitely many, and those summed are  *)
(* among them.                                                             *)
LEMMA FiniteTables ==
  /\ IsFiniteSet(Quarters)
  /\ \A S \in SUBSET Quarters : IsFiniteSet(S)
  /\ \A S \in SUBSET Papers : IsFiniteSet(S)
<1>1. IsFiniteSet(Quarters)
  BY FS_Interval, PeriodsAssumption DEF PeriodsAssumption, Quarters
<1>2. QED
  BY <1>1, FS_Subset, PeriodsAssumption DEF PeriodsAssumption

(* The sums of a period are natural numbers. *)
LEMMA SumsAreNatural ==
  ASSUME NEW q
  PROVE  Revenue(q) \in Nat /\ Expense(q) \in Nat
<1> DEFINE issued == {p \in Sales : papers[p].status = "ISSUED" /\ In(p, q)}
           spent  == {p \in Outlays : papers[p].status = "ACTIVE" /\ In(p, q)}
<1>1. IsFiniteSet(issued) /\ IsFiniteSet(spent)
  BY FiniteTables DEF Papers
<1>2. \A p \in Papers : Amount[p] \in Nat
  BY PeriodsAssumption DEF PeriodsAssumption
<1>3. (\A p \in issued : Amount[p] \in Nat) /\ (\A p \in spent : Amount[p] \in Nat)
  BY <1>2 DEF Papers
<1>4. Revenue(q) = SumFunctionOnSet(Amount, issued) /\ Expense(q) = SumFunctionOnSet(Amount, spent)
  BY DEF Revenue, Expense
<1> HIDE DEF issued, spent
<1>5. QED
  BY <1>1, <1>3, <1>4, SumNat

(* The earlier closed periods of the year are quarters before this one,    *)
(* and the most recent declared one is among them.                         *)
LEMMA EarlierQuarters ==
  ASSUME NEW q \in Quarters
  PROVE  /\ EarlierClosed(q) \in SUBSET Quarters /\ IsFiniteSet(EarlierClosed(q))
         /\ \A S \in SUBSET EarlierClosed(q) : S # {} =>
              Max(S) \in S /\ \A e \in S : e <= Max(S)
<1>1. EarlierClosed(q) \in SUBSET (1 .. q - 1) /\ EarlierClosed(q) \in SUBSET Quarters
  BY QuartersBefore DEF EarlierClosed
<1>2. q - 1 \in Nat
  BY PeriodsAssumption DEF PeriodsAssumption, Quarters
<1>3. QED
  BY <1>1, <1>2, FiniteTables, GreatestMember

(* The year before a period has a natural revenue and a natural expense.   *)
LEMMA BeforeIsNatural ==
  ASSUME TaxYearTypeOK, NEW q \in Quarters
  PROVE  BeforePeriod(q).revenue \in Nat /\ BeforePeriod(q).expense \in Nat
<1> DEFINE filed == {e \in EarlierClosed(q) : Declared(e)}
<1>1. CASE filed = {}
  BY <1>1 DEF BeforePeriod
<1>2. CASE filed # {}
  <2>1. Max(filed) \in filed
    BY <1>2, EarlierQuarters
  <2>2. Max(filed) \in Quarters /\ declarations[Max(filed)] # None
    BY <2>1, EarlierQuarters DEF Declared
  <2>3. declarations[Max(filed)] \in DeclarationRow
    BY <2>2 DEF TaxYearTypeOK
  <2>4. BeforePeriod(q) = [revenue |-> declarations[Max(filed)].ytdRevenue,
                           expense |-> declarations[Max(filed)].ytdExpense]
    BY <1>2 DEF BeforePeriod
  <2>5. QED
    BY <2>3, <2>4 DEF DeclarationRow
<1>3. QED
  BY <1>1, <1>2

(* The taxes of a period are natural numbers: nothing is ever refunded.    *)
LEMMA TaxesAreNatural ==
  ASSUME TaxYearTypeOK, NEW q \in Quarters, NEW method \in Methods,
         NEW revenue \in Nat, NEW expense \in Nat
  PROVE  /\ TaxOf(q, method, revenue, expense).vat \in Nat
         /\ TaxOf(q, method, revenue, expense).pit \in Nat
         /\ TaxOf(q, method, revenue, expense).tax \in Nat
<1> DEFINE config == ConfigAt(q, method)
           vats == [e \in Quarters |-> periods[e].vat]
           pits == [e \in Quarters |-> periods[e].pit]
           ytd == YtdRevenue(q, revenue)
<1>1. Rates(config)
  BY ConfigRates
<1>2. ytd \in Nat
  BY BeforeIsNatural DEF YtdRevenue
<1>3. SumFunctionOnSet(vats, EarlierClosed(q)) \in Nat
  <2>1. \A e \in EarlierClosed(q) : vats[e] \in Nat
    BY EarlierQuarters DEF TaxYearTypeOK, PeriodRow
  <2> HIDE DEF vats
  <2>2. QED
    BY <2>1, EarlierQuarters, SumNat
<1>4. SumFunctionOnSet(pits, EarlierClosed(q)) \in Nat
  <2>1. \A e \in EarlierClosed(q) : pits[e] \in Nat
    BY EarlierQuarters DEF TaxYearTypeOK, PeriodRow
  <2> HIDE DEF pits
  <2>2. QED
    BY <2>1, EarlierQuarters, SumNat
<1>5. /\ YtdVat(q, revenue, config)
           = Deduct(SumFunctionOnSet(vats, EarlierClosed(q)), VatAmount(ytd, config))
      /\ YtdPit(q, revenue, config)
           = Deduct(SumFunctionOnSet(pits, EarlierClosed(q)), PitByPercentage(ytd, config))
  BY DEF YtdVat, YtdPit
<1>6. TaxOf(q, method, revenue, expense)
        = IF TakesPercentage(config)
          THEN [vat |-> YtdVat(q, revenue, config), pit |-> YtdPit(q, revenue, config),
                tax |-> YtdVat(q, revenue, config) + YtdPit(q, revenue, config)]
          ELSE [vat |-> VatAmount(revenue, config), pit |-> PitByProfit(revenue, expense, config),
                tax |-> TotalTaxDue(revenue, expense, config)]
  BY DEF TaxOf
<1> HIDE DEF config, vats, pits, ytd
<1>7. /\ VatAmount(ytd, config) \in Nat /\ PitByPercentage(ytd, config) \in Nat
      /\ VatAmount(revenue, config) \in Nat /\ PitByPercentage(revenue, config) \in Nat
      /\ PitByProfit(revenue, expense, config) \in Nat
  <2>1. ytd <= ytd /\ revenue <= revenue
    BY <1>2
  <2>2. VatAmount(ytd, config) \in Nat /\ VatAmount(revenue, config) \in Nat
    BY <1>1, <1>2, <2>1, VatGrows
  <2>3. PitByPercentage(ytd, config) \in Nat /\ PitByPercentage(revenue, config) \in Nat
    BY <1>1, <1>2, <2>1, PercentageGrows
  <2>4. PitByProfit(revenue, expense, config) \in Nat
    BY <1>1, <2>1, ProfitTaxGrows
  <2>5. QED
    BY <2>2, <2>3, <2>4
<1>8. \A charged, owed \in Nat : Deduct(charged, owed) \in Nat
  BY DEF Deduct, AtLeastZero
<1>9. YtdVat(q, revenue, config) \in Nat /\ YtdPit(q, revenue, config) \in Nat
  BY <1>3, <1>4, <1>5, <1>7, <1>8
<1>10. TotalTaxDue(revenue, expense, config) \in Nat
  BY <1>7 DEF TotalTaxDue
<1>11. CASE TakesPercentage(config)
  BY <1>6, <1>9, <1>11
<1>12. CASE ~TakesPercentage(config)
  BY <1>6, <1>7, <1>10, <1>12
<1>13. QED
  BY <1>11, <1>12

(* What a request carries: a document handler its document and a date, a   *)
(* submission and a close its period, the figures and a method.            *)
JobOK(r) ==
  /\ job[r].op \in PaperOps \cup {"sent"} =>
       job[r].paper \in Papers /\ job[r].date \in Dates \cup {None}
  /\ job[r].op \in {"draft", "spend"} => job[r].date \in Dates
  /\ job[r].op = "opening" =>
       /\ job[r].wanted \in PaperOps
       /\ job[r].paper \in Papers /\ job[r].date \in Dates \cup {None}
       /\ job[r].wanted \in {"draft", "spend"} => job[r].date \in Dates
  /\ job[r].op \in Submissions \cup Closers =>
       /\ job[r].period \in Quarters
       /\ job[r].chosen \in Methods \cup {None}
       /\ job[r].figures \in Figures \cup {None}
  /\ job[r].op \in Submissions \cup (Closers \ {"closing"}) =>
       job[r].chosen # None /\ job[r].figures \in Figures
  /\ job[r].op \in Closers =>
       /\ job[r].method \in Methods
       /\ job[r].chosen # None => job[r].method = job[r].chosen

TypingInv == TaxYearTypeOK /\ \A r \in Requests : JobOK(r)

(* The method a group begins with is one. *)
LEMMA DefaultIsMethod == \A g \in Groups : DefaultMethod[g] \in Methods
BY DEF Groups, DefaultMethod, Methods, ProfitMethods

(* The setup types its rows. *)
LEMMA InitTyping == TaxYearInit => TypingInv
<1> SUFFICES ASSUME TaxYearInit PROVE TypingInv
  OBVIOUS
<1>1. NewPeriod \in PeriodRow /\ NoPeriod \in PeriodRow
  BY DEF NewPeriod, NoPeriod, PeriodRow
<1>2. methods \in [DOMAIN Configs -> Methods]
  BY DefaultIsMethod, PeriodsAssumption DEF PeriodsAssumption, TaxYearInit
<1>3. NoDraft \in DraftRow
  BY DEF NoDraft, DraftRow
<1>4. NoPaper \in [status : PaperStatus, date : Dates \cup {None}]
  BY DEF NoPaper, PaperStatus
<1>5. today \in Quarters
  BY QuartersBefore DEF TaxYearInit
<1>6. TaxYearTypeOK
  BY <1>1, <1>2, <1>3, <1>4, <1>5 DEF TaxYearInit, TaxYearTypeOK
<1>7. \A r \in Requests : JobOK(r)
  BY DEF TaxYearInit, NoJob, JobOK, PaperOps, Creations, Submissions, Closers
<1>8. QED
  BY <1>2, <1>6, <1>7 DEF TypingInv

(* A step of one request leaves what the others carry.                     *)
LEMMA OthersTyped ==
  ASSUME TypingInv, Shapes, NEW r \in Requests, job' = [job EXCEPT ![r] = job'[r]],
         JobOK(r)', TaxYearTypeOK'
  PROVE  TypingInv'
<1>1. \A s \in Requests \ {r} : job'[s] = job[s]
  BY DEF Shapes
<1>2. \A s \in Requests \ {r} : JobOK(s)'
  BY <1>1 DEF TypingInv, JobOK
<1>3. QED
  BY <1>2 DEF TypingInv

(* A request that is done, or only carries on, is typed.                   *)
LEMMA DoneIsTyped ==
  ASSUME Shapes, NEW r \in Requests, Done(r)
  PROVE  JobOK(r)' /\ job' = [job EXCEPT ![r] = job'[r]]
<1>1. job'[r] = NoJob /\ job' = [job EXCEPT ![r] = job'[r]]
  BY DEF Done, Shapes
<1>2. QED
  BY <1>1 DEF NoJob, JobOK, PaperOps, Creations, Submissions, Closers

(* The documents keep their type. *)
LEMMA PapersTyped ==
  ASSUME TypingInv, Shapes, NEW r \in Requests, PaperStep(r)
  PROVE  TypingInv'
<1> DEFINE PaperRow == [status : PaperStatus, date : Dates \cup {None}]
<1>1. ASSUME NEW status \in PaperStatus, NEW date \in Dates \cup {None}, SetPaper(r, status, date),
             job[r].paper \in Papers
      PROVE  TypingInv'
  <2>1. papers' = [papers EXCEPT ![job[r].paper] = [status |-> status, date |-> date]]
    BY <1>1 DEF SetPaper
  <2>2. papers' \in [Papers -> PaperRow]
    BY <1>1, <2>1 DEF TypingInv, TaxYearTypeOK
  <2>3. TaxYearTypeOK'
    BY <1>1, <2>2 DEF SetPaper, TypingInv, TaxYearTypeOK
  <2>4. QED
    BY <1>1, <2>3, DoneIsTyped, OthersTyped DEF SetPaper
<1>2. job[r].op \in PaperOps \cup {"sent"} => job[r].paper \in Papers /\ job[r].date \in Dates \cup {None}
  BY DEF TypingInv, JobOK
<1>3. CASE DraftInvoice(r) \/ Spend(r)
  BY <1>1, <1>2, <1>3 DEF DraftInvoice, Spend, Handles, PaperOps, Creations, PaperStatus
<1>4. CASE CancelInvoice(r) \/ DropInvoice(r) \/ RevokeOutlay(r)
  BY <1>1, <1>2, <1>4 DEF CancelInvoice, DropInvoice, RevokeOutlay, Handles, PaperOps, PaperStatus
<1>5. CASE AnswerInvoice(r)
  <2>1. job[r].paper \in Papers
    BY <1>2, <1>5 DEF AnswerInvoice
  <2>2. Row(r).date \in Dates \cup {None}
    BY <2>1 DEF Row, TypingInv, TaxYearTypeOK
  <2>3. QED
    BY <1>1, <1>5, <2>1, <2>2 DEF AnswerInvoice, PaperStatus
<1>6. CASE AmendOutlay(r)
  <2>1. job[r].paper \in Papers /\ job[r].date \in Dates \cup {None}
    BY <1>2, <1>6 DEF AmendOutlay, Handles, PaperOps
  <2>2. Row(r).date \in Dates \cup {None}
    BY <2>1 DEF Row, TypingInv, TaxYearTypeOK
  <2>3. QED
    BY <1>1, <1>6, <2>1, <2>2 DEF AmendOutlay, PaperStatus
<1>7. CASE SendInvoice(r)
  <2>1. job[r].op = "send" /\ job[r].paper \in Papers /\ job[r].date \in Dates \cup {None}
    BY <1>2, <1>7 DEF SendInvoice, Handles, PaperOps
  <2>2. papers' = [papers EXCEPT ![job[r].paper] =
          [papers[job[r].paper] EXCEPT !.status = "PENDING_ISSUED"]]
    BY <1>7 DEF SendInvoice
  <2>3. papers' \in [Papers -> PaperRow]
    BY <2>1, <2>2 DEF TypingInv, TaxYearTypeOK, PaperStatus
  <2>4. job' = [job EXCEPT ![r] = [job[r] EXCEPT !.op = "sent"]]
    BY <1>7 DEF SendInvoice
  <2>5. job'[r] = [job[r] EXCEPT !.op = "sent"]
    BY <2>4 DEF Shapes
  <2>6. job'[r].op = "sent" /\ job'[r].paper = job[r].paper /\ job'[r].date = job[r].date
    BY <2>5 DEF Shapes
  <2>7. JobOK(r)'
    BY <2>1, <2>6 DEF JobOK, Submissions, Closers
  <2>8. TaxYearTypeOK'
    BY <1>7, <2>3 DEF SendInvoice, TypingInv, TaxYearTypeOK
  <2>9. QED
    BY <2>4, <2>5, <2>7, <2>8, OthersTyped
<1>8. QED
  BY <1>3, <1>4, <1>5, <1>6, <1>7 DEF PaperStep

(* The work of a close or a submission that begins is typed. *)
LEMMA ClosingTyped ==
  ASSUME TypingInv, Shapes, NEW r \in Requests,
         (\E q \in Quarters : CloseBegin(r, q)) \/ SubmitBegin(r)
  PROVE  JobOK(r)' /\ job' = [job EXCEPT ![r] = job'[r]]
<1>1. ASSUME NEW q \in Quarters, NEW op \in Closers, NEW figures \in Figures \cup {None},
             NEW chosen \in Methods \cup {None},
             op # "closing" => chosen # None /\ figures \in Figures,
             job' = [job EXCEPT ![r] = Closing(op, q, figures, chosen)]
      PROVE  JobOK(r)' /\ job' = [job EXCEPT ![r] = job'[r]]
  <2>1. job'[r] = Closing(op, q, figures, chosen)
    BY <1>1 DEF Shapes
  <2>2. /\ job'[r].op = op /\ job'[r].period = q /\ job'[r].chosen = chosen
        /\ job'[r].figures = figures
        /\ job'[r].method = IF chosen = None THEN methods[ConfigOf[q]] ELSE chosen
    BY <2>1 DEF Closing
  <2>3. methods[ConfigOf[q]] \in Methods
    BY PeriodsAssumption DEF PeriodsAssumption, TypingInv, TaxYearTypeOK
  <2>4. job'[r].method \in Methods /\ (chosen # None => job'[r].method = chosen)
    BY <1>1, <2>2, <2>3
  <2>5. op \notin PaperOps \cup {"sent", "opening"} \cup Submissions
    BY <1>1 DEF Closers, PaperOps, Creations, Submissions
  <2>6. JobOK(r)'
    BY <1>1, <2>2, <2>4, <2>5 DEF JobOK, PaperOps, Creations
  <2>7. QED
    BY <1>1, <2>1, <2>6
<1>2. ASSUME NEW q \in Quarters, CloseBegin(r, q)
      PROVE  JobOK(r)' /\ job' = [job EXCEPT ![r] = job'[r]]
  <2>1. PICK chosen \in Picks \cup {None}, figures \in Claims \cup {None} :
          job' = [job EXCEPT ![r] = Closing("closing", q, figures, chosen)]
    BY <1>2 DEF CloseBegin
  <2>2. /\ figures \in Figures \cup {None} /\ chosen \in Methods \cup {None}
        /\ "closing" \in Closers
    BY PeriodsAssumption DEF PeriodsAssumption, Closers
  <2>3. QED
    BY <1>1, <2>1, <2>2
<1>3. CASE SubmitBegin(r)
  <2> DEFINE op == IF job[r].op = "submit ignore" THEN "filing ignored" ELSE "filing"
  <2>1. op \in Closers /\ op # "closing" /\ job[r].op \in Submissions
    BY <1>3 DEF SubmitBegin, Closers, Submissions
  <2>2. /\ job[r].period \in Quarters /\ job[r].figures \in Figures /\ job[r].chosen # None
        /\ job[r].chosen \in Methods \cup {None}
    BY <2>1 DEF TypingInv, JobOK
  <2>3. job' = [job EXCEPT ![r] = Closing(op, job[r].period, job[r].figures, job[r].chosen)]
    BY <1>3 DEF SubmitBegin
  <2> HIDE DEF op
  <2>4. QED
    BY <1>1, <2>1, <2>2, <2>3
<1>4. QED
  BY <1>2, <1>3

(* What a submission reads is typed: it needs a draft that is filled.      *)
LEMMA SubmissionTyped ==
  ASSUME TypingInv, Shapes, NEW r \in Requests, NEW q \in Quarters, SubmitRead(r, q)
  PROVE  JobOK(r)' /\ job' = [job EXCEPT ![r] = job'[r]]
<1>1. PICK op \in Submissions, method \in Picks :
        /\ MayDeclare(op, q)
        /\ job' = [job EXCEPT ![r] = [op |-> op, period |-> q, chosen |-> method,
                                      figures |-> DeclaredFigures(op, q)]]
  BY DEF SubmitRead, Submissions
<1>2. RealtimeTaxData(q) \in Figures
  BY SumsAreNatural DEF RealtimeTaxData, Figures
<1>3. Filled(drafts[q]) => FiguresIn(drafts[q]) \in Figures
  BY DEF Filled, FiguresIn, Figures, TypingInv, TaxYearTypeOK, DraftRow
<1>4. DeclaredFigures(op, q) \in Figures
  BY <1>1, <1>2, <1>3 DEF DeclaredFigures, MayDeclare, Submissions
<1>5. job'[r] = [op |-> op, period |-> q, chosen |-> method, figures |-> DeclaredFigures(op, q)]
  BY <1>1 DEF Shapes
<1>6. method \in Methods /\ method # None
  BY PeriodsAssumption DEF PeriodsAssumption
<1>7. op \notin PaperOps \cup {"sent", "opening"} \cup Closers
  BY DEF PaperOps, Creations, Submissions, Closers
<1>8. JobOK(r)'
  BY <1>1, <1>4, <1>5, <1>6, <1>7 DEF JobOK, PaperOps, Creations
<1>9. QED
  BY <1>1, <1>5, <1>8

(* What a close books is typed. *)
LEMMA BookedTyped ==
  ASSUME TypingInv, Shapes, InCalendar, NEW r \in Requests, CloseCommit(r) \/ SubmitCommit(r)
  PROVE  /\ periods' \in [Quarters -> PeriodRow]
         /\ methods' \in [DOMAIN Configs -> Methods]
         /\ TaxIn(r).vat \in Nat /\ TaxIn(r).pit \in Nat /\ TaxIn(r).tax \in Nat
<1> DEFINE q == job[r].period
<1>1. /\ job[r].op \in Closers /\ q \in Quarters /\ BookPeriod(r)
      /\ job[r].method \in Methods /\ job[r].chosen \in Methods \cup {None}
      /\ job[r].figures \in Figures \cup {None}
  BY ClosingEnds DEF TypingInv, JobOK
<1>2. FiguresOf(r) \in Figures
  BY <1>1, SumsAreNatural DEF FiguresOf, RealtimeTaxData, Figures
<1>3. FiguresOf(r).revenue \in Nat /\ FiguresOf(r).expense \in Nat
  BY <1>2 DEF Figures
<1>5. TaxIn(r).vat \in Nat /\ TaxIn(r).pit \in Nat /\ TaxIn(r).tax \in Nat
  BY <1>1, <1>3, TaxesAreNatural DEF TypingInv, TaxIn
<1>6. periods' \in [Quarters -> PeriodRow]
  <2>1. periods[q] \in PeriodRow /\ periods \in [Quarters -> PeriodRow]
    BY <1>1 DEF TypingInv, TaxYearTypeOK
  <2>2. [periods[q] EXCEPT !.status = "CLOSED", !.vat = TaxIn(r).vat, !.pit = TaxIn(r).pit,
                           !.tax = TaxIn(r).tax] \in PeriodRow
    BY <1>5, <2>1 DEF PeriodRow
  <2>3. periods' = [periods EXCEPT ![q] =
          [periods[q] EXCEPT !.status = "CLOSED", !.vat = TaxIn(r).vat, !.pit = TaxIn(r).pit,
                             !.tax = TaxIn(r).tax]]
    BY <1>1 DEF BookPeriod
  <2> HIDE DEF q
  <2>4. QED
    BY <2>1, <2>2, <2>3
<1>7. methods' \in [DOMAIN Configs -> Methods]
  <2>1. CASE job[r].chosen = None
    BY <1>1, <2>1 DEF BookPeriod, TypingInv, TaxYearTypeOK
  <2>2. CASE job[r].chosen # None
    <3>1. methods' = [methods EXCEPT ![ConfigOf[q]] = job[r].chosen]
      BY <1>1, <2>2 DEF BookPeriod
    <3>2. QED
      BY <1>1, <2>2, <3>1 DEF TypingInv, TaxYearTypeOK
  <2>3. QED
    BY <2>1, <2>2
<1>8. QED
  BY <1>5, <1>6, <1>7

(* Every step keeps the rows typed. *)
LEMMA StepTyping ==
  ASSUME TypingInv, Shapes, InCalendar, [TaxYearNext]_taxVars
  PROVE  TypingInv'
<1>0. ASSUME NEW r \in Requests, JobOK(r)', job' = [job EXCEPT ![r] = job'[r]],
             UNCHANGED <<periods, methods, papers, declarations, drafts, today, overridden, contested>>
      PROVE  TypingInv'
  <2>1. TaxYearTypeOK'
    BY <1>0 DEF TypingInv, TaxYearTypeOK
  <2>2. QED
    BY <1>0, <2>1, OthersTyped
<1>1. ASSUME NEW r \in Requests, NEW op \in PaperOps, NEW p \in Papers, Guard(r, op, p)
      PROVE  TypingInv'
  <2>1. PICK date \in PossibleDates(op) :
          job'[r] = Asked(op, p, date) \/ job'[r] = ToOpen(op, p, date)
    BY <1>1, GuardSteps
  <2>2. date \in Dates \cup {None} /\ (op \in {"draft", "spend"} => date \in Dates)
    BY DEF PossibleDates, Creations
  <2>3. op \notin Submissions \cup Closers \cup {"opening"}
        /\ "opening" \notin PaperOps \cup Submissions \cup Closers
    BY DEF PaperOps, Creations, Submissions, Closers
  <2>4. CASE job'[r] = Asked(op, p, date)
    <3>1. job'[r].op = op /\ job'[r].paper = p /\ job'[r].date = date
      BY <2>4 DEF Asked
    <3>2. JobOK(r)'
      BY <2>2, <2>3, <3>1 DEF JobOK
    <3>3. QED
      BY <1>0, <1>1, <3>2, GuardSteps DEF Notes
  <2>5. CASE job'[r] = ToOpen(op, p, date)
    <3>1. /\ job'[r].op = "opening" /\ job'[r].wanted = op
          /\ job'[r].paper = p /\ job'[r].date = date
      BY <2>5 DEF ToOpen
    <3>2. JobOK(r)'
      BY <2>2, <2>3, <3>1 DEF JobOK, Submissions, Closers
    <3>3. QED
      BY <1>0, <1>1, <3>2, GuardSteps DEF Notes
  <2>6. QED
    BY <2>1, <2>4, <2>5
<1>11. ASSUME NEW r \in Requests, OpenPeriod(r)
      PROVE  TypingInv'
  <2>1. /\ job[r].op = "opening" /\ job[r].wanted \in PaperOps
        /\ job[r].paper \in Papers /\ job[r].date \in Dates \cup {None}
        /\ job[r].wanted \in {"draft", "spend"} => job[r].date \in Dates
    BY <1>11 DEF OpenPeriod, TypingInv, JobOK
  <2>2. /\ job'[r].op = job[r].wanted /\ job'[r].paper = job[r].paper
        /\ job'[r].date = job[r].date
    <3>1. job'[r] = Asked(job[r].wanted, job[r].paper, job[r].date)
      BY <1>11, Opens
    <3>2. QED
      BY <3>1 DEF Asked
  <2>3. JobOK(r)'
    BY <2>1, <2>2 DEF JobOK, PaperOps, Creations, Submissions, Closers
  <2>4. periods' \in [Quarters -> PeriodRow]
    <3>1. NewPeriod \in PeriodRow /\ periods \in [Quarters -> PeriodRow]
      BY DEF NewPeriod, NoPeriod, PeriodRow, TypingInv, TaxYearTypeOK
    <3>2. QED
      BY <1>11, <3>1, Opens
  <2>5. TaxYearTypeOK'
    BY <1>11, <2>4 DEF OpenPeriod, TypingInv, TaxYearTypeOK
  <2>6. QED
    BY <1>11, <2>3, <2>5, Opens, OthersTyped
<1>12. ASSUME NEW r \in Requests, CloseCheck(r)
      PROVE  TypingInv'
  <2>1. job'[r].op = job[r].op /\ job[r].op \in Closers
        /\ job'[r].period = job[r].period /\ job'[r].figures = job[r].figures
        /\ job'[r].chosen = job[r].chosen /\ job'[r].method = job[r].method
    BY <1>12, ClosingChecks
  <2>2. JobOK(r)'
    BY <2>1 DEF TypingInv, JobOK, PaperOps, Creations, Submissions, Closers
  <2>3. UNCHANGED methods /\ UNCHANGED drafts /\ UNCHANGED today /\ Notes(r)
    BY <1>12, ClosingChecks
  <2>4. QED
    BY <1>0, <2>2, <2>3 DEF Notes
<1>2. ASSUME NEW r \in Requests, PaperStep(r)
      PROVE  TypingInv'
  BY <1>2, PapersTyped
<1>3. ASSUME NEW r \in Requests, NEW q \in Quarters, RowStep(r, q)
      PROVE  TypingInv'
  <2>1. periods \in [Quarters -> PeriodRow] /\ periods[q] \in PeriodRow
    BY DEF TypingInv, TaxYearTypeOK
  <2>2. \A status \in {"OPEN", "CLOSED"}, paid \in BOOLEAN :
          /\ [periods[q] EXCEPT !.status = status] \in PeriodRow
          /\ [periods[q] EXCEPT !.paid = paid] \in PeriodRow
          /\ [periods[q] EXCEPT !.status = status, !.paid = paid] \in PeriodRow
    BY <2>1 DEF PeriodRow
  <2>3. \E row \in PeriodRow : periods' = [periods EXCEPT ![q] = row]
    <3>1. CASE Reopen(r, q)
      BY <2>2, <3>1 DEF Reopen
    <3>2. CASE PayTax(r, q)
      BY <2>2, <3>2 DEF PayTax
    <3>3. CASE Override(r, q)
      <4>1. PICK status \in {"OPEN", "CLOSED"}, paid \in BOOLEAN :
              periods' = [periods EXCEPT ![q] = [periods[q] EXCEPT !.status = status, !.paid = paid]]
        BY <3>3 DEF Override
      <4>2. QED
        BY <2>2, <4>1
    <3>4. QED
      BY <1>3, <3>1, <3>2, <3>3 DEF RowStep
  <2>4. periods' \in [Quarters -> PeriodRow]
    BY <2>1, <2>3
  <2>5. overridden' \subseteq Quarters
    BY <1>3 DEF RowStep, Reopen, PayTax, Override, TypingInv, TaxYearTypeOK
  <2>6. QED
    BY <1>3, <2>4, <2>5, RowSteps DEF TypingInv, TaxYearTypeOK, JobOK
<1>4. ASSUME NEW r \in Requests, NEW q \in Quarters, SessionStep(r, q)
      PROVE  TypingInv'
  <2>1. drafts \in [Quarters -> DraftRow] /\ drafts[q] \in DraftRow
    BY DEF TypingInv, TaxYearTypeOK
  <2>2. /\ EmptyDraft \in DraftRow
        /\ \A n \in Nat : /\ [drafts[q] EXCEPT !.revenue = n] \in DraftRow
                          /\ [drafts[q] EXCEPT !.expense = n] \in DraftRow
        /\ [drafts[q] EXCEPT !.counted = TRUE] \in DraftRow
    BY <2>1 DEF EmptyDraft, NoDraft, DraftRow
  <2>3. PICK draft \in DraftRow : SetDraft(q, draft)
    <3>1. CASE StartSession(r, q)
      BY <2>2, <3>1 DEF StartSession
    <3>2. CASE SaveRevenue(r, q)
      BY <2>2, <3>2, SumsAreNatural DEF SaveRevenue
    <3>3. CASE SaveInventory(r, q)
      BY <2>2, <3>3 DEF SaveInventory
    <3>4. CASE SaveExpense(r, q)
      BY <2>2, <3>4, SumsAreNatural DEF SaveExpense
    <3>5. QED
      BY <1>4, <3>1, <3>2, <3>3, <3>4 DEF SessionStep
  <2>4. drafts' \in [Quarters -> DraftRow]
    BY <2>1, <2>3 DEF SetDraft
  <2>5. UNCHANGED <<periods, methods, papers, declarations, today, job, overridden, contested>>
    BY <2>3 DEF SetDraft
  <2>6. QED
    BY <2>4, <2>5 DEF TypingInv, TaxYearTypeOK, JobOK
<1>5. ASSUME NEW r \in Requests, (\E q \in Quarters : SubmitRead(r, q) \/ CloseBegin(r, q)) \/ SubmitBegin(r)
      PROVE  TypingInv'
  <2>1. UNCHANGED <<periods, methods, papers, declarations, drafts, today, overridden, contested>>
    BY <1>5 DEF SubmitRead, CloseBegin, SubmitBegin
  <2>2. JobOK(r)' /\ job' = [job EXCEPT ![r] = job'[r]]
    BY <1>5, SubmissionTyped, ClosingTyped
  <2>3. QED
    BY <1>0, <2>1, <2>2
<1>6. ASSUME NEW r \in Requests, CloseCommit(r) \/ SubmitCommit(r)
      PROVE  TypingInv'
  <2>1. /\ periods' \in [Quarters -> PeriodRow]
        /\ methods' \in [DOMAIN Configs -> Methods]
        /\ TaxIn(r).vat \in Nat /\ TaxIn(r).pit \in Nat /\ TaxIn(r).tax \in Nat
    BY <1>6, BookedTyped
  <2>2. UNCHANGED <<papers, today, overridden>> /\ Done(r)
    BY <1>6 DEF CloseCommit, SubmitCommit
  <2>6. contested' \subseteq Quarters
    <3>1. job[r].period \in Quarters
      BY <1>6, ClosingEnds
    <3>2. \/ contested' = contested
          \/ contested' = contested \cup {q \in {job[r].period} : UnderWay(q)}
      BY <1>6 DEF CloseCommit, SubmitCommit
    <3>3. QED
      BY <3>1, <3>2 DEF TypingInv, TaxYearTypeOK
  <2>3. declarations' \in [Quarters -> DeclarationRow \cup {None}] /\ drafts' \in [Quarters -> DraftRow]
    <3>1. CASE CloseCommit(r)
      BY <3>1 DEF CloseCommit, TypingInv, TaxYearTypeOK
    <3>2. CASE SubmitCommit(r)
      <4>1. /\ job[r].period \in Quarters /\ job[r].figures \in Figures
            /\ job[r].chosen \in Methods
        BY <3>2 DEF SubmitCommit, TypingInv, JobOK, Closers
      <4>2. job[r].figures.revenue \in Nat /\ job[r].figures.expense \in Nat
        BY <4>1 DEF Figures
      <4>3. /\ YtdRevenue(job[r].period, job[r].figures.revenue) \in Nat
            /\ YtdExpense(job[r].period, job[r].figures.expense) \in Nat
        BY <4>1, <4>2, BeforeIsNatural DEF TypingInv, YtdRevenue, YtdExpense
      <4> DEFINE row == [revenue |-> job[r].figures.revenue, expense |-> job[r].figures.expense,
             ytdRevenue |-> YtdRevenue(job[r].period, job[r].figures.revenue),
             ytdExpense |-> YtdExpense(job[r].period, job[r].figures.expense),
             vat |-> TaxIn(r).vat, pit |-> TaxIn(r).pit, tax |-> TaxIn(r).tax,
             method |-> job[r].chosen]
      <4>5. row \in DeclarationRow
        BY <2>1, <4>1, <4>2, <4>3 DEF DeclarationRow
      <4>6. declarations' = [declarations EXCEPT ![job[r].period] = row]
        BY <3>2 DEF SubmitCommit
      <4>7. NoDraft \in DraftRow /\ drafts' = [drafts EXCEPT ![job[r].period] = NoDraft]
        BY <3>2 DEF SubmitCommit, NoDraft, DraftRow
      <4> HIDE DEF row
      <4>8. QED
        BY <4>5, <4>6, <4>7 DEF TypingInv, TaxYearTypeOK
    <3>3. QED
      BY <1>6, <3>1, <3>2
  <2>4. TaxYearTypeOK'
    BY <2>1, <2>2, <2>3, <2>6 DEF TypingInv, TaxYearTypeOK
  <2>5. QED
    BY <2>1, <2>2, <2>4, DoneIsTyped, OthersTyped
<1>7. ASSUME NEW r \in Requests, Abandon(r)
      PROVE  TypingInv'
  <2>1. UNCHANGED <<periods, methods, papers, declarations, drafts, today, overridden, contested>> /\ Done(r)
    BY <1>7 DEF Abandon
  <2>2. TaxYearTypeOK'
    BY <2>1 DEF TypingInv, TaxYearTypeOK
  <2>3. QED
    BY <2>1, <2>2, DoneIsTyped, OthersTyped
<1>8. CASE NextQuarter
  <2>1. today' \in Quarters
    BY <1>8, PeriodsAssumption DEF PeriodsAssumption, NextQuarter, Quarters, TypingInv, TaxYearTypeOK
  <2>2. QED
    BY <1>8, <2>1 DEF NextQuarter, TypingInv, TaxYearTypeOK, JobOK
<1>9. CASE UNCHANGED taxVars
  BY <1>9 DEF taxVars, TypingInv, TaxYearTypeOK, JobOK
<1>10. QED
  BY <1>1, <1>2, <1>3, <1>4, <1>5, <1>6, <1>7, <1>8, <1>9, <1>11, <1>12, StepKinds

(* Every row keeps its type: whatever is closed, reopened, declared and    *)
(* overridden, no tax is negative (closeFinancialPeriod,                   *)
(* calculateYtdTaxForPercentageMethod).                                    *)
THEOREM TaxYearTyping == TaxYearSpec => []TaxYearTypeOK
<1>1. FiledInv /\ TypingInv /\ [TaxYearNext]_taxVars => TypingInv'
  BY StepTyping DEF FiledInv
<1>2. TypingInv => TaxYearTypeOK
  BY DEF TypingInv
<1>3. QED
  BY <1>1, <1>2, InitTyping, Filing, PTL DEF TaxYearSpec

-----------------------------------------------------------------------------
(* An invoice is issued only after it was sent and was pending: a step of  *)
(* a handler adds no revenue to a period without unfinished invoices.      *)
LEMMA RevenueShrinks ==
  ASSUME Shapes, NEW r \in Requests, PaperStep(r), NEW q \in Quarters, Unfinished(q) = {}
  PROVE  Revenue(q)' <= Revenue(q)
<1> DEFINE Issued == {p \in Sales : papers[p].status = "ISSUED" /\ In(p, q)}
           Later  == {p \in Sales : papers'[p].status = "ISSUED" /\ In(p, q)'}
<1>0. ASSUME \A p \in Papers : papers'[p].status = "ISSUED" => papers'[p] = papers[p]
      PROVE  Later \subseteq Issued
  BY <1>0 DEF In, Papers
<1>1. ASSUME NEW status, NEW date, SetPaper(r, status, date), status # "ISSUED"
      PROVE  Later \subseteq Issued
  BY <1>0, <1>1 DEF SetPaper, Shapes
<1>2. ASSUME DraftInvoice(r) \/ CancelInvoice(r) \/ DropInvoice(r)
      PROVE  Later \subseteq Issued
  BY <1>1, <1>2 DEF DraftInvoice, CancelInvoice, DropInvoice
<1>3. ASSUME Spend(r) \/ AmendOutlay(r) \/ RevokeOutlay(r)
      PROVE  Later \subseteq Issued
  BY <1>1, <1>3 DEF Spend, AmendOutlay, RevokeOutlay
<1>4. ASSUME SendInvoice(r)
      PROVE  Later \subseteq Issued
  <2>1. papers' = [papers EXCEPT ![job[r].paper] =
          [papers[job[r].paper] EXCEPT !.status = "PENDING_ISSUED"]]
    BY <1>4 DEF SendInvoice
  <2>2. QED
    BY <1>0, <2>1 DEF Shapes
<1>5. ASSUME AnswerInvoice(r)
      PROVE  Later \subseteq Issued
  <2>1. PICK status \in {"ISSUED", "SYNC_FAILED"} : SetPaper(r, status, Row(r).date)
    BY <1>5 DEF AnswerInvoice
  <2>2. papers' = [papers EXCEPT ![job[r].paper] = [status |-> status, date |-> Row(r).date]]
    BY <2>1 DEF SetPaper
  <2>3. ~(job[r].paper \in Sales /\ In(job[r].paper, q))
    BY <1>5 DEF AnswerInvoice, Row, Unfinished
  <2>4. \A p \in Papers : In(p, q)' <=> In(p, q)
    BY <2>2 DEF In, Row, Shapes
  <2>5. \A p \in Papers \ {job[r].paper} : papers'[p] = papers[p]
    BY <2>2 DEF Shapes
  <2>6. QED
    BY <2>3, <2>4, <2>5 DEF Papers
<1>6. Later \subseteq Issued
  BY <1>2, <1>3, <1>4, <1>5 DEF PaperStep
<1>7. IsFiniteSet(Issued) /\ \A p \in Issued : Amount[p] \in Nat
  BY FiniteTables, PeriodsAssumption DEF PeriodsAssumption, Papers
<1>8. Revenue(q) = SumFunctionOnSet(Amount, Issued) /\ Revenue(q)' = SumFunctionOnSet(Amount, Later)
  BY DEF Revenue
<1> HIDE DEF Issued, Later
<1>9. QED
  BY <1>6, <1>7, <1>8, SumSubset

(* The steps that are no document handler's leave the sums as they are.    *)
LEMMA OnlyHandlersWrite ==
  ASSUME Shapes, InCalendar, [TaxYearNext]_taxVars, ~\E r \in Requests : PaperStep(r)
  PROVE  /\ UNCHANGED papers
         /\ \A q \in Quarters : Revenue(q)' = Revenue(q) /\ Expense(q)' = Expense(q)
<1>1. UNCHANGED papers
  <2>1. ASSUME NEW r \in Requests, NEW op \in PaperOps, NEW p \in Papers, Guard(r, op, p)
        PROVE  UNCHANGED papers
    BY <2>1 DEF Guard
  <2>2. ASSUME NEW r \in Requests, NEW q \in Quarters,
               RowStep(r, q) \/ SessionStep(r, q) \/ SubmitRead(r, q) \/ CloseBegin(r, q)
        PROVE  UNCHANGED papers
    BY <2>2 DEF RowStep, Reopen, PayTax, Override, SessionStep, StartSession, SaveRevenue,
                SaveInventory, SaveExpense, SetDraft, SubmitRead, CloseBegin
  <2>3. ASSUME NEW r \in Requests,
               \/ OpenPeriod(r) \/ SubmitBegin(r) \/ CloseCheck(r)
               \/ CloseCommit(r) \/ SubmitCommit(r) \/ Abandon(r)
        PROVE  UNCHANGED papers
    BY <2>3 DEF OpenPeriod, SubmitBegin, CloseCheck, CloseCommit, SubmitCommit, Abandon
  <2>4. CASE NextQuarter \/ UNCHANGED taxVars
    BY <2>4 DEF NextQuarter, taxVars
  <2>5. QED
    BY <2>1, <2>2, <2>3, <2>4, StepKinds
<1>2. QED
  BY <1>1 DEF Revenue, Expense, In

(* Requests one at a time: no sale appears in a closed period after its    *)
(* tax was computed (validatePendingInvoices and the guard).               *)
THEOREM ClosedRevenueNeverGrows == Alone => (TaxYearSpec => NoLateRevenue)
<1> SUFFICES ASSUME Alone PROVE TaxYearSpec => NoLateRevenue
  OBVIOUS
<1>1. ASSUME FiledInv, NothingPending, [TaxYearNext]_taxVars
      PROVE  \A q \in Quarters : Closed(q) /\ Closed(q)' => Revenue(q)' <= Revenue(q)
  <2>1. SUFFICES ASSUME NEW q \in Quarters, Closed(q) PROVE Revenue(q)' <= Revenue(q)
    OBVIOUS
  <2>2. ASSUME NEW r \in Requests, PaperStep(r) PROVE Revenue(q)' <= Revenue(q)
    BY <1>1, <2>1, <2>2, RevenueShrinks DEF FiledInv, NothingPending
  <2>3. ASSUME ~\E r \in Requests : PaperStep(r) PROVE Revenue(q)' <= Revenue(q)
    BY <1>1, <2>3, OnlyHandlersWrite, SumsAreNatural DEF FiledInv
  <2>4. QED
    BY <2>2, <2>3
<1>2. QED
  BY <1>1, Filing, NothingStaysPending, PTL DEF TaxYearSpec, NoLateRevenue

(* What a submission without a warning carries is what its period sums.    *)
Truthful(r) ==
  job[r].op \in {"submit", "submit force", "filing"} =>
    job[r].figures = RealtimeTaxData(job[r].period)

(* A request that runs alone finds the sums as it read them. *)
LEMMA StepTruthful ==
  ASSUME Alone, Shapes, InCalendar, NEW r \in Requests, Truthful(r), [TaxYearNext]_taxVars
  PROVE  Truthful(r)'
<1> DEFINE Reads == {"submit", "submit force", "filing"}
<1>0. \A s \in Requests : s = r
  BY DEF Alone
<1>1. CASE PaperStep(r)
  BY <1>1, PaperSteps DEF Truthful
<1>2. ASSUME NEW op \in PaperOps, NEW p \in Papers, Guard(r, op, p)
      PROVE  Truthful(r)'
  BY <1>2, GuardSteps DEF Truthful, PaperOps, Creations
<1>3. ASSUME ~PaperStep(r)
      PROVE  \A q \in Quarters : RealtimeTaxData(q)' = RealtimeTaxData(q)
  BY <1>0, <1>3, OnlyHandlersWrite DEF RealtimeTaxData
<1>4. ASSUME ~PaperStep(r), UNCHANGED job
      PROVE  Truthful(r)'
  <2>1. CASE job[r].op \in Reads
    <3>1. job[r].period \in Quarters
      BY <2>1 DEF InCalendar, Asks, Submissions, Closers
    <3>2. QED
      BY <1>3, <1>4, <3>1 DEF Truthful
  <2>2. QED
    BY <1>4, <2>1 DEF Truthful
<1>5. ASSUME ~PaperStep(r), NEW q \in Quarters, SubmitRead(r, q)
      PROVE  Truthful(r)'
  <2>1. PICK op \in Submissions, method \in Picks :
          /\ MayDeclare(op, q)
          /\ job' = [job EXCEPT ![r] = [op |-> op, period |-> q, chosen |-> method,
                                        figures |-> DeclaredFigures(op, q)]]
    BY <1>5 DEF SubmitRead, Submissions
  <2>2. job'[r] = [op |-> op, period |-> q, chosen |-> method, figures |-> DeclaredFigures(op, q)]
    BY <2>1 DEF Shapes
  <2>3. op \in Reads => DeclaredFigures(op, q) = RealtimeTaxData(q)
    BY <2>1 DEF MayDeclare, DeclaredFigures, DataUnchanged, Submissions
  <2>4. job'[r].op = op /\ job'[r].period = q /\ job'[r].figures = DeclaredFigures(op, q)
    BY <2>2
  <2>5. RealtimeTaxData(q)' = RealtimeTaxData(q)
    BY <1>3, <1>5
  <2>6. QED
    BY <2>3, <2>4, <2>5 DEF Truthful
<1>6. ASSUME ~PaperStep(r), SubmitBegin(r)
      PROVE  Truthful(r)'
  <2> DEFINE op == IF job[r].op = "submit ignore" THEN "filing ignored" ELSE "filing"
  <2>1. job' = [job EXCEPT ![r] = Closing(op, job[r].period, job[r].figures, job[r].chosen)]
    BY <1>6 DEF SubmitBegin
  <2>2. job'[r] = Closing(op, job[r].period, job[r].figures, job[r].chosen)
    BY <2>1 DEF Shapes
  <2> HIDE DEF op
  <2>3. job'[r].op = op /\ job'[r].period = job[r].period /\ job'[r].figures = job[r].figures
    BY <2>2 DEF Closing
  <2>4. job[r].op \in Submissions /\ job[r].period \in Quarters
    BY <1>6 DEF SubmitBegin, Submissions, InCalendar, Asks
  <2>5. RealtimeTaxData(job[r].period)' = RealtimeTaxData(job[r].period)
    <3>1. PICK q \in Quarters : q = job[r].period
      BY <2>4
    <3>2. RealtimeTaxData(q)' = RealtimeTaxData(q)
      BY <1>3, <1>6
    <3>3. QED
      BY <2>3, <3>1, <3>2
  <2>6. QED
    BY <2>3, <2>4, <2>5 DEF Truthful, Submissions, op
<1>7. ASSUME ~PaperStep(r), NEW q \in Quarters, CloseBegin(r, q)
      PROVE  Truthful(r)'
  <2>1. PICK chosen \in Picks \cup {None}, figures \in Claims \cup {None} :
          job' = [job EXCEPT ![r] = Closing("closing", q, figures, chosen)]
    BY <1>7 DEF CloseBegin
  <2>2. job'[r] = Closing("closing", q, figures, chosen)
    BY <2>1 DEF Shapes
  <2>3. job'[r].op = "closing"
    BY <2>2 DEF Closing
  <2>4. QED
    BY <2>3 DEF Truthful
<1>8. ASSUME Done(r) PROVE Truthful(r)'
  BY <1>8 DEF Done, NoJob, Shapes, Truthful
<1>9. ASSUME NEW q \in Quarters, RowStep(r, q) \/ SessionStep(r, q)
      PROVE  UNCHANGED job
  BY <1>9 DEF RowStep, Reopen, PayTax, Override, SessionStep, StartSession, SaveRevenue,
              SaveInventory, SaveExpense, SetDraft
<1>10. CASE CloseCommit(r) \/ SubmitCommit(r) \/ Abandon(r)
  BY <1>8, <1>10 DEF CloseCommit, SubmitCommit, Abandon
<1>11. CASE NextQuarter \/ UNCHANGED taxVars
  BY <1>1, <1>4, <1>11 DEF NextQuarter, taxVars
<1>12. ASSUME ~PaperStep(r), CloseCheck(r)
       PROVE  Truthful(r)'
  <2>1. PICK q \in Quarters :
          /\ q = job[r].period /\ job'[r].period = q /\ job'[r].op = job[r].op
          /\ job'[r].figures = job[r].figures
    BY <1>12, ClosingChecks
  <2>2. RealtimeTaxData(q)' = RealtimeTaxData(q)
    BY <1>3, <1>12
  <2>3. QED
    BY <2>1, <2>2 DEF Truthful
<1>13. CASE OpenPeriod(r)
  <2>1. job'[r].op \in PaperOps
    BY <1>13, Opens
  <2>2. QED
    BY <2>1 DEF Truthful, PaperOps, Creations
<1>14. QED
  BY <1>0, <1>1, <1>2, <1>4, <1>5, <1>6, <1>7, <1>9, <1>10, <1>11, <1>12, <1>13, StepKinds

(* Requests one at a time: what is declared without a warning is what the  *)
(* period sums when it is closed (submit and submitForce, which read       *)
(* before their transaction).                                              *)
THEOREM SubmissionsAreTrue == Alone => (TaxYearSpec => SubmittedIsTrue)
<1> SUFFICES ASSUME Alone PROVE TaxYearSpec => SubmittedIsTrue
  OBVIOUS
<1> DEFINE Inv == \A r \in Requests : Truthful(r)
           Declares == \A q \in Quarters : declarations'[q] # declarations[q] =>
             (\E r \in Requests : job[r].op = "filing ignored")
               \/ [revenue |-> declarations'[q].revenue, expense |-> declarations'[q].expense]
                    = RealtimeTaxData(q)
<1>1. TaxYearInit => Inv
  <2> SUFFICES ASSUME TaxYearInit, NEW r \in Requests PROVE Truthful(r)
    OBVIOUS
  <2>1. job[r].op = "idle"
    BY DEF TaxYearInit, NoJob
  <2>2. QED
    BY <2>1 DEF Truthful
<1>2. FiledInv /\ Inv /\ [TaxYearNext]_taxVars => Inv'
  BY StepTruthful DEF FiledInv
<1>3. ASSUME FiledInv, Inv, [TaxYearNext]_taxVars
      PROVE  Declares
  <2>1. ASSUME NEW r \in Requests, SubmitCommit(r)
        PROVE  Declares
    <3>1. PICK q \in Quarters : q = job[r].period
      BY <1>3, <2>1, ClosingEnds DEF FiledInv
    <3>2. /\ \A e \in Quarters \ {q} : declarations'[e] = declarations[e]
          /\ declarations'[q].revenue = job[r].figures.revenue
          /\ declarations'[q].expense = job[r].figures.expense
      BY <1>3, <2>1, <3>1 DEF SubmitCommit, FiledInv, Shapes
    <3>3. job[r].op = "filing ignored" \/ job[r].figures = RealtimeTaxData(q)
      BY <1>3, <2>1, <3>1 DEF SubmitCommit, Truthful
    <3>4. RealtimeTaxData(q)
            = [revenue |-> RealtimeTaxData(q).revenue, expense |-> RealtimeTaxData(q).expense]
      BY DEF RealtimeTaxData
    <3>5. QED
      BY <3>2, <3>3, <3>4
  <2>2. ASSUME UNCHANGED declarations PROVE Declares
    BY <2>2
  <2> HIDE DEF Declares
  <2>3. QED
    BY <1>3, <2>1, <2>2, OnlySubmissionsDeclare DEF FiledInv
<1> HIDE DEF Inv
<1>4. QED
  BY <1>1, <1>2, <1>3, Filing, PTL DEF TaxYearSpec, SubmittedIsTrue

-----------------------------------------------------------------------------
(* The quarters of a year that are declared, up to one that is not: the    *)
(* most recent of them has the same year behind it.                        *)
LEMMA LastOfYear ==
  ASSUME NEW q \in Quarters, ~Declared(q), InYear(q) # {}
  PROVE  LET m == Max(InYear(q)) IN
         /\ m \in InYear(q) /\ m \in Quarters /\ m < q
         /\ InYear(m) = InYear(q)
<1>1. InYear(q) \in SUBSET (1 .. q) /\ q \in Nat
  BY QuartersBefore DEF InYear
<1> DEFINE m == Max(InYear(q))
<1>2. m \in InYear(q) /\ \A e \in InYear(q) : e <= m
  BY <1>1, GreatestMember
<1>3. m \in 1 .. q /\ Declared(m) /\ YearOf[m] = YearOf[q]
  BY <1>2 DEF InYear
<1> HIDE DEF m
<1>4. m # q
  BY <1>3
<1>5. m \in Quarters /\ m < q
  BY <1>1, <1>3, <1>4, PeriodsAssumption DEF PeriodsAssumption, Quarters
<1>6. \A e : e \in InYear(m) <=> e \in InYear(q)
  <2>1. ASSUME NEW e, e \in InYear(q) PROVE e \in InYear(m)
    BY <1>1, <1>2, <1>3, <1>5, <2>1 DEF InYear
  <2>2. ASSUME NEW e, e \in InYear(m) PROVE e \in InYear(q)
    BY <1>1, <1>3, <1>5, <2>2 DEF InYear
  <2>3. QED
    BY <2>1, <2>2
<1>7. InYear(m) = InYear(q)
  BY <1>6
<1>8. QED
  BY <1>2, <1>5, <1>7 DEF m

(* While no administrator writes a row and nobody closes what is being     *)
(* submitted, every declared period is closed, and was charged what it     *)
(* declared.                                                               *)
Undisturbed ==
  /\ overridden = {} /\ contested = {}
  /\ DeclaredIsClosed /\ ChargedAsDeclared
  /\ InOrder /\ \A r \in Requests : FirstOpen(r)

(* A submission declares a quarter after all that are declared already:    *)
(* these stay as they are, and are the year before it.                     *)
LEMMA SubmitsLast ==
  ASSUME Shapes, InCalendar, Undisturbed, NEW r \in Requests, SubmitCommit(r),
         NEW q \in Quarters, q = job[r].period
  PROVE  /\ ~Declared(q)
         /\ \A e \in Quarters : Declared(e) => e < q /\ Closed(e)
         /\ \A e \in Quarters \ {q} : declarations'[e] = declarations[e]
         /\ \A e \in Quarters : Declared(e) => InYear(e)' = InYear(e)
         /\ Declared(q)' => InYear(q)' = InYear(q) \cup {q}
         /\ q \notin InYear(q) /\ InYear(q) \in SUBSET Quarters
         /\ {e \in EarlierClosed(q) : Declared(e)} = InYear(q)
<1>1. /\ Opened(q) /\ ~Declared(q)
      /\ \A e \in Quarters : e < q => ~Opened(e)
  BY ClosingEnds DEF SubmitCommit, Declarable, Undisturbed, FirstOpen
<1>2. \A e \in Quarters : Declared(e) => Closed(e)
  BY DEF Undisturbed, DeclaredIsClosed
<1>3. \A e \in Quarters : Declared(e) => e < q
  <2>1. ASSUME NEW e \in Quarters, Declared(e) PROVE e < q
    <3>1. e # q /\ ~(q < e)
      BY <1>1, <1>2, <2>1 DEF Undisturbed, InOrder
    <3>2. e \in Nat /\ q \in Nat
      BY QuartersBefore
    <3>3. QED
      BY <3>1, <3>2
  <2>2. QED
    BY <2>1
<1>4. \A e \in Quarters \ {q} : declarations'[e] = declarations[e]
  BY DEF SubmitCommit, Shapes
<1>5. \A e \in Quarters : \A d \in 1 .. e : d \in Quarters
  BY PeriodsAssumption DEF PeriodsAssumption, Quarters
<1>6. \A e \in Quarters : Declared(e) => InYear(e)' = InYear(e)
  <2>1. ASSUME NEW e \in Quarters, Declared(e) PROVE InYear(e)' = InYear(e)
    <3>1. \A d \in 1 .. e : d # q
      BY <1>3, <2>1, PeriodsAssumption DEF PeriodsAssumption, Quarters
    <3>2. \A d \in 1 .. e : declarations'[d] = declarations[d]
      BY <1>4, <1>5, <3>1
    <3>3. QED
      BY <3>2 DEF InYear, Declared
  <2>2. QED
    BY <2>1
<1>7. q \notin InYear(q) /\ InYear(q) \in SUBSET Quarters
  BY <1>1, <1>5 DEF InYear
<1>8. Declared(q)' => InYear(q)' = InYear(q) \cup {q}
  <2>1. ASSUME Declared(q)' PROVE InYear(q)' = InYear(q) \cup {q}
    <3>1. q \in 1 .. q
      BY QuartersBefore, PeriodsAssumption DEF PeriodsAssumption, Quarters
    <3>2. \A d \in 1 .. q : d # q => declarations'[d] = declarations[d]
      BY <1>4, <1>5
    <3>3. \A d \in 1 .. q : d # q => (Declared(d)' <=> Declared(d))
      BY <3>2 DEF Declared
    <3>4. QED
      BY <2>1, <3>1, <3>3 DEF InYear
  <2>2. QED
    BY <2>1
<1>9. {e \in EarlierClosed(q) : Declared(e)} = InYear(q)
  <2>1. \A e : e \in 1 .. q - 1 <=> e \in Quarters /\ e < q
    BY QuartersBefore
  <2>2. \A e : e \in 1 .. q /\ Declared(e) <=> e \in Quarters /\ e < q /\ Declared(e)
    BY <1>3, <1>5, PeriodsAssumption DEF PeriodsAssumption, Quarters
  <2>3. \A e : e \in EarlierClosed(q) /\ Declared(e)
           <=> e \in Quarters /\ e < q /\ YearOf[e] = YearOf[q] /\ Declared(e)
    BY <1>2, <2>1 DEF EarlierClosed
  <2>4. \A e : e \in InYear(q)
           <=> e \in Quarters /\ e < q /\ YearOf[e] = YearOf[q] /\ Declared(e)
    BY <2>2 DEF InYear
  <2>5. QED
    BY <2>3, <2>4
<1>10. QED
  BY <1>1, <1>2, <1>3, <1>4, <1>6, <1>7, <1>8, <1>9

(* What the declarations of the year say in one of their columns.          *)
Columns == {"revenue", "expense", "vat", "pit"}
YearSum(c, q) == SumFunctionOnSet([e \in InYear(q) |-> declarations[e][c]], InYear(q))

LEMMA YearSums ==
  ASSUME NEW q
  PROVE  /\ YearRevenue(q) = YearSum("revenue", q) /\ YearExpense(q) = YearSum("expense", q)
         /\ YearVat(q) = YearSum("vat", q) /\ YearPit(q) = YearSum("pit", q)
BY DEF YearRevenue, YearExpense, YearVat, YearPit, YearSum

(* A submission adds to the sums of its year what it declares, and the     *)
(* sums of the quarters declared before stay as they are.                  *)
LEMMA YearGrows ==
  ASSUME Shapes, InCalendar, Undisturbed, TaxYearTypeOK, TaxYearTypeOK',
         NEW r \in Requests, SubmitCommit(r), NEW q \in Quarters, q = job[r].period,
         Declared(q)', NEW c \in Columns
  PROVE  /\ YearSum(c, q)' = YearSum(c, q) + declarations'[q][c]
         /\ YearSum(c, q) \in Nat /\ declarations'[q][c] \in Nat
         /\ InYear(q) = {} => YearSum(c, q) = 0
         /\ \A e \in Quarters : Declared(e) => YearSum(c, e)' = YearSum(c, e)
<1> DEFINE year == InYear(q)
           now == [e \in year |-> declarations[e][c]]
           then == [e \in year \cup {q} |-> declarations'[e][c]]
<1>1. /\ q \notin year /\ year \in SUBSET Quarters /\ InYear(q)' = year \cup {q}
      /\ \A e \in year : declarations'[e] = declarations[e]
  BY SubmitsLast
<1>2. IsFiniteSet(year)
  BY <1>1, FiniteTables
<1>3. \A row \in DeclarationRow : row[c] \in Nat
  BY DEF Columns, DeclarationRow
<1>4. \A e \in year : declarations[e] \in DeclarationRow
  BY <1>1 DEF TaxYearTypeOK, InYear, Declared
<1>5. declarations'[q] \in DeclarationRow
  BY DEF TaxYearTypeOK, Declared
<1>6. /\ \A e \in year : now[e] \in Nat /\ then[e] = now[e]
      /\ then[q] = declarations'[q][c] /\ then[q] \in Nat
  BY <1>1, <1>3, <1>4, <1>5
<1>7. YearSum(c, q) = SumFunctionOnSet(now, year)
  BY DEF YearSum
<1>8. YearSum(c, q)' = SumFunctionOnSet(then, year \cup {q})
  BY <1>1 DEF YearSum
<1>9. \A e \in Quarters : Declared(e) => YearSum(c, e)' = YearSum(c, e)
  <2>1. ASSUME NEW e \in Quarters, Declared(e) PROVE YearSum(c, e)' = YearSum(c, e)
    <3>1. InYear(e)' = InYear(e)
      BY <2>1, SubmitsLast
    <3>2. \A d \in InYear(e) : declarations'[d] = declarations[d]
      <4>1. ASSUME NEW d \in InYear(e) PROVE declarations'[d] = declarations[d]
        <5>1. d \in Quarters /\ Declared(d)
          BY PeriodsAssumption DEF InYear, PeriodsAssumption, Quarters
        <5>2. QED
          BY <5>1, SubmitsLast
      <4>2. QED
        BY <4>1
    <3>3. [d \in InYear(e) |-> declarations'[d][c]] = [d \in InYear(e) |-> declarations[d][c]]
      BY <3>2
    <3>4. QED
      BY <3>1, <3>3 DEF YearSum
  <2>2. QED
    BY <2>1
<1> HIDE DEF year, now, then
<1>10. SumFunctionOnSet(then, year \cup {q}) = SumFunctionOnSet(then, year) + then[q]
  <2>1. \A e \in year \cup {q} : then[e] \in Int
    BY <1>6
  <2>2. q \notin year
    BY <1>1
  <2>3. QED
    BY <1>2, <2>1, <2>2, SumAdd, ZenonT(60)
<1>11. SumFunctionOnSet(then, year) = SumFunctionOnSet(now, year)
  BY <1>2, <1>6, SumSame
<1>12. SumFunctionOnSet(now, year) \in Nat
  BY <1>2, <1>6, SumNat
<1>13. year = {} => SumFunctionOnSet(now, year) = 0
  BY SumEmpty
<1>14. QED
  BY <1>6, <1>7, <1>8, <1>9, <1>10, <1>11, <1>12, <1>13 DEF year

(* What a submission takes for the year before its period is the year to   *)
(* date of the declaration before it, or nothing.                          *)
LEMMA CarriedForward ==
  ASSUME Shapes, InCalendar, Undisturbed, NEW r \in Requests, SubmitCommit(r),
         NEW q \in Quarters, q = job[r].period
  PROVE  /\ InYear(q) = {} => BeforePeriod(q) = [revenue |-> 0, expense |-> 0]
         /\ InYear(q) # {} =>
              BeforePeriod(q) = [revenue |-> declarations[Max(InYear(q))].ytdRevenue,
                                 expense |-> declarations[Max(InYear(q))].ytdExpense]
<1>1. {e \in EarlierClosed(q) : Declared(e)} = InYear(q)
  BY SubmitsLast
<1>2. QED
  BY <1>1 DEF BeforePeriod

(* A submission continues the year to date of the year. *)
LEMMA SubmitsYearToDate ==
  ASSUME Shapes, InCalendar, Undisturbed, TypingInv, TypingInv', YearToDate,
         NEW r \in Requests, SubmitCommit(r)
  PROVE  YearToDate'
<1>1. PICK q \in Quarters : q = job[r].period
  BY ClosingEnds
<1>2. TaxYearTypeOK /\ TaxYearTypeOK'
  BY DEF TypingInv
<1>3. ASSUME NEW e \in Quarters \ {q}, Declared(e)'
      PROVE  /\ declarations'[e].ytdRevenue = YearRevenue(e)'
             /\ declarations'[e].ytdExpense = YearExpense(e)'
  <2>1. declarations'[e] = declarations[e] /\ Declared(e) /\ InYear(e)' = InYear(e)
    BY <1>1, <1>3, SubmitsLast DEF Declared
  <2>2. \A d \in InYear(e) : declarations'[d] = declarations[d]
    <3>1. \A d \in InYear(e) : d \in Quarters /\ Declared(d)
      BY PeriodsAssumption DEF InYear, PeriodsAssumption, Quarters
    <3>2. QED
      BY <1>1, <3>1, SubmitsLast
  <2>3. YearRevenue(e)' = YearRevenue(e) /\ YearExpense(e)' = YearExpense(e)
    <3>1. /\ [d \in InYear(e) |-> declarations'[d].revenue] = [d \in InYear(e) |-> declarations[d].revenue]
          /\ [d \in InYear(e) |-> declarations'[d].expense] = [d \in InYear(e) |-> declarations[d].expense]
      BY <2>2
    <3>2. QED
      BY <2>1, <3>1 DEF YearRevenue, YearExpense
  <2>4. QED
    BY <2>1, <2>3 DEF YearToDate
<1>4. ASSUME Declared(q)'
      PROVE  /\ declarations'[q].ytdRevenue = YearRevenue(q)'
             /\ declarations'[q].ytdExpense = YearExpense(q)'
  <2>1. /\ declarations'[q].revenue = job[r].figures.revenue
        /\ declarations'[q].expense = job[r].figures.expense
        /\ declarations'[q].ytdRevenue = BeforePeriod(q).revenue + job[r].figures.revenue
        /\ declarations'[q].ytdExpense = BeforePeriod(q).expense + job[r].figures.expense
    BY <1>1 DEF SubmitCommit, Shapes, YtdRevenue, YtdExpense
  <2>2. BeforePeriod(q).revenue = YearRevenue(q) /\ BeforePeriod(q).expense = YearExpense(q)
    <3>1. CASE InYear(q) = {}
      <4>1. YearSum("revenue", q) = 0 /\ YearSum("expense", q) = 0
        BY <1>1, <1>2, <1>4, <3>1, YearGrows DEF Columns
      <4>2. QED
        BY <1>1, <3>1, <4>1, CarriedForward, YearSums
    <3>2. CASE InYear(q) # {}
      <4>1. PICK m \in Quarters : m = Max(InYear(q)) /\ m \in InYear(q) /\ InYear(m) = InYear(q)
        BY <1>1, <3>2, LastOfYear, SubmitsLast
      <4>2. declarations[m].ytdRevenue = YearRevenue(m) /\ declarations[m].ytdExpense = YearExpense(m)
        BY <4>1 DEF YearToDate, InYear
      <4>3. YearRevenue(m) = YearRevenue(q) /\ YearExpense(m) = YearExpense(q)
        BY <4>1 DEF YearRevenue, YearExpense
      <4>4. BeforePeriod(q) = [revenue |-> declarations[m].ytdRevenue,
                               expense |-> declarations[m].ytdExpense]
        BY <1>1, <3>2, <4>1, CarriedForward
      <4>5. QED
        BY <4>2, <4>3, <4>4
    <3>3. QED
      BY <3>1, <3>2
  <2>3. /\ YearSum("revenue", q)' = YearSum("revenue", q) + declarations'[q].revenue
        /\ YearSum("expense", q)' = YearSum("expense", q) + declarations'[q].expense
    BY <1>1, <1>2, <1>4, YearGrows DEF Columns
  <2>4. YearRevenue(q)' = YearSum("revenue", q)' /\ YearExpense(q)' = YearSum("expense", q)'
    BY DEF YearRevenue, YearExpense, YearSum
  <2>5. QED
    BY <2>1, <2>2, <2>3, <2>4, YearSums
<1>5. QED
  BY <1>3, <1>4 DEF YearToDate

(* Sums of declarations change with the declarations only.                 *)
LEMMA YearToDateStays == YearToDate /\ UNCHANGED declarations => YearToDate'
BY DEF YearToDate, YearRevenue, YearExpense, InYear, Declared

-----------------------------------------------------------------------------
(* Once a quarter is declared, the earlier closed ones of its year stay    *)
(* the same: none of them is closed late or reopened.                      *)
LEMMA EarlierStays ==
  ASSUME Alone, Shapes, InCalendar, Undisturbed, [TaxYearNext]_taxVars,
         NEW q \in Quarters, Declared(q)
  PROVE  EarlierClosed(q)' = EarlierClosed(q)
<1>1. Closed(q)
  BY DEF Undisturbed, DeclaredIsClosed
<1>2. SUFFICES ASSUME NEW e \in Quarters, e < q PROVE Closed(e)' <=> Closed(e)
  <2>1. \A e : e \in 1 .. q - 1 <=> e \in Quarters /\ e < q
    BY QuartersBefore
  <2>2. QED
    BY <1>2, <2>1 DEF EarlierClosed
<1>3. e \in Nat /\ q \in Nat /\ e # q
  BY <1>2, QuartersBefore
<1>4. ASSUME NEW r \in Requests, NEW op \in PaperOps, NEW p \in Papers, Guard(r, op, p)
      PROVE  Closed(e)' <=> Closed(e)
  BY <1>4 DEF Guard, Closed
<1>13. ASSUME NEW r \in Requests, OpenPeriod(r)
       PROVE  Closed(e)' <=> Closed(e)
  BY <1>13, Opens DEF Shapes, NewPeriod, NoPeriod, Closed
<1>5. ASSUME NEW r \in Requests, PaperStep(r)
      PROVE  Closed(e)' <=> Closed(e)
  BY <1>5, PaperSteps DEF Closed
<1>6. ASSUME NEW r \in Requests, NEW x \in Quarters, RowStep(r, x)
      PROVE  Closed(e)' <=> Closed(e)
  <2>1. CASE x # e
    BY <1>6, <2>1, RowSteps DEF Closed
  <2>2. CASE x = e
    <3>1. q \in x + 1 .. NumQuarters
      BY <1>2, <1>3, <2>2, QuartersBefore
    <3>2. Closed(x) /\ Closed(x)'
      BY <1>1, <1>6, <3>1, RowSteps DEF Alone
    <3>3. QED
      BY <2>2, <3>2
  <2>3. QED
    BY <2>1, <2>2
<1>7. ASSUME NEW r \in Requests, CloseCommit(r) \/ SubmitCommit(r)
      PROVE  Closed(e)' <=> Closed(e)
  <2>1. PICK x \in Quarters : x = job[r].period
    BY <1>7, ClosingEnds
  <2>2. Opened(x) /\ \A d \in Quarters \ {x} : periods'[d] = periods[d]
    BY <1>7, <2>1, ClosingEnds, Booked DEF Undisturbed, FirstOpen
  <2>3. x # e
    BY <1>1, <1>2, <2>2 DEF Undisturbed, InOrder
  <2>4. QED
    BY <2>2, <2>3 DEF Closed
<1>8. ASSUME UNCHANGED periods PROVE Closed(e)' <=> Closed(e)
  BY <1>8 DEF Closed
<1>9. ASSUME NEW r \in Requests, NEW x \in Quarters,
             SessionStep(r, x) \/ SubmitRead(r, x) \/ CloseBegin(r, x)
      PROVE  UNCHANGED periods
  BY <1>9 DEF SessionStep, StartSession, SaveRevenue, SaveInventory, SaveExpense, SetDraft,
              SubmitRead, CloseBegin
<1>10. ASSUME NEW r \in Requests, SubmitBegin(r) \/ CloseCheck(r) \/ Abandon(r)
       PROVE  UNCHANGED periods
  BY <1>10 DEF SubmitBegin, CloseCheck, Abandon
<1>11. ASSUME NextQuarter \/ UNCHANGED taxVars PROVE UNCHANGED periods
  BY <1>11 DEF NextQuarter, taxVars
<1>12. QED
  BY <1>4, <1>5, <1>6, <1>7, <1>8, <1>9, <1>10, <1>11, <1>13, StepKinds

(* What a quarter is charged after others of its year: the tax on the year *)
(* so far less what they were charged, which is never more.                *)
LEMMA DeductExactly ==
  ASSUME NEW charged \in Nat, NEW owed \in Nat, charged <= owed
  PROVE  charged + Deduct(charged, owed) = owed
BY DEF Deduct, AtLeastZero

(* A submission of a year that is taxed by percentage charges what is      *)
(* missing to the tax on the year to date.                                 *)
LEMMA SubmitsRest ==
  ASSUME Shapes, InCalendar, Undisturbed, TypingInv, TypingInv', YearTaxAddsUp,
         NEW r \in Requests, SubmitCommit(r), NEW q \in Quarters, q = job[r].period,
         ByPercentage(q)'
  PROVE  /\ YearVat(q)' = VatAmount(declarations'[q].ytdRevenue, ConfigAt(q, "PERCENTAGE"))
         /\ YearPit(q)' = PitByPercentage(declarations'[q].ytdRevenue, ConfigAt(q, "PERCENTAGE"))
<1> DEFINE config == ConfigAt(q, "PERCENTAGE")
           year == InYear(q)
           ytd == declarations'[q].ytdRevenue
           vats == [e \in Quarters |-> periods[e].vat]
           pits == [e \in Quarters |-> periods[e].pit]
           vatBefore == SumFunctionOnSet(vats, EarlierClosed(q))
           pitBefore == SumFunctionOnSet(pits, EarlierClosed(q))
<1>0. TaxYearTypeOK /\ TaxYearTypeOK' /\ Declared(q)'
  BY DEF TypingInv, ByPercentage
<1>1. /\ ~Declared(q) /\ InYear(q)' = year \cup {q} /\ q \notin year /\ year \in SUBSET Quarters
      /\ \A e \in Quarters : Declared(e) => e < q /\ Closed(e)
      /\ \A e \in Quarters \ {q} : declarations'[e] = declarations[e]
      /\ {e \in EarlierClosed(q) : Declared(e)} = year
  BY <1>0, SubmitsLast
(* All earlier quarters of the year are declared. *)
<1>2. EarlierClosed(q) = year
  <2>1. \A e \in Quarters \ {q} : Closed(e)' <=> Closed(e)
    <3>1. \A e \in Quarters \ {q} : periods'[e] = periods[e]
      BY ClosingEnds, Booked
    <3>2. QED
      BY <3>1 DEF Closed
  <2>2. \A e \in 1 .. q - 1 : e \in Quarters \ {q}
    BY QuartersBefore
  <2>3. EarlierClosed(q)' = EarlierClosed(q)
    BY <2>1, <2>2 DEF EarlierClosed
  <2>4. EarlierClosed(q) \subseteq year \cup {q}
    BY <1>1, <2>3 DEF ByPercentage
  <2>5. q \notin EarlierClosed(q)
    BY QuartersBefore DEF EarlierClosed
  <2>6. QED
    BY <1>1, <2>4, <2>5
<1>3. /\ job[r].figures \in Figures /\ job[r].chosen \in Methods
      /\ job[r].method = job[r].chosen
  BY DEF SubmitCommit, TypingInv, JobOK, Closers
<1>4. /\ declarations'[q].ytdRevenue = YtdRevenue(q, job[r].figures.revenue)
      /\ declarations'[q].vat = TaxIn(r).vat /\ declarations'[q].pit = TaxIn(r).pit
      /\ declarations'[q].method = job[r].chosen
  BY DEF SubmitCommit, Shapes
<1>5. job[r].chosen = "PERCENTAGE"
  BY <1>1, <1>4 DEF ByPercentage
<1>6. TakesPercentage(config) /\ Rates(config)
  BY <1>3, <1>5, ConfigRates DEF ByPercentage, ConfigAt
<1>7. FiguresOf(r) = job[r].figures
  BY <1>3, PeriodsAssumption DEF PeriodsAssumption, FiguresOf
<1>8. /\ TaxIn(r).vat = Deduct(vatBefore, VatAmount(ytd, config))
      /\ TaxIn(r).pit = Deduct(pitBefore, PitByPercentage(ytd, config))
  BY <1>3, <1>4, <1>5, <1>6, <1>7 DEF TaxIn, TaxOf, YtdVat, YtdPit
<1>9. vatBefore = YearSum("vat", q) /\ pitBefore = YearSum("pit", q)
  <2>1. IsFiniteSet(year)
    BY <1>1, FiniteTables
  <2>2. \A e \in year : /\ vats[e] = declarations[e].vat
                        /\ pits[e] = declarations[e].pit
    BY <1>1 DEF Undisturbed, ChargedAsDeclared, InYear
  <2>3. /\ SumFunctionOnSet(vats, year) = SumFunctionOnSet([e \in year |-> declarations[e]["vat"]], year)
        /\ SumFunctionOnSet(pits, year) = SumFunctionOnSet([e \in year |-> declarations[e]["pit"]], year)
    <3> DEFINE vs == [e \in year |-> declarations[e]["vat"]]
               ps == [e \in year |-> declarations[e]["pit"]]
    <3>1. \A e \in year : vats[e] = vs[e] /\ pits[e] = ps[e]
      BY <2>2
    <3> HIDE DEF vs, ps, vats, pits, year
    <3>2. SumFunctionOnSet(vats, year) = SumFunctionOnSet(vs, year)
      BY <2>1, <3>1, SumSame
    <3>3. SumFunctionOnSet(pits, year) = SumFunctionOnSet(ps, year)
      BY <2>1, <3>1, SumSame
    <3>4. QED
      BY <3>2, <3>3 DEF vs, ps
  <2>4. QED
    BY <1>2, <2>3 DEF YearSum
<1>10. /\ YearSum("vat", q)' = YearSum("vat", q) + declarations'[q].vat
       /\ YearSum("pit", q)' = YearSum("pit", q) + declarations'[q].pit
       /\ YearSum("vat", q) \in Nat /\ YearSum("pit", q) \in Nat
       /\ InYear(q) = {} => YearSum("vat", q) = 0 /\ YearSum("pit", q) = 0
  BY <1>0, YearGrows DEF Columns
<1>11. ytd \in Nat /\ VatAmount(ytd, config) \in Nat /\ PitByPercentage(ytd, config) \in Nat
  <2>1. ytd \in Nat
    BY <1>0 DEF TaxYearTypeOK, Declared, DeclarationRow
  <2> HIDE DEF ytd, config
  <2>2. ytd <= ytd
    BY <2>1
  <2>3. QED
    BY <1>6, <2>1, <2>2, VatGrows, PercentageGrows
<1>12. /\ YearSum("vat", q) <= VatAmount(ytd, config)
       /\ YearSum("pit", q) <= PitByPercentage(ytd, config)
  <2>1. CASE year = {}
    BY <1>10, <1>11, <2>1
  <2>2. CASE year # {}
    <3>1. PICK m \in Quarters : m = Max(year) /\ m \in year /\ m < q /\ InYear(m) = year
      BY <1>1, <2>2, LastOfYear
    <3>2. \A e \in year : declarations[e].method = "PERCENTAGE" /\ ConfigOf[e] = ConfigOf[q]
      BY <1>1 DEF ByPercentage
    <3>3. EarlierClosed(m) \subseteq EarlierClosed(q)
      <4>1. \A e \in 1 .. m - 1 : e \in 1 .. q - 1
        BY <3>1, QuartersBefore, PeriodsAssumption DEF PeriodsAssumption, Quarters
      <4>2. YearOf[m] = YearOf[q]
        BY <3>1 DEF InYear
      <4>3. QED
        BY <4>1, <4>2 DEF EarlierClosed
    <3>4. ByPercentage(m)
      <4>1. Declared(m) /\ EarlierClosed(m) \subseteq InYear(m)
        BY <1>2, <3>1, <3>3 DEF InYear
      <4>2. \A e \in InYear(m) : declarations[e].method = "PERCENTAGE" /\ ConfigOf[e] = ConfigOf[m]
        BY <3>1, <3>2
      <4>3. TakesPercentage(ConfigAt(m, "PERCENTAGE"))
        BY <1>6, <3>1, <3>2 DEF ConfigAt
      <4>4. QED
        BY <4>1, <4>2, <4>3 DEF ByPercentage
    <3>5. ConfigAt(m, "PERCENTAGE") = config
      BY <3>1, <3>2 DEF ConfigAt
    <3> DEFINE before == declarations[m].ytdRevenue
    <3>6. YearVat(m) = VatAmount(before, config) /\ YearPit(m) = PitByPercentage(before, config)
      BY <3>4, <3>5 DEF YearTaxAddsUp
    <3>7. YearSum("vat", q) = YearVat(m) /\ YearSum("pit", q) = YearPit(m)
      BY <3>1 DEF YearSum, YearVat, YearPit
    <3>8. before \in Nat /\ before <= ytd
      <4>1. declarations[m] \in DeclarationRow
        BY <3>4 DEF ByPercentage, TypingInv, TaxYearTypeOK, Declared
      <4>2. before \in Nat
        BY <4>1 DEF DeclarationRow
      <4>3. BeforePeriod(q).revenue = before
        BY <2>2, <3>1, CarriedForward
      <4>4. job[r].figures.revenue \in Nat
        BY <1>3 DEF Figures
      <4>5. ytd = before + job[r].figures.revenue
        BY <1>4, <4>3 DEF YtdRevenue
      <4> HIDE DEF before, ytd
      <4>6. QED
        BY <4>2, <4>4, <4>5
    <3> HIDE DEF before, ytd, config
    <3>9. VatAmount(before, config) <= VatAmount(ytd, config)
      BY <1>6, <1>11, <3>8, VatGrows
    <3>10. PitByPercentage(before, config) <= PitByPercentage(ytd, config)
      BY <1>6, <1>11, <3>8, PercentageGrows
    <3>11. QED
      BY <3>6, <3>7, <3>9, <3>10
  <2>3. QED
    BY <2>1, <2>2
<1>13. YearVat(q)' = YearSum("vat", q)' /\ YearPit(q)' = YearSum("pit", q)'
  BY DEF YearVat, YearPit, YearSum
<1> HIDE DEF config, year, ytd, vats, pits, vatBefore, pitBefore
<1>14. /\ YearSum("vat", q) + Deduct(YearSum("vat", q), VatAmount(ytd, config))
            = VatAmount(ytd, config)
       /\ YearSum("pit", q) + Deduct(YearSum("pit", q), PitByPercentage(ytd, config))
            = PitByPercentage(ytd, config)
  BY <1>10, <1>11, <1>12, DeductExactly
<1>15. YearVat(q)' = VatAmount(ytd, config) /\ YearPit(q)' = PitByPercentage(ytd, config)
  BY <1>4, <1>8, <1>9, <1>10, <1>13, <1>14
<1>16. QED
  BY <1>15 DEF ytd, config

(* Every step keeps the taxes of a year adding up. *)
LEMMA StepYearTax ==
  ASSUME Alone, Shapes, InCalendar, Undisturbed, TypingInv, TypingInv', YearTaxAddsUp,
         [TaxYearNext]_taxVars
  PROVE  YearTaxAddsUp'
<1> DEFINE AddsUp(q) ==
      LET config == ConfigAt(q, "PERCENTAGE")
      IN  ByPercentage(q) => /\ YearVat(q) = VatAmount(declarations[q].ytdRevenue, config)
                             /\ YearPit(q) = PitByPercentage(declarations[q].ytdRevenue, config)
(* A quarter declared before, whose year does not change, is taxed as it   *)
(* was.                                                                    *)
<1>1. ASSUME NEW q \in Quarters, Declared(q), EarlierClosed(q)' = EarlierClosed(q),
             InYear(q)' = InYear(q), \A e \in InYear(q) : declarations'[e] = declarations[e],
             declarations'[q] = declarations[q]
      PROVE  AddsUp(q)'
  <2>1. ByPercentage(q)' => ByPercentage(q)
    BY <1>1 DEF ByPercentage, ConfigAt
  <2>2. /\ [e \in InYear(q) |-> declarations'[e].vat] = [e \in InYear(q) |-> declarations[e].vat]
        /\ [e \in InYear(q) |-> declarations'[e].pit] = [e \in InYear(q) |-> declarations[e].pit]
    BY <1>1
  <2>3. YearVat(q)' = YearVat(q) /\ YearPit(q)' = YearPit(q)
    BY <1>1, <2>2 DEF YearVat, YearPit
  <2>4. ByPercentage(q) => /\ YearVat(q) = VatAmount(declarations[q].ytdRevenue, ConfigAt(q, "PERCENTAGE"))
                           /\ YearPit(q) = PitByPercentage(declarations[q].ytdRevenue,
                                                           ConfigAt(q, "PERCENTAGE"))
    BY DEF YearTaxAddsUp
  <2>5. ConfigAt(q, "PERCENTAGE")' = ConfigAt(q, "PERCENTAGE")
    BY DEF ConfigAt
  <2>6. QED
    BY <1>1, <2>1, <2>3, <2>4, <2>5
<1>2. ASSUME ~\E r \in Requests : SubmitCommit(r)
      PROVE  YearTaxAddsUp'
  <2>1. UNCHANGED declarations
    BY <1>2, OnlySubmissionsDeclare
  <2>2. ASSUME NEW q \in Quarters, Declared(q) PROVE AddsUp(q)'
    <3>1. EarlierClosed(q)' = EarlierClosed(q)
      BY <2>2, EarlierStays
    <3>2. InYear(q)' = InYear(q)
      BY <2>1 DEF InYear, Declared
    <3> HIDE DEF AddsUp
    <3>3. QED
      BY <1>1, <2>1, <2>2, <3>1, <3>2
  <2>3. \A q \in Quarters : Declared(q)' => AddsUp(q)'
    <3> HIDE DEF AddsUp
    <3>1. QED
      BY <2>1, <2>2 DEF Declared
  <2>4. QED
    BY <2>3 DEF YearTaxAddsUp, ByPercentage
<1>3. ASSUME NEW r \in Requests, SubmitCommit(r)
      PROVE  YearTaxAddsUp'
  <2>1. PICK q \in Quarters : q = job[r].period
    BY <1>3, ClosingEnds
  <2>2. ASSUME NEW e \in Quarters \ {q}, Declared(e) PROVE AddsUp(e)'
    <3>1. EarlierClosed(e)' = EarlierClosed(e)
      BY <2>2, EarlierStays
    <3>2. InYear(e)' = InYear(e) /\ declarations'[e] = declarations[e]
      BY <1>3, <2>1, <2>2, SubmitsLast
    <3>3. \A d \in InYear(e) : declarations'[d] = declarations[d]
      <4>1. \A d \in InYear(e) : d \in Quarters /\ Declared(d)
        BY PeriodsAssumption DEF InYear, PeriodsAssumption, Quarters
      <4>2. QED
        BY <1>3, <2>1, <4>1, SubmitsLast
    <3> HIDE DEF AddsUp
    <3>4. QED
      BY <1>1, <2>2, <3>1, <3>2, <3>3
  <2>3. \A e \in Quarters \ {q} : Declared(e)' => Declared(e)
    BY <1>3, <2>1, SubmitsLast DEF Declared
  <2>4. ByPercentage(q)' =>
          /\ YearVat(q)' = VatAmount(declarations'[q].ytdRevenue, ConfigAt(q, "PERCENTAGE"))
          /\ YearPit(q)' = PitByPercentage(declarations'[q].ytdRevenue, ConfigAt(q, "PERCENTAGE"))
    BY <1>3, <2>1, SubmitsRest
  <2>5. AddsUp(q)'
    BY <2>4 DEF ConfigAt
  <2>6. \A e \in Quarters : Declared(e)' => AddsUp(e)'
    <3> HIDE DEF AddsUp
    <3>1. QED
      BY <2>2, <2>3, <2>5
  <2>7. QED
    BY <2>6 DEF YearTaxAddsUp, ByPercentage
<1>4. QED
  BY <1>2, <1>3

(* Requests one at a time, without an administrator's: no row is           *)
(* overwritten, and no submission overtakes a close.                       *)
LEMMA NoneDisturbed ==
  ASSUME Alone, Shapes, InCalendar, [TaxYearNext]_taxVars, overridden = {}, contested = {}
  PROVE  overridden' = {} /\ contested' = {}
<1>1. ASSUME NEW r \in Requests, NEW q \in Quarters, RowStep(r, q)
      PROVE  UNCHANGED <<overridden, contested>>
  BY <1>1, RowSteps DEF Alone
<1>2. ASSUME NEW r \in Requests, NEW op \in PaperOps, NEW p \in Papers, Guard(r, op, p)
      PROVE  UNCHANGED <<overridden, contested>>
  BY <1>2 DEF Guard
<1>3. ASSUME NEW r \in Requests, PaperStep(r)
      PROVE  UNCHANGED <<overridden, contested>>
  BY <1>3, PaperSteps
<1>4. ASSUME NEW r \in Requests, NEW q \in Quarters,
             SessionStep(r, q) \/ SubmitRead(r, q) \/ CloseBegin(r, q)
      PROVE  UNCHANGED <<overridden, contested>>
  BY <1>4 DEF SessionStep, StartSession, SaveRevenue, SaveInventory, SaveExpense, SetDraft,
              SubmitRead, CloseBegin
<1>5. ASSUME NEW r \in Requests,
             OpenPeriod(r) \/ SubmitBegin(r) \/ CloseCheck(r) \/ CloseCommit(r) \/ Abandon(r)
      PROVE  UNCHANGED <<overridden, contested>>
  BY <1>5 DEF OpenPeriod, SubmitBegin, CloseCheck, CloseCommit, Abandon
<1>6. ASSUME NEW r \in Requests, SubmitCommit(r)
      PROVE  UNCHANGED <<overridden, contested>>
  <2>1. job[r].op # "closing" /\ \A s \in Requests : s = r
    BY <1>6 DEF SubmitCommit, Alone
  <2>2. \A q : ~UnderWay(q)
    BY <2>1 DEF UnderWay
  <2>3. QED
    BY <1>6, <2>2 DEF SubmitCommit
<1>7. ASSUME NextQuarter \/ UNCHANGED taxVars
      PROVE  UNCHANGED <<overridden, contested>>
  BY <1>7 DEF NextQuarter, taxVars
<1>8. QED
  BY <1>1, <1>2, <1>3, <1>4, <1>5, <1>6, <1>7, StepKinds

(* The invariant of the theorems on tax years.                             *)
YearInv ==
  /\ FiledInv /\ TypingInv /\ Ordered
  /\ overridden = {} /\ contested = {}
  /\ YearToDate /\ YearTaxAddsUp

LEMMA YearIsUndisturbed == YearInv => Undisturbed
BY DEF YearInv, FiledInv, Ordered, Undisturbed

THEOREM TaxYears == Alone /\ Prompt => (TaxYearSpec => []YearInv)
<1> SUFFICES ASSUME Alone, Prompt PROVE TaxYearSpec => []YearInv
  OBVIOUS
<1>1. TaxYearInit => YearInv
  <2> SUFFICES ASSUME TaxYearInit PROVE YearInv
    OBVIOUS
  <2>1. \A q \in Quarters : ~Closed(q) /\ ~Declared(q)
    BY DEF TaxYearInit, Closed, Declared, NewPeriod, NoPeriod
  <2>2. Existing
    BY QuartersBefore DEF TaxYearInit, Existing, NewPeriod, NoPeriod
  <2>3. \A r \in Requests : FirstOpen(r)
    <3>1. \A r \in Requests : job[r].op = "idle"
      BY DEF TaxYearInit, NoJob
    <3>2. QED
      BY <3>1 DEF FirstOpen, Closers
  <2>4. Ordered
    BY <2>1, <2>2, <2>3 DEF Ordered, InOrder
  <2>5. YearToDate /\ YearTaxAddsUp
    BY <2>1 DEF YearToDate, YearTaxAddsUp, ByPercentage
  <2>6. overridden = {} /\ contested = {}
    BY DEF TaxYearInit
  <2>7. QED
    BY <2>4, <2>5, <2>6, InitFiled, InitTyping DEF YearInv
<1>2. ASSUME YearInv, [TaxYearNext]_taxVars
      PROVE  YearInv'
  <2>1. /\ Shapes /\ InCalendar /\ TypingInv /\ Ordered
        /\ overridden = {} /\ contested = {}
        /\ YearToDate /\ YearTaxAddsUp /\ Undisturbed
    BY <1>2, YearIsUndisturbed DEF YearInv, FiledInv
  <2>2. FiledInv'
    BY <1>2, StepShapes, StepCalendar, StepFiled, StepContests DEF YearInv, FiledInv
  <2>3. TypingInv'
    BY <1>2, <2>1, StepTyping
  <2>4. Ordered'
    BY <1>2, <2>1, StepOrdered
  <2>5. overridden' = {} /\ contested' = {}
    BY <1>2, <2>1, NoneDisturbed
  <2>6. YearToDate'
    <3>1. ASSUME NEW r \in Requests, SubmitCommit(r) PROVE YearToDate'
      BY <2>1, <2>3, <3>1, SubmitsYearToDate
    <3>2. ASSUME ~\E r \in Requests : SubmitCommit(r) PROVE YearToDate'
      BY <1>2, <2>1, <3>2, OnlySubmissionsDeclare, YearToDateStays
    <3>3. QED
      BY <3>1, <3>2
  <2>7. YearTaxAddsUp'
    BY <1>2, <2>1, <2>3, StepYearTax
  <2>8. QED
    BY <2>2, <2>3, <2>4, <2>5, <2>6, <2>7 DEF YearInv
<1>3. QED
  BY <1>1, <1>2, PTL DEF TaxYearSpec

(* Requests one at a time: the year to date of a declaration is the sum of *)
(* what the declarations of its year declare, up to it, and begins anew    *)
(* with the year (closeFinancialPeriod, processSubmission).                *)
THEOREM YearsAddUp == Alone /\ Prompt => (TaxYearSpec => []YearToDate)
<1>1. YearInv => YearToDate
  BY DEF YearInv
<1>2. QED
  BY <1>1, TaxYears, PTL

(* Requests one at a time: what a year of declarations by percentage was   *)
(* charged is the tax on its revenue, for all amounts, rates and           *)
(* thresholds: the deduction is never cut off, and the exempt revenue is   *)
(* taken off once (calculateYtdTaxForPercentageMethod).                    *)
THEOREM YearsAreTaxedOnce == Alone /\ Prompt => (TaxYearSpec => []YearTaxAddsUp)
<1>1. YearInv => YearTaxAddsUp
  BY DEF YearInv
<1>2. QED
  BY <1>1, TaxYears, PTL
=============================================================================
