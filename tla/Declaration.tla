---------------------------- MODULE Declaration ----------------------------
(***************************************************************************)
(* Declaring the tax of a period                                           *)
(* (src/tax-declaration/tax-declaration.service.ts): a session fills a     *)
(* draft step by step and submits it, which closes the period and inserts  *)
(* the declaration in one transaction.  A step of a session is one step    *)
(* here; a submission reads its figures before its transaction.            *)
(***************************************************************************)
EXTENDS Periods

NoDraft    == [open |-> FALSE, revenue |-> None, counted |-> FALSE, expense |-> None]
EmptyDraft == [NoDraft EXCEPT !.open = TRUE]

DraftRow == [open : BOOLEAN, revenue : Nat \cup {None}, counted : BOOLEAN,
             expense : Nat \cup {None}]

DeclarationRow == [revenue : Nat, expense : Nat, ytdRevenue : Nat, ytdExpense : Nat,
                   vat : Nat, pit : Nat, tax : Nat, method : Methods]

Filled(draft) == draft.revenue # None /\ draft.expense # None

FiguresIn(draft) == [revenue |-> draft.revenue, expense |-> draft.expense]

SetDraft(q, draft) ==
  /\ drafts' = [drafts EXCEPT ![q] = draft]
  /\ UNCHANGED <<periods, methods, papers, declarations, today, job, overridden, contested>>

-----------------------------------------------------------------------------
(* Plausible mistakes: a submission is not compared with the sums; the     *)
(* unique period of a declaration is missing from the schema.              *)
UnchangedAlways(q) == TRUE
DeclarableAgain(q) == TRUE

-----------------------------------------------------------------------------
(* startSession: an open period gets a draft, if it has none. *)
StartSession(r, q) ==
  /\ MayAsk(r, "declare")
  /\ Opened(q) /\ ~drafts[q].open
  /\ SetDraft(q, EmptyDraft)

(* saveStep2: the revenue as it is. *)
SaveRevenue(r, q) ==
  /\ MayAsk(r, "declare")
  /\ drafts[q].open
  /\ SetDraft(q, [drafts[q] EXCEPT !.revenue = Revenue(q)])

(* saveStep3: the client's count of the goods. *)
SaveInventory(r, q) ==
  /\ MayAsk(r, "declare")
  /\ drafts[q].open /\ drafts[q].revenue = Revenue(q)
  /\ SetDraft(q, [drafts[q] EXCEPT !.counted = TRUE])

(* saveStep4: the expense as it is. *)
SaveExpense(r, q) ==
  /\ MayAsk(r, "declare")
  /\ drafts[q].open /\ drafts[q].revenue = Revenue(q) /\ drafts[q].counted
  /\ SetDraft(q, [drafts[q] EXCEPT !.expense = Expense(q)])

-----------------------------------------------------------------------------
(* submit declares the draft if nothing has changed, submitForce the sums  *)
(* as they are, submitIgnoreWarning the draft whatever has changed.        *)
DataUnchanged(q) == FiguresIn(drafts[q]) = RealtimeTaxData(q)

MayDeclare(op, q) ==
  CASE op = "submit"        -> Filled(drafts[q]) /\ DataUnchanged(q)
    [] op = "submit force"  -> TRUE
    [] op = "submit ignore" -> Filled(drafts[q])

DeclaredFigures(op, q) ==
  IF op = "submit force" THEN RealtimeTaxData(q) ELSE FiguresIn(drafts[q])

SubmitRead(r, q) ==
  /\ periods[q].status # "ABSENT"
  /\ \E op \in {"submit", "submit force", "submit ignore"}, method \in Picks :
       /\ MayAsk(r, op)
       /\ MayDeclare(op, q)
       /\ job' = [job EXCEPT ![r] = [op |-> op, period |-> q, chosen |-> method,
                                     figures |-> DeclaredFigures(op, q)]]
  /\ UNCHANGED <<periods, methods, papers, declarations, drafts, today, overridden, contested>>

(* processSubmission: the transaction closes the period by the figures ... *)
SubmitBegin(r) ==
  /\ job[r].op \in {"submit", "submit force", "submit ignore"}
  /\ Closable(job[r].period)
  /\ job' = [job EXCEPT ![r] =
       Closing(IF @.op = "submit ignore" THEN "filing ignored" ELSE "filing",
               @.period, @.figures, @.chosen)]
  /\ UNCHANGED <<periods, methods, papers, declarations, drafts, today, overridden, contested>>

(* ... inserts the declaration, one for a period, and removes the draft.   *)
Declarable(q) == ~Declared(q)

(* A plain close that is under way has read that the period is open, and   *)
(* will write its own taxes into it.                                       *)
UnderWay(q) == \E s \in Requests : job[s].op = "closing" /\ job[s].period = q

SubmitCommit(r) ==
  /\ job[r].op \in {"filing", "filing ignored"} /\ job[r].checked
  /\ Declarable(job[r].period)
  /\ BookPeriod(r)
  /\ declarations' = [declarations EXCEPT ![job[r].period] =
       [revenue |-> job[r].figures.revenue, expense |-> job[r].figures.expense,
        ytdRevenue |-> YtdRevenue(job[r].period, job[r].figures.revenue),
        ytdExpense |-> YtdExpense(job[r].period, job[r].figures.expense),
        vat |-> TaxIn(r).vat, pit |-> TaxIn(r).pit, tax |-> TaxIn(r).tax,
        method |-> job[r].chosen]]
  /\ drafts' = [drafts EXCEPT ![job[r].period] = NoDraft]
  /\ contested' = contested \cup {q \in {job[r].period} : UnderWay(q)}
  /\ Done(r)
  /\ UNCHANGED <<papers, today, overridden>>

DeclarationStep(r) ==
  \/ \E q \in Quarters : \/ StartSession(r, q) \/ SaveRevenue(r, q) \/ SaveInventory(r, q)
                         \/ SaveExpense(r, q) \/ SubmitRead(r, q)
  \/ SubmitBegin(r)
  \/ SubmitCommit(r)
=============================================================================
