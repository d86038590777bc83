------------------------------ MODULE TaxYear ------------------------------
(***************************************************************************)
(* A user's tax years: documents, periods and declarations together, by    *)
(* requests that interleave, while quarters pass.                          *)
(***************************************************************************)
EXTENDS Declaration

(* The setup has just opened the first period (createInitialPeriod).       *)
TaxYearInit ==
  /\ periods = [q \in Quarters |-> IF q = 1 THEN NewPeriod ELSE NoPeriod]
  /\ methods = [c \in DOMAIN Configs |-> DefaultMethod[Configs[c].group]]
  /\ papers = [p \in Papers |-> NoPaper]
  /\ declarations = [q \in Quarters |-> None]
  /\ drafts = [q \in Quarters |-> NoDraft]
  /\ today = 1
  /\ job = [r \in Requests |-> NoJob]
  /\ overridden = {} /\ contested = {}

TaxYearNext ==
  \/ \E r \in Requests : \/ \E op \in PaperOps, p \in Papers : Guard(r, op, p)
                         \/ OpenPeriod(r)
                         \/ PaperStep(r)
                         \/ PeriodStep(r)
                         \/ DeclarationStep(r)
  \/ NextQuarter

TaxYearSpec == TaxYearInit /\ [][TaxYearNext]_taxVars

-----------------------------------------------------------------------------
(* Every row has its type; no amount of tax is negative. *)
TaxYearTypeOK ==
  /\ periods \in [Quarters -> PeriodRow]
  /\ methods \in [DOMAIN Configs -> Methods]
  /\ papers \in [Papers -> [status : PaperStatus, date : Dates \cup {None}]]
  /\ declarations \in [Quarters -> DeclarationRow \cup {None}]
  /\ drafts \in [Quarters -> DraftRow]
  /\ today \in Quarters
  /\ overridden \subseteq Quarters /\ contested \subseteq Quarters

(* A declared period is closed: it is not reopened, however accountants    *)
(* close, submit and reopen at once, as long as no administrator writes    *)
(* its row.                                                                *)
DeclaredIsClosed == \A q \in Quarters \ overridden : Declared(q) => Closed(q)

(* A declared period was charged what its declaration says, and that is    *)
(* never changed, whatever races, unless a plain close of the period was   *)
(* already under way when it was declared: that one writes its own taxes.  *)
ChargedAsDeclared ==
  \A q \in Quarters \ (overridden \cup contested) : Declared(q) =>
    /\ periods[q].vat = declarations[q].vat
    /\ periods[q].pit = declarations[q].pit
    /\ periods[q].tax = declarations[q].tax

DeclaredAsClosed == DeclaredIsClosed /\ ChargedAsDeclared

(* A declaration is final: the legal document of a period is made once and *)
(* never again, also when an administrator reopens its period and the      *)
(* session is gone through a second time.                                  *)
DeclarationFinal ==
  [][\A q \in Quarters : Declared(q) => declarations'[q] = declarations[q]]_taxVars

(* Tax is confirmed as paid only for a period that is declared and closed. *)
PaidIsFiled ==
  \A q \in Quarters \ overridden : periods[q].paid => Closed(q) /\ Declared(q)

(* Books are closed in order and opened in the reverse order: no open      *)
(* period lies before a closed one.                                        *)
ClosedIsPrefix ==
  \A q \in Quarters : Closed(q) => ~\E e \in 1 .. q - 1 : Opened(e)

(* A closed period contains no invoice that could still be issued.         *)
NothingPending == \A q \in Quarters : Closed(q) => Unfinished(q) = {}

(* While a period is closed, its revenue does not grow: no sale appears in *)
(* it after its tax was computed.                                          *)
NoLateRevenue ==
  [][\A q \in Quarters : Closed(q) /\ Closed(q)' => Revenue(q)' <= Revenue(q)]_taxVars

(* A submission that the user was not warned about declares the sums of    *)
(* the period as they are when it is closed.                               *)
SubmittedIsTrue ==
  [][\A q \in Quarters : declarations'[q] # declarations[q] =>
       (\E r \in Requests : job[r].op = "filing ignored")
         \/ [revenue |-> declarations'[q].revenue, expense |-> declarations'[q].expense]
              = RealtimeTaxData(q)]_taxVars

(* One request at a time, and no administrator's: then what a guard or a   *)
(* close has read is still true when it is used.                           *)
Alone ==
  /\ \A r, s \in Requests : r = s
  /\ \A r \in Requests : "override" \notin Permits[r]

InYear(q) == {e \in 1 .. q : YearOf[e] = YearOf[q] /\ Declared(e)}

(* What the declarations of the year up to a quarter say, added up. *)
YearRevenue(q) == SumFunctionOnSet([e \in InYear(q) |-> declarations[e].revenue], InYear(q))
YearExpense(q) == SumFunctionOnSet([e \in InYear(q) |-> declarations[e].expense], InYear(q))
YearVat(q)     == SumFunctionOnSet([e \in InYear(q) |-> declarations[e].vat], InYear(q))
YearPit(q)     == SumFunctionOnSet([e \in InYear(q) |-> declarations[e].pit], InYear(q))

(* The year to date of a declaration is the sum of what the declarations   *)
(* of the year up to it declare, and begins anew with the year.            *)
YearToDate ==
  \A q \in Quarters : Declared(q) =>
    /\ declarations[q].ytdRevenue = YearRevenue(q)
    /\ declarations[q].ytdExpense = YearExpense(q)

ByPercentage(q) ==
  /\ Declared(q) /\ EarlierClosed(q) \subseteq InYear(q)
  /\ TakesPercentage(ConfigAt(q, "PERCENTAGE"))
  /\ \A e \in InYear(q) : declarations[e].method = "PERCENTAGE" /\ ConfigOf[e] = ConfigOf[q]

(* Quarterly taxes add up to the yearly one: in a year in which every      *)
(* closed period is declared and taxed by percentage, as group 2 may be,   *)
(* what was charged up to a quarter is the tax on the revenue up to it,    *)
(* with the exempt revenue taken off once.                                 *)
YearTaxAddsUp ==
  \A q \in Quarters :
    LET config == ConfigAt(q, "PERCENTAGE")
    IN  ByPercentage(q) => /\ YearVat(q) = VatAmount(declarations[q].ytdRevenue, config)
                           /\ YearPit(q) = PitByPercentage(declarations[q].ytdRevenue, config)

(* "If an earlier period is not closed yet -> prevent" (in Vietnamese,     *)
(* src/financial-periods/financial-period-validation.service.ts:24): the   *)
(* guard opens no period after one that is still open.                     *)
OpenedInOrder ==
  [][\A q \in Quarters : periods[q].status = "ABSENT" /\ Opened(q)' =>
       ~\E e \in 1 .. q - 1 : Opened(e)]_taxVars

(* "If the target period is `CLOSED`, the operation is strictly blocked    *)
(* (Read-only mode)" (src/financial-periods/README.md:23): what a closed   *)
(* period sums stays as it is.                                             *)
ClosedIsReadOnly ==
  [][\A q \in Quarters : Closed(q) /\ Closed(q)' =>
       RealtimeTaxData(q)' = RealtimeTaxData(q)]_taxVars
=============================================================================
