------------------------------ MODULE TaxRules ------------------------------
(***************************************************************************)
(* What the configurations of Onboarding, the dates of Calendar and the    *)
(* taxes of TaxEngine promise together.                                    *)
(***************************************************************************)
EXTENDS Onboarding

CONSTANT Sums   \* the revenues and expenses to compare taxes on

ASSUME SumsAssumption == Sums \subseteq Nat

(* A user is set up once, and from then on the configurations, each with   *)
(* both its rates, follow each other without a gap: each ends on the day   *)
(* its successor begins, and the last does not end, even when the button   *)
(* is pressed twice (the conditional updates of setupTaxConfiguration and  *)
(* updateTaxConfiguration).                                                *)
ConfigsChain ==
  /\ configs \in Seq(Config)
  /\ configs = <<>> <=> setUpAt = None
  /\ \A k \in DOMAIN configs :
       IF k = Len(configs) THEN configs[k].to = MaxEffectiveDate
       ELSE configs[k].to = configs[k + 1].from

(* Configurations are at least the cooldown apart, whatever day the clock  *)
(* shows when an update is committed.                                      *)
SpacedByCooldown ==
  \A k \in 1 .. Len(configs) - 1 : configs[k + 1].from - configs[k].from >= Cooldown

(* Every day is in its period, periods follow each other without a gap,    *)
(* and the deadline is the first working day on or after the nominal one   *)
(* in the month after the period (calculatePeriodMetadata).                *)
CalendarFits ==
  \A day \in Days \cup {p.end : p \in opened}, filing \in Filings :
    LET end == PeriodEnd(day, filing)
        due == Deadline(day, filing)
        nominal == IF filing = "MONTHLY" THEN end + 20
                   ELSE EndOfMonth(MonthOf(end) + 1)
    IN  /\ day \in PeriodStart(day, filing) .. end
        /\ MonthOf(end) < FilingMonths => PeriodStart(end + 1, filing) = end + 1
        /\ due >= nominal /\ Weekday(due) \in 1 .. 5
        /\ \A d \in nominal .. due - 1 : Weekday(d) \in {0, 6}

(* The forms a configuration may take in its life: closing a period may    *)
(* choose another method, and no code compares it with those of the group. *)
FormsOf(row) == {[group |-> row.group, method |-> m, vatRate |-> row.vatRate,
                  pitRate |-> row.pitRate] : m \in Methods}
InUse == UNION {FormsOf(configs[k]) : k \in DOMAIN configs}

(* More revenue never means less tax, and more expense never more tax.     *)
TaxIsMonotone ==
  \A config \in InUse, x, y \in Sums : x <= y =>
    \A z \in Sums : /\ TotalTaxDue(x, z, config) <= TotalTaxDue(y, z, config)
                    /\ TotalTaxDue(z, x, config) >= TotalTaxDue(z, y, config)

(* Outside group 1 the tax has no cliff: additional revenue is taxed at no *)
(* more than the rates, also across the exempt threshold.                  *)
NoCliff ==
  \A config \in {c \in InUse : c.group # 1}, x, y \in Sums : x <= y =>
    TotalTaxDue(y, 0, config) - TotalTaxDue(x, 0, config)
      <= (y - x) * (config.vatRate + IF TakesPercentage(config) THEN config.pitRate
                                     ELSE ProfitRate(config.group, config.method))
=============================================================================
