----------------------------- MODULE Onboarding -----------------------------
(***************************************************************************)
(* The tax configurations of a user (src/onboarding/onboarding.service.ts).*)
(* The first is made by the setup, which also opens the first tax period;  *)
(* a later one ends its predecessor on the day it begins.  Both handlers   *)
(* read without locks before they write, so each has two steps.            *)
(* The option isSystemAutoUpgrade is passed by no caller and left out.     *)
(***************************************************************************)
EXTENDS TaxEngine, Calendar

CONSTANTS
  Requests,    \* slots for requests in flight
  Categories,  \* table tax_categories
  VatOf,       \* its vat_rate, or None
  PitOf,       \* its pit_rate, or None
  ParentOf,    \* its parent_id, or None
  Tags,        \* table ui_popular_tags ...
  TagOf,       \* ... and its mapped_tax_id
  Days,        \* the days on which something may happen
  Cooldown,    \* TAX_QUARTER_COOLDOWN_MS, 90 days
  MaxConfigs,  \* bound on the configurations of a behaviour
  None

MaxDepth == 5                                   \* of the walk to a rated ancestor
MaxEffectiveDate == EndOfMonth(Len(MonthLengths)) + 1   \* a day after all others
Filing == "QUARTERLY"                           \* the column's default, never written

ASSUME OnboardingAssumption ==
  /\ VatOf \in [Categories -> Nat \cup {None}]
  /\ PitOf \in [Categories -> Nat \cup {None}]
  /\ ParentOf \in [Categories -> Categories \cup {None}]
  /\ TagOf \in [Tags -> Categories]
  /\ Days \subseteq 1 .. EndOfMonth(FilingMonths)
  /\ Cooldown \in Nat /\ MaxConfigs \in Nat
  /\ None \notin Nat \cup Categories

VARIABLES
  configs,     \* table tax_configurations, in the order of insertion
  setUpAt,     \* users.set_up_completed_at
  opened,      \* the periods that setups have upserted, by a day of theirs
  today,       \* the clock
  job          \* what each request read and is about to write

onboardingVars == <<configs, setUpAt, opened, today, job>>

Config == [group : Groups, method : Methods, vatRate : Nat, pitRate : Nat,
           from : Nat, to : Nat]

NoJob == [op |-> "idle"]

-----------------------------------------------------------------------------
(* Plausible mistakes: the old row is closed by its id alone; the cooldown *)
(* runs from the setup.                                                    *)
StillOpenUnchecked(k) == TRUE
CooledFromSetup(row)  == today - setUpAt >= Cooldown

-----------------------------------------------------------------------------
(* mapPitMethodToRate *)
MethodRate(method, categoryRate) ==
  CASE method = "EXEMPT"     -> 0
    [] method = "PERCENTAGE" -> categoryRate
    [] method = "PROFIT_15"  -> 15
    [] method = "PROFIT_17"  -> 17
    [] method = "PROFIT_20"  -> 20

(* findEffectiveTaxRate: the nearest of a category and its ancestors with  *)
(* both rates; none within MaxDepth parents is an error.                   *)
Rated(c) == VatOf[c] # None /\ PitOf[c] # None

Lineage(c) ==
  LET up[k \in 0 .. MaxDepth] ==
        IF k = 0 THEN c ELSE IF up[k - 1] = None THEN None ELSE ParentOf[up[k - 1]]
  IN  up

RatedDepths(c) ==
  {k \in 0 .. MaxDepth : Lineage(c)[k] \in Categories /\ Rated(Lineage(c)[k])}
HasRates(c)    == RatedDepths(c) # {}
EffectiveCategory(c) == Lineage(c)[Min(RatedDepths(c))]

(* resolveTaxCategory: a category itself, or the one a popular tag maps to *)
Choosable == Categories \cup {TagOf[t] : t \in Tags}

NewConfig(c, group, day) ==
  LET rated == EffectiveCategory(c) IN
  [group |-> group, method |-> DefaultMethod[group], vatRate |-> VatOf[rated],
   pitRate |-> MethodRate(DefaultMethod[group], PitOf[rated]),
   from |-> day, to |-> MaxEffectiveDate]

Drawn(op, row) == {[op |-> op, old |-> row, new |-> NewConfig(c, g, today)] :
                     c \in {x \in Choosable : HasRates(x)}, g \in Groups}

-----------------------------------------------------------------------------
(* setupTaxConfiguration: refused to a user who has a configuration ... *)
SetupBegin(r) ==
  /\ job[r] = NoJob
  /\ configs = <<>>
  /\ \E j \in Drawn("setup", 0) : job' = [job EXCEPT ![r] = j]
  /\ UNCHANGED <<configs, setUpAt, opened, today>>

(* ... and undone when the user's row says by now that it is set up.       *)
NotSetUp == setUpAt = None

SetupCommit(r) ==
  /\ job[r].op = "setup"
  /\ NotSetUp
  /\ configs' = Append(configs, job[r].new)
  /\ setUpAt' = job[r].new.from
  /\ opened' = opened \cup {[start |-> PeriodStart(today, Filing),
                             end |-> PeriodEnd(today, Filing),
                             deadline |-> Deadline(today, Filing)]}
  /\ job' = [job EXCEPT ![r] = NoJob]
  /\ UNCHANGED today

(* updateTaxConfiguration: the configuration in force, if it has been for  *)
(* long enough, ...                                                        *)
InForce(k)   == configs[k].from <= today /\ configs[k].to = MaxEffectiveDate
Cooled(row) == today - row.from >= Cooldown

UpdateBegin(r) ==
  /\ job[r] = NoJob
  /\ Len(configs) < MaxConfigs
  /\ \E k \in DOMAIN configs :
       /\ InForce(k)
       /\ Cooled(configs[k])
       /\ \E j \in Drawn("update", k) : job' = [job EXCEPT ![r] = j]
  /\ UNCHANGED <<configs, setUpAt, opened, today>>

(* ... ends on the day its successor begins, if nobody ended it meanwhile. *)
StillOpen(k) == configs[k].to = MaxEffectiveDate

UpdateCommit(r) ==
  /\ job[r].op = "update"
  /\ StillOpen(job[r].old)
  /\ configs' = Append([configs EXCEPT ![job[r].old].to = job[r].new.from], job[r].new)
  /\ job' = [job EXCEPT ![r] = NoJob]
  /\ UNCHANGED <<setUpAt, opened, today>>

(* A refusal or a failure, which rolls the transaction back. *)
Abandon(r) ==
  /\ job[r] # NoJob
  /\ job' = [job EXCEPT ![r] = NoJob]
  /\ UNCHANGED <<configs, setUpAt, opened, today>>

(* A request may be in flight past midnight. *)
Tick ==
  /\ \E day \in Days : day > today /\ today' = day
  /\ UNCHANGED <<configs, setUpAt, opened, job>>

-----------------------------------------------------------------------------
OnboardingInit ==
  /\ configs = <<>> /\ setUpAt = None /\ opened = {}
  /\ today \in Days
  /\ job = [r \in Requests |-> NoJob]

OnboardingNext ==
  \/ \E r \in Requests : \/ SetupBegin(r) \/ SetupCommit(r)
                         \/ UpdateBegin(r) \/ UpdateCommit(r) \/ Abandon(r)
  \/ Tick

OnboardingSpec == OnboardingInit /\ [][OnboardingNext]_onboardingVars
=============================================================================
