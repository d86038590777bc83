----------------------------- MODULE TaxEngine -----------------------------
(***************************************************************************)
(* The tax engine (src/tax-engine/tax-engine.service.ts): what a household *)
(* business owes on a revenue and an expense, by its tax configuration.    *)
(* Rates are in per cent, so taxes come out in hundredths of the unit of   *)
(* money and all arithmetic is exact, as it is with the code's Decimals.   *)
(***************************************************************************)
EXTENDS Integers

CONSTANT Threshold   \* TAX_EXEMPT_REVENUE_THRESHOLD, 500 million

ASSUME ThresholdAssumption == Threshold \in Nat

Groups == 1 .. 4
ProfitMethods == {"PROFIT_15", "PROFIT_17", "PROFIT_20"}
Methods == {"EXEMPT", "PERCENTAGE"} \cup ProfitMethods

(* The methods the seeded tax groups allow, and the one a configuration    *)
(* starts with (findTaxGroupValid of src/onboarding/onboarding.service.ts). *)
AllowedMethods ==
  <<{"EXEMPT"}, {"PERCENTAGE", "PROFIT_15"}, {"PROFIT_17"}, {"PROFIT_20"}>>

DefaultMethod == <<"EXEMPT", "PERCENTAGE", "PROFIT_17", "PROFIT_20">>

AtLeastZero(x) == IF x < 0 THEN 0 ELSE x

-----------------------------------------------------------------------------
(* Plausible mistakes: the comparison is swapped; the exempt revenue is    *)
(* taxed once it is exceeded.                                              *)
OverThreshold(revenue, config) == config.group = 1 /\ revenue >= Threshold

PercentageOfAll(revenue, config) ==
  IF config.group = 2 /\ config.method # "EXEMPT" /\ revenue > Threshold
  THEN revenue * config.pitRate ELSE 0

-----------------------------------------------------------------------------
UnderThreshold(revenue, config) == config.group = 1 /\ revenue <= Threshold

VatAmount(revenue, config) ==
  IF UnderThreshold(revenue, config) THEN 0 ELSE revenue * config.vatRate

(* The rate on profits: that of the chosen method or, when the method is   *)
(* not one on profits, the default of the group.                           *)
ProfitRate(group, method) ==
  CASE method = "PROFIT_15" -> 15
    [] method = "PROFIT_17" -> 17
    [] method = "PROFIT_20" -> 20
    [] OTHER -> <<0, 15, 17, 20>>[group]

(* The income tax by profit and, for group 2, by a percentage of revenue;  *)
(* an amount that does not apply is null in the code and 0 here, which is  *)
(* what every caller replaces a null with.                                 *)
PitExempt(revenue, config) ==
  config.method = "EXEMPT" \/ UnderThreshold(revenue, config)

PitByProfit(revenue, expense, config) ==
  IF PitExempt(revenue, config) THEN 0
  ELSE AtLeastZero(revenue - expense) * ProfitRate(config.group, config.method)

PitByPercentage(revenue, config) ==
  IF config.group = 2 /\ ~PitExempt(revenue, config)
  THEN AtLeastZero(revenue - Threshold) * config.pitRate
  ELSE 0

TakesPercentage(config) == config.method = "PERCENTAGE" /\ config.group = 2

TotalTaxDue(revenue, expense, config) ==
  VatAmount(revenue, config)
  + IF TakesPercentage(config) THEN PitByPercentage(revenue, config)
    ELSE IF config.method \in ProfitMethods THEN PitByProfit(revenue, expense, config)
    ELSE 0

(* The penalty of 0.03% a day, in ten-thousandths of the tax's unit. *)
PenaltyAmount(tax, days) == IF days <= 0 \/ tax <= 0 THEN 0 ELSE tax * days * 3
=============================================================================
