-------------------------- MODULE TaxEngineProofs --------------------------
(***************************************************************************)
(* How the taxes of the engine grow, for every configuration and all       *)
(* amounts.                                                                *)
(***************************************************************************)
EXTENDS TaxEngine, TLAPS

(* Multiplying by a rate keeps the order, and spreads over a difference.   *)
LEMMA RatesKeepOrder ==
  ASSUME NEW x \in Int, NEW y \in Int, NEW r \in Nat, x <= y
  PROVE  x * r <= y * r
OBVIOUS

(* What a revenue adds at a rate is the rate of what it adds.              *)
LEMMA RatesSpread ==
  ASSUME NEW x \in Int, NEW y \in Int, NEW r \in Int
  PROVE  y * r - x * r = (y - x) * r
OBVIOUS

(* A configuration the tax engine may be given.                            *)
Rates(config) ==
  /\ config.group \in Groups /\ config.vatRate \in Nat /\ config.pitRate \in Nat
  /\ config.method \in Methods

(* The rates of a tax on profit are natural numbers, whatever its revenue. *)
LEMMA ProfitRates ==
  ASSUME NEW config, Rates(config)
  PROVE  ProfitRate(config.group, config.method) \in Nat
<1>1. config.group \in {1, 2, 3, 4}
  BY DEF Rates, Groups
<1>2. <<0, 15, 17, 20>>[config.group] \in Nat
  BY <1>1
<1>3. QED
  BY <1>2 DEF ProfitRate

(* Each tax of the engine grows with the revenue, and none with the        *)
(* expense.                                                                *)
LEMMA VatGrows ==
  ASSUME NEW config, Rates(config), NEW x \in Nat, NEW y \in Nat, x <= y
  PROVE  /\ VatAmount(x, config) \in Nat /\ VatAmount(y, config) \in Nat
         /\ VatAmount(x, config) <= VatAmount(y, config)
<1>1. x * config.vatRate \in Nat /\ y * config.vatRate \in Nat
  BY DEF Rates
<1>2. x * config.vatRate <= y * config.vatRate
  BY RatesKeepOrder DEF Rates
<1>3. UnderThreshold(y, config) => UnderThreshold(x, config)
  BY ThresholdAssumption DEF ThresholdAssumption, UnderThreshold
<1>4. QED
  BY <1>1, <1>2, <1>3 DEF VatAmount

(* A tax by percentage grows with the revenue.                             *)
LEMMA PercentageGrows ==
  ASSUME NEW config, Rates(config), NEW x \in Nat, NEW y \in Nat, x <= y
  PROVE  /\ PitByPercentage(x, config) \in Nat /\ PitByPercentage(y, config) \in Nat
         /\ PitByPercentage(x, config) <= PitByPercentage(y, config)
<1>1. /\ AtLeastZero(x - Threshold) \in Nat /\ AtLeastZero(y - Threshold) \in Nat
      /\ AtLeastZero(x - Threshold) <= AtLeastZero(y - Threshold)
  BY ThresholdAssumption DEF ThresholdAssumption, AtLeastZero
<1>2. /\ AtLeastZero(x - Threshold) * config.pitRate \in Nat
      /\ AtLeastZero(y - Threshold) * config.pitRate \in Nat
  BY <1>1 DEF Rates
<1>3. AtLeastZero(x - Threshold) * config.pitRate <= AtLeastZero(y - Threshold) * config.pitRate
  BY <1>1, RatesKeepOrder DEF Rates
<1>4. PitExempt(y, config) => PitExempt(x, config)
  BY ThresholdAssumption DEF ThresholdAssumption, UnderThreshold, PitExempt
<1>5. QED
  BY <1>2, <1>3, <1>4 DEF PitByPercentage

(* A tax on profit grows with the revenue and falls with the expense.      *)
LEMMA ProfitTaxGrows ==
  ASSUME NEW config, Rates(config), NEW x \in Nat, NEW y \in Nat, NEW z \in Nat, x <= y
  PROVE  /\ PitByProfit(x, z, config) \in Nat /\ PitByProfit(y, z, config) \in Nat
         /\ PitByProfit(x, z, config) <= PitByProfit(y, z, config)
         /\ PitByProfit(z, x, config) \in Nat /\ PitByProfit(z, y, config) \in Nat
         /\ PitByProfit(z, y, config) <= PitByProfit(z, x, config)
<1> DEFINE rate == ProfitRate(config.group, config.method)
<1>0. rate \in Nat
  BY ProfitRates
<1>1. /\ AtLeastZero(x - z) \in Nat /\ AtLeastZero(y - z) \in Nat
      /\ AtLeastZero(z - x) \in Nat /\ AtLeastZero(z - y) \in Nat
      /\ AtLeastZero(x - z) <= AtLeastZero(y - z)
      /\ AtLeastZero(z - y) <= AtLeastZero(z - x)
  BY DEF AtLeastZero
<1> HIDE DEF rate
<1>2. /\ AtLeastZero(x - z) * rate \in Nat /\ AtLeastZero(y - z) * rate \in Nat
      /\ AtLeastZero(z - x) * rate \in Nat /\ AtLeastZero(z - y) * rate \in Nat
  BY <1>0, <1>1
<1>3. /\ AtLeastZero(x - z) * rate <= AtLeastZero(y - z) * rate
      /\ AtLeastZero(z - y) * rate <= AtLeastZero(z - x) * rate
  BY <1>0, <1>1, RatesKeepOrder
<1>4. PitExempt(y, config) => PitExempt(x, config)
  BY ThresholdAssumption DEF ThresholdAssumption, UnderThreshold, PitExempt
<1>5. QED
  BY <1>2, <1>3, <1>4 DEF PitByProfit, rate

(* More revenue never means less tax, and more expense never more, for all *)
(* amounts and all rates (calculateTotalTaxDue).                           *)
LEMMA TotalGrows ==
  ASSUME NEW config, Rates(config), NEW x \in Nat, NEW y \in Nat, NEW z \in Nat, x <= y
  PROVE  /\ TotalTaxDue(x, z, config) <= TotalTaxDue(y, z, config)
         /\ TotalTaxDue(z, x, config) >= TotalTaxDue(z, y, config)
<1>1. /\ VatAmount(x, config) \in Nat /\ VatAmount(y, config) \in Nat
      /\ VatAmount(x, config) <= VatAmount(y, config)
  BY VatGrows
<1>2. VatAmount(z, config) \in Nat /\ PitByPercentage(z, config) \in Nat
  BY VatGrows, PercentageGrows
<1>3. CASE TakesPercentage(config)
  BY <1>1, <1>2, <1>3, PercentageGrows DEF TotalTaxDue
<1>4. CASE ~TakesPercentage(config) /\ config.method \in ProfitMethods
  <2>1. /\ PitByProfit(x, z, config) \in Nat /\ PitByProfit(y, z, config) \in Nat
        /\ PitByProfit(x, z, config) <= PitByProfit(y, z, config)
        /\ PitByProfit(z, x, config) \in Nat /\ PitByProfit(z, y, config) \in Nat
        /\ PitByProfit(z, y, config) <= PitByProfit(z, x, config)
    BY ProfitTaxGrows
  <2>2. \A m, n \in Nat : TotalTaxDue(m, n, config) = VatAmount(m, config) + PitByProfit(m, n, config)
    BY <1>4 DEF TotalTaxDue
  <2>3. QED
    BY <1>1, <1>2, <2>1, <2>2
<1>5. CASE ~TakesPercentage(config) /\ config.method \notin ProfitMethods
  BY <1>1, <1>2, <1>5 DEF TotalTaxDue
<1>6. QED
  BY <1>3, <1>4, <1>5

(* What additional revenue adds to a tax of the engine, outside group 1.   *)
LEMMA VatSpreads ==
  ASSUME NEW config, Rates(config), config.group # 1, NEW x \in Nat, NEW y \in Nat, x <= y
  PROVE  VatAmount(y, config) - VatAmount(x, config) = (y - x) * config.vatRate
BY RatesSpread DEF Rates, VatAmount, UnderThreshold

(* Additional revenue adds no more income tax by percentage than its rate. *)
LEMMA PitSpreads ==
  ASSUME NEW a \in Int, NEW b \in Int, NEW c \in Int, NEW rate \in Nat, a <= b, b - a <= c
  PROVE  b * rate - a * rate <= c * rate
<1>1. b * rate - a * rate = (b - a) * rate
  BY RatesSpread
<1>2. (b - a) * rate <= c * rate
  BY RatesKeepOrder
<1>3. QED
  BY <1>1, <1>2

(* Additional revenue adds no more tax in all than the rates of the        *)
(* period.                                                                 *)
LEMMA TotalSpreads ==
  ASSUME NEW config, Rates(config), config.group # 1, NEW x \in Nat, NEW y \in Nat, x <= y
  PROVE  TotalTaxDue(y, 0, config) - TotalTaxDue(x, 0, config)
           <= (y - x) * (config.vatRate + IF TakesPercentage(config) THEN config.pitRate
                                          ELSE ProfitRate(config.group, config.method))
<1> DEFINE rate == IF TakesPercentage(config) THEN config.pitRate
                   ELSE ProfitRate(config.group, config.method)
           pit(n) == IF TakesPercentage(config) THEN PitByPercentage(n, config)
                     ELSE IF config.method \in ProfitMethods THEN PitByProfit(n, 0, config)
                     ELSE 0
<1>1. rate \in Nat /\ config.vatRate \in Nat
  BY ProfitRates DEF Rates
<1>2. ~UnderThreshold(x, config) /\ ~UnderThreshold(y, config)
  BY DEF UnderThreshold
<1>3. pit(y) - pit(x) <= (y - x) * rate
  <2>1. CASE TakesPercentage(config)
    <3>1. /\ AtLeastZero(x - Threshold) \in Nat /\ AtLeastZero(y - Threshold) \in Nat
          /\ AtLeastZero(x - Threshold) <= AtLeastZero(y - Threshold)
          /\ AtLeastZero(y - Threshold) - AtLeastZero(x - Threshold) <= y - x
      BY ThresholdAssumption DEF ThresholdAssumption, AtLeastZero
    <3>2. /\ pit(x) = AtLeastZero(x - Threshold) * config.pitRate
          /\ pit(y) = AtLeastZero(y - Threshold) * config.pitRate
      BY <1>2, <2>1 DEF PitByPercentage, PitExempt, TakesPercentage
    <3>3. rate = config.pitRate
      BY <2>1
    <3>4. QED
      BY <1>1, <3>1, <3>2, <3>3, PitSpreads
  <2>2. CASE ~TakesPercentage(config) /\ config.method \in ProfitMethods
    <3>1. AtLeastZero(x - 0) = x /\ AtLeastZero(y - 0) = y
      BY DEF AtLeastZero
    <3>2. pit(x) = x * rate /\ pit(y) = y * rate
      BY <1>2, <2>2, <3>1 DEF PitByProfit, PitExempt, ProfitMethods
    <3>3. QED
      BY <1>1, <3>2, PitSpreads
  <2>3. CASE ~TakesPercentage(config) /\ config.method \notin ProfitMethods
    <3>1. pit(x) = 0 /\ pit(y) = 0
      BY <2>3
    <3>2. (y - x) * rate \in Nat
      BY <1>1
    <3>3. QED
      BY <3>1, <3>2
  <2>4. QED
    BY <2>1, <2>2, <2>3
<1>4. VatAmount(y, config) - VatAmount(x, config) = (y - x) * config.vatRate
  BY VatSpreads
<1>5. /\ TotalTaxDue(x, 0, config) = VatAmount(x, config) + pit(x)
      /\ TotalTaxDue(y, 0, config) = VatAmount(y, config) + pit(y)
  BY DEF TotalTaxDue
<1>6. pit(x) \in Int /\ pit(y) \in Int /\ VatAmount(x, config) \in Int /\ VatAmount(y, config) \in Int
  <2>1. /\ PitByPercentage(x, config) \in Nat /\ PitByPercentage(y, config) \in Nat
        /\ VatAmount(x, config) \in Nat /\ VatAmount(y, config) \in Nat
    BY VatGrows, PercentageGrows
  <2>2. PitByProfit(x, 0, config) \in Nat /\ PitByProfit(y, 0, config) \in Nat
    <3>1. 0 \in Nat
      OBVIOUS
    <3>2. QED
      BY <3>1, ProfitTaxGrows
  <2>3. QED
    BY <2>1, <2>2
<1> HIDE DEF rate, pit
<1>7. (y - x) * (config.vatRate + rate) = (y - x) * config.vatRate + (y - x) * rate
  BY <1>1
<1>8. (y - x) * config.vatRate \in Int /\ (y - x) * rate \in Int
  BY <1>1
<1>9. TotalTaxDue(y, 0, config) - TotalTaxDue(x, 0, config) <= (y - x) * (config.vatRate + rate)
  BY <1>3, <1>4, <1>5, <1>6, <1>7, <1>8
<1>10. QED
  BY <1>9 DEF rate
=============================================================================
