----------------------------- MODULE BooksProofs -----------------------------
(***************************************************************************)
(* What the accounting books show, for every set of documents, products,   *)
(* ranges and configurations.                                              *)
(***************************************************************************)
EXTENDS Books, TaxEngineProofs, SumTheorems, SequenceTheorems

(* The rows of documents: what is there has a day, and was written at a    *)
(* time.                                                                   *)
Row == [state : States, day : Int, size : Nat, stamp : Nat]

BooksTyped ==
  /\ rows \in [Docs -> Row]
  /\ opening \in [Products -> Nat]
  /\ clock \in Nat
  /\ \A d \in Docs : /\ rows[d].state # "ABSENT" => rows[d].day \in Days
                     /\ rows[d].stamp <= clock

(* Documents are finite in number.                                         *)
LEMMA DocsAreFinite == \A S \in SUBSET Docs : IsFiniteSet(S)
<1>1. IsFiniteSet(Docs)
  BY BooksAssumption, FS_Interval DEF BooksAssumption
<1>2. QED
  BY <1>1, FS_Subset

(* At first there are none.                                                *)
LEMMA InitTyped == BooksInit => BooksTyped
<1> SUFFICES ASSUME BooksInit PROVE BooksTyped
  OBVIOUS
<1>1. Absent \in Row
  BY DEF Absent, Row, States
<1>2. Min(Openings) \in Openings
  <2>0. Openings \subseteq Nat
    BY BooksAssumption DEF BooksAssumption
  <2>1. PICK x \in Openings : TRUE
    BY BooksAssumption DEF BooksAssumption
  <2> DEFINE N == {n \in Nat : \A m \in Openings : m <= n => \E k \in Openings : \A j \in Openings : k <= j}
  <2>2. 0 \in N
    <3> SUFFICES ASSUME NEW m \in Openings, m <= 0
                 PROVE  \E k \in Openings : \A j \in Openings : k <= j
      OBVIOUS
    <3>1. \A j \in Openings : m <= j
      BY <2>0
    <3>2. QED
      BY <3>1
  <2>3. ASSUME NEW n \in Nat, n \in N PROVE n + 1 \in N
    <3> SUFFICES ASSUME NEW m \in Openings, m <= n + 1
                 PROVE  \E k \in Openings : \A j \in Openings : k <= j
      OBVIOUS
    <3>1. CASE \E j \in Openings : j <= n
      BY <2>3, <3>1
    <3>2. CASE \A j \in Openings : ~(j <= n)
      <4>1. \A j \in Openings : m <= j
        BY <2>0, <3>2
      <4>2. QED
        BY <4>1
    <3>3. QED
      BY <3>1, <3>2
  <2> HIDE DEF N
  <2>4. x \in N
    BY <2>0, <2>1, <2>2, <2>3, NatInduces
  <2>5. \E k \in Openings : \A j \in Openings : k <= j
    BY <2>0, <2>1, <2>4 DEF N
  <2>6. QED
    BY <2>5 DEF Min
<1>3. rows \in [Docs -> Row] /\ \A d \in Docs : rows[d] = Absent
  BY <1>1 DEF BooksInit
<1>4. opening \in [Products -> Nat] /\ clock = 0
  BY <1>2, BooksAssumption DEF BooksInit, BooksAssumption
<1>5. QED
  BY <1>3, <1>4 DEF BooksTyped, Absent

(* A statement was made at a time that has passed.                         *)
LEMMA TimesPass ==
  ASSUME BooksTyped, NEW t \in Times
  PROVE  t \in Nat /\ t <= clock + 1
BY DEF Times, BooksTyped

(* Every step keeps documents of that form.                                *)
LEMMA StepTyped == BooksTyped /\ [BooksNext]_booksVars => BooksTyped'
<1> SUFFICES ASSUME BooksTyped, [BooksNext]_booksVars PROVE BooksTyped'
  OBVIOUS
<1>1. CASE UNCHANGED <<rows, opening, clock>>
  BY <1>1 DEF BooksTyped
<1>2. ASSUME NEW d \in Docs, NEW row \in Row, Write(d, row),
             row.stamp <= clock + 1, row.state # "ABSENT" => row.day \in Days
      PROVE  BooksTyped'
  <2>1. /\ rows \in [Docs -> Row] /\ rows' = [rows EXCEPT ![d] = row]
        /\ clock \in Nat /\ clock' = clock + 1 /\ UNCHANGED opening
    BY <1>2 DEF Write, BooksTyped
  <2>2. rows' \in [Docs -> Row]
    BY <2>1
  <2>3. ASSUME NEW e \in Docs
        PROVE  /\ rows'[e].state # "ABSENT" => rows'[e].day \in Days
               /\ rows'[e].stamp <= clock'
    <3>1. rows[e].stamp \in Nat /\ rows[e].stamp <= clock
          /\ (rows[e].state # "ABSENT" => rows[e].day \in Days)
      BY <2>1 DEF BooksTyped, Row
    <3>2. rows'[e] = IF e = d THEN row ELSE rows[e]
      BY <2>1
    <3>3. QED
      BY <1>2, <2>1, <3>1, <3>2
  <2>4. QED
    BY <2>1, <2>2, <2>3 DEF BooksTyped
<1>3. ASSUME NEW d \in Docs, NEW row \in Row, Save(d, row),
             row.state # "ABSENT" => row.day \in Days
      PROVE  BooksTyped'
  <2>1. PICK t \in Times : Write(d, [row EXCEPT !.stamp = t])
    BY <1>3 DEF Save
  <2>2. t \in Nat /\ t <= clock + 1
    BY TimesPass
  <2>3. [row EXCEPT !.stamp = t] \in Row /\ [row EXCEPT !.stamp = t].stamp = t
        /\ [row EXCEPT !.stamp = t].state = row.state /\ [row EXCEPT !.stamp = t].day = row.day
    BY <2>2 DEF Row
  <2>4. QED
    BY <1>2, <1>3, <2>1, <2>2, <2>3
<1>4. Days \subseteq Int /\ Sizes \subseteq Nat
  BY BooksAssumption DEF BooksAssumption, Days
<1>5. ASSUME NEW d \in Docs, Record(d) PROVE BooksTyped'
  <2>1. PICK state \in FirstStates(d), day \in Days, size \in Sizes :
          Save(d, [state |-> state, day |-> day, size |-> size, stamp |-> 0])
    BY <1>5 DEF Record
  <2> DEFINE row == [state |-> state, day |-> day, size |-> size, stamp |-> 0]
  <2>2. row \in Row /\ row.day \in Days
    BY <1>4 DEF Row, FirstStates, States
  <2>3. Save(d, row)
    BY <2>1
  <2> HIDE DEF row
  <2>4. QED
    BY <1>3, <2>2, <2>3
<1>6. ASSUME NEW d \in Docs, Edit(d) PROVE BooksTyped'
  <2>1. ASSUME NEW day \in Days, NEW size \in Sizes,
               Save(d, [rows[d] EXCEPT !.day = day, !.size = size])
        PROVE  BooksTyped'
    <3> DEFINE row == [rows[d] EXCEPT !.day = day, !.size = size]
    <3>1. row \in Row /\ row.day \in Days
      BY <1>4 DEF BooksTyped, Row
    <3>2. Save(d, row)
      BY <2>1
    <3> HIDE DEF row
    <3>3. QED
      BY <1>3, <3>1, <3>2
  <2>2. ASSUME NEW size \in Sizes, Write(d, [rows[d] EXCEPT !.size = size]) PROVE BooksTyped'
    <3> DEFINE row == [rows[d] EXCEPT !.size = size]
    <3>1. rows[d] \in Row /\ rows[d].stamp <= clock /\ clock \in Nat
          /\ (rows[d].state # "ABSENT" => rows[d].day \in Days)
      BY DEF BooksTyped
    <3>2. row \in Row /\ row.day = rows[d].day /\ row.state = rows[d].state
          /\ row.stamp = rows[d].stamp /\ rows[d].stamp \in Nat
      BY <1>4, <3>1 DEF Row
    <3>3. Write(d, row)
      BY <2>2
    <3> HIDE DEF row
    <3>4. row.stamp <= clock + 1
      BY <3>1, <3>2
    <3>5. QED
      BY <1>2, <3>1, <3>2, <3>3, <3>4
  <2>3. QED
    BY <1>6, <2>1, <2>2 DEF Edit
<1>7. ASSUME NEW d \in Docs, Finish(d) \/ Cancel(d) PROVE BooksTyped'
  <2>1. PICK state \in {"COUNTS", "CANCELED"} : /\ rows[d].state # "ABSENT"
                                                /\ Save(d, [rows[d] EXCEPT !.state = state])
    BY <1>7 DEF Finish, Cancel
  <2> DEFINE row == [rows[d] EXCEPT !.state = state]
  <2>2. row \in Row /\ row.day \in Days
    BY <2>1 DEF BooksTyped, Row, States
  <2>3. Save(d, row)
    BY <2>1
  <2> HIDE DEF row
  <2>4. QED
    BY <1>3, <2>2, <2>3
<1>8. ASSUME NEW d \in Docs, Delete(d) PROVE BooksTyped'
  <2>1. Absent \in Row /\ Absent.state = "ABSENT" /\ Absent.stamp = 0
    BY DEF Absent, Row, States
  <2>2. Absent.stamp <= clock + 1
    BY <2>1 DEF BooksTyped
  <2>3. QED
    BY <1>2, <1>8, <2>1, <2>2 DEF Delete
<1>9. ASSUME NEW p \in Products, EditOpening(p) PROVE BooksTyped'
  <2>1. PICK quantity \in Openings : opening' = [opening EXCEPT ![p] = quantity]
    BY <1>9 DEF EditOpening
  <2>2. quantity \in Nat
    BY BooksAssumption DEF BooksAssumption
  <2>3. opening \in [Products -> Nat] /\ UNCHANGED rows
    BY <1>9 DEF BooksTyped, EditOpening
  <2>4. opening' \in [Products -> Nat]
    BY <2>1, <2>2, <2>3
  <2>5. clock \in Nat /\ clock' = clock + 1
    BY <1>9 DEF BooksTyped, EditOpening
  <2>6. \A d \in Docs : rows[d].stamp \in Nat
    BY DEF BooksTyped, Row
  <2>7. \A d \in Docs : rows'[d].stamp <= clock'
    BY <2>3, <2>5, <2>6 DEF BooksTyped
  <2>8. QED
    BY <2>3, <2>4, <2>5, <2>7 DEF BooksTyped
<1>10. QED
  BY <1>1, <1>5, <1>6, <1>7, <1>8, <1>9
     DEF BooksNext, CodeFirst, TotalsFirst, Answer, booksVars

(* What is there has a day of the year, and was written at a time that has *)
(* passed, whatever is recorded, edited, moved, canceled or deleted.       *)
THEOREM Documents == BooksSpec => []BooksTyped
BY InitTyped, StepTyped, PTL DEF BooksSpec

-----------------------------------------------------------------------------
(* Sums of documents are numbers, add up over sets that have nothing in    *)
(* common, and grow with the set.                                          *)
LEMMA SizesAreNat ==
  ASSUME BooksTyped, NEW S \in SUBSET Docs
  PROVE  Sum(S) \in Nat
<1> DEFINE f == [d \in Docs |-> rows[d].size]
<1>1. \A d \in S : f[d] \in Nat
  BY DEF BooksTyped, Row
<1>2. IsFiniteSet(S) /\ Sum(S) = SumFunctionOnSet(f, S)
  BY DocsAreFinite DEF Sum
<1> HIDE DEF f
<1>3. QED
  BY <1>1, <1>2, SumNat

LEMMA SizesSplit ==
  ASSUME BooksTyped, NEW S \in SUBSET Docs, NEW T \in SUBSET Docs, S \cap T = {}
  PROVE  Sum(S \cup T) = Sum(S) + Sum(T)
<1> DEFINE f == [d \in Docs |-> rows[d].size]
<1>1. \A d \in S \cup T : f[d] \in Int
  BY DEF BooksTyped, Row
<1>2. /\ IsFiniteSet(S) /\ Sum(S) = SumFunctionOnSet(f, S)
      /\ IsFiniteSet(T) /\ Sum(T) = SumFunctionOnSet(f, T)
      /\ Sum(S \cup T) = SumFunctionOnSet(f, S \cup T)
  BY DocsAreFinite DEF Sum
<1> HIDE DEF f
<1>3. QED
  BY <1>1, <1>2, SumUnion

LEMMA SizesOfNone == Sum({}) = 0
BY SumEmpty DEF Sum

(* The documents of two consecutive ranges are those of both together.     *)
Together(r, s) == [from |-> r.from, to |-> s.to]

LEMMA RangesAreOfDays ==
  ASSUME NEW r \in Ranges
  PROVE  /\ r = [from |-> r.from, to |-> r.to] /\ r.from \in Nat /\ r.to \in Nat
         /\ 1 <= r.from /\ r.from <= r.to
<1>1. r \in [from : Days, to : Days] /\ r.from <= r.to
  BY BooksAssumption DEF BooksAssumption
<1>2. \A x \in Days : x \in Nat /\ 1 <= x
  BY BooksAssumption DEF BooksAssumption, Days
<1>3. QED
  BY <1>1, <1>2

LEMMA RangesJoin ==
  ASSUME BooksTyped, NEW r \in Ranges, NEW s \in Ranges, Follows(r, s)
  PROVE  /\ Counted(Together(r, s)) = Counted(r) \cup Counted(s)
         /\ Counted(r) \cap Counted(s) = {}
         /\ Before(s) = Before(r) \cup Counted(r)
         /\ Before(r) \cap Counted(r) = {}
<1>1. /\ r.from \in Int /\ r.to \in Int /\ s.from \in Int /\ s.to \in Int
      /\ r.from <= r.to /\ s.from <= s.to /\ s.from = r.to + 1
  BY RangesAreOfDays DEF Follows
<1>2. \A d \in Docs : rows[d].day \in Int
  BY DEF BooksTyped, Row
<1>3. Together(r, s).from = r.from /\ Together(r, s).to = s.to
  BY DEF Together
<1>4. ASSUME NEW d \in Docs
      PROVE  /\ rows[d].day \in r.from .. s.to <=>
                  rows[d].day \in r.from .. r.to \/ rows[d].day \in s.from .. s.to
             /\ ~(rows[d].day \in r.from .. r.to /\ rows[d].day \in s.from .. s.to)
             /\ rows[d].day < s.from /\ rows[d].day \notin r.from .. r.to => rows[d].day < r.from
             /\ rows[d].day < r.from => rows[d].day < s.from /\ rows[d].day \notin r.from .. r.to
             /\ rows[d].day \in r.from .. r.to => rows[d].day < s.from
  BY <1>1, <1>2
<1>5. QED
  BY <1>3, <1>4 DEF Counted, Within, Before

(* The first range of the year has nothing before it.                      *)
LEMMA NothingBeforeFirst ==
  ASSUME BooksTyped, NEW r, r.from = 1
  PROVE  Before(r) = {}
<1>1. ASSUME NEW d \in Docs, rows[d].state = "COUNTS" PROVE ~(rows[d].day < 1)
  <2>1. rows[d].day \in Days
    BY <1>1 DEF BooksTyped
  <2>2. QED
    BY <2>1, BooksAssumption DEF BooksAssumption, Days
<1>2. QED
  BY <1>1 DEF Before

-----------------------------------------------------------------------------
(* The configuration a book applies is one of the user's.                  *)
LEMMA ConfigsApply ==
  ASSUME NEW r
  PROVE  \E c \in DOMAIN Configs : ValidTaxConfig(r) = Configs[c]
<1> DEFINE meeting == {c \in DOMAIN Configs : Configs[c].from <= r.to /\ Configs[c].to >= r.from}
           chosen == IF meeting = {} THEN DOMAIN Configs ELSE meeting
<1>1. chosen \in SUBSET (1 .. Len(Configs)) /\ chosen # {} /\ Len(Configs) \in Nat
  <2>1. DOMAIN Configs = 1 .. Len(Configs) /\ Len(Configs) \in Nat /\ 1 <= Len(Configs)
    BY BooksAssumption DEF BooksAssumption
  <2>2. meeting \subseteq DOMAIN Configs /\ 1 \in 1 .. Len(Configs)
    BY <2>1
  <2>3. QED
    BY <2>1, <2>2
<1>2. ValidTaxConfig(r) = Configs[Max(chosen)]
  BY DEF ValidTaxConfig
<1> HIDE DEF chosen
<1>3. Max(chosen) \in chosen
  BY <1>1, GreatestMember
<1>4. QED
  BY <1>1, <1>2, <1>3, BooksAssumption DEF BooksAssumption

(* By any method its group allows, its rates are those of the engine.      *)
LEMMA MethodsApply ==
  ASSUME NEW r, NEW method \in AllowedMethods[ValidTaxConfig(r).group],
         NEW by, by = [ValidTaxConfig(r) EXCEPT !.method = method]
  PROVE  Rates(by) /\ by.method = method
<1>1. PICK c \in DOMAIN Configs : ValidTaxConfig(r) = Configs[c]
  BY ConfigsApply
<1>2. Configs[c] \in [from : Days, to : Days, group : {1, 2, 3, 4}, vatRate : Nat, pitRate : Nat,
                     method : Methods]
  BY BooksAssumption DEF BooksAssumption, Groups
<1>3. by.group = Configs[c].group /\ by.vatRate = Configs[c].vatRate
      /\ by.pitRate = Configs[c].pitRate /\ by.method = method
  BY <1>1, <1>2
<1>4. method \in Methods
  BY <1>1, <1>2 DEF AllowedMethods, Methods, ProfitMethods
<1>5. QED
  BY <1>2, <1>3, <1>4 DEF Rates, Groups

-----------------------------------------------------------------------------
(* The income tax of a set of documents is at least nothing, and nothing   *)
(* for no documents; by percentage it grows with the set.                  *)
LEMMA PitIsNatural ==
  ASSUME BooksTyped, NEW S \in SUBSET Docs, NEW config, Rates(config)
  PROVE  /\ PitOn(S, config) \in Nat
         /\ PitOn({}, config) = 0
<1>1. \A T \in SUBSET Docs : Sum(T \cap Of("invoice")) \in Nat /\ Sum(T \cap Expenses) \in Nat
  BY SizesAreNat
<1>2. ASSUME NEW x \in Nat, NEW y \in Nat
      PROVE  /\ TotalTaxDue(x, y, config) - VatAmount(x, config) \in Nat
             /\ TotalTaxDue(x, y, config) - VatAmount(x, config) =
                  IF TakesPercentage(config) THEN PitByPercentage(x, config)
                  ELSE IF config.method \in ProfitMethods THEN PitByProfit(x, y, config) ELSE 0
  <2>1. /\ VatAmount(x, config) \in Nat /\ PitByPercentage(x, config) \in Nat
        /\ PitByProfit(x, y, config) \in Nat
    BY VatGrows, PercentageGrows, ProfitTaxGrows
  <2>2. QED
    BY <2>1 DEF TotalTaxDue
<1>3. PitOn(S, config) \in Nat
  BY <1>1, <1>2 DEF PitOn
<1>4. PitByPercentage(0, config) = 0
  <2>1. AtLeastZero(0 - Threshold) = 0
    BY ThresholdAssumption DEF ThresholdAssumption, AtLeastZero
  <2>2. QED
    BY <2>1 DEF PitByPercentage, Rates
<1>5. PitByProfit(0, 0, config) = 0
  <2>1. AtLeastZero(0 - 0) = 0
    BY DEF AtLeastZero
  <2>2. QED
    BY <2>1, ProfitRates DEF PitByProfit
<1>6. PitOn({}, config) = 0
  <2>1. Sum({} \cap Of("invoice")) = 0 /\ Sum({} \cap Expenses) = 0
    BY SizesOfNone
  <2>2. QED
    BY <1>2, <1>4, <1>5, <2>1 DEF PitOn
<1>7. QED
  BY <1>3, <1>6

LEMMA PercentageGrowsWithSet ==
  ASSUME BooksTyped, NEW S \in SUBSET Docs, NEW T \in SUBSET Docs, S \subseteq T,
         NEW config, Rates(config), config.method = "PERCENTAGE"
  PROVE  PitOn(S, config) <= PitOn(T, config)
<1> DEFINE x == Sum(S \cap Of("invoice"))
           y == Sum(T \cap Of("invoice"))
           f == [d \in Docs |-> rows[d].size]
<1>1. x \in Nat /\ y \in Nat /\ Sum(S \cap Expenses) \in Nat /\ Sum(T \cap Expenses) \in Nat
  BY SizesAreNat
<1>2. x <= y
  <2>1. /\ IsFiniteSet(T \cap Of("invoice")) /\ S \cap Of("invoice") \in SUBSET (T \cap Of("invoice"))
        /\ \A d \in T \cap Of("invoice") : f[d] \in Nat
    BY DocsAreFinite DEF BooksTyped, Row
  <2>2. x = SumFunctionOnSet(f, S \cap Of("invoice")) /\ y = SumFunctionOnSet(f, T \cap Of("invoice"))
    BY DEF Sum
  <2> HIDE DEF f, x, y
  <2>3. QED
    BY <2>1, <2>2, SumSubset
<1>3. ASSUME NEW n \in Nat, NEW m \in Nat
      PROVE  TotalTaxDue(n, m, config) - VatAmount(n, config) =
               IF TakesPercentage(config) THEN PitByPercentage(n, config) ELSE 0
  <2>1. VatAmount(n, config) \in Nat /\ PitByPercentage(n, config) \in Nat
    BY <1>3, VatGrows, PercentageGrows
  <2>2. config.method \notin ProfitMethods
    BY DEF ProfitMethods
  <2>3. QED
    BY <2>1, <2>2 DEF TotalTaxDue
<1>4. /\ PitOn(S, config) = (IF TakesPercentage(config) THEN PitByPercentage(x, config) ELSE 0)
      /\ PitOn(T, config) = (IF TakesPercentage(config) THEN PitByPercentage(y, config) ELSE 0)
  BY <1>1, <1>3 DEF PitOn
<1> HIDE DEF x, y
<1>5. PitByPercentage(x, config) <= PitByPercentage(y, config)
  BY <1>1, <1>2, PercentageGrows
<1>6. QED
  BY <1>4, <1>5

(* The greater of two numbers.                                             *)
LEMMA GreaterOfTwo ==
  ASSUME NEW m \in Int, NEW n \in Int
  PROVE  Max({m, n}) = IF m <= n THEN n ELSE m
<1> DEFINE g == IF m <= n THEN n ELSE m
<1>1. g \in {m, n} /\ \A y \in {m, n} : g >= y
  OBVIOUS
<1>2. \A x \in {m, n} : (\A y \in {m, n} : x >= y) => x = g
  OBVIOUS
<1>3. QED
  BY <1>1, <1>2 DEF Max

(* The taxes that the revenue book shows for two consecutive ranges from   *)
(* the beginning of the year are those of both together (calculateS2a and  *)
(* calculateS2b): nothing is taxed twice, and nothing forgotten but a tax  *)
(* on a profit that later expenses have eaten up.                          *)
THEOREM RangeTaxes == BooksSpec => []RangeTaxesAddUp
<1>1. ASSUME BooksTyped, NEW r \in Ranges, NEW s \in Ranges, r.from = 1, Follows(r, s),
             NEW all, all = Together(r, s),
             ValidTaxConfig(r) = ValidTaxConfig(all), ValidTaxConfig(s) = ValidTaxConfig(all)
      PROVE  VatShown(r) + VatShown(s) = VatShown(all)
  <2> DEFINE x == Sum(Counted(r) \cap Of("invoice"))
             y == Sum(Counted(s) \cap Of("invoice"))
             rate == ValidTaxConfig(all).vatRate
  <2>1. Counted(r) \subseteq Docs /\ Counted(s) \subseteq Docs
    BY DEF Counted, Within
  <2>2. x \in Nat /\ y \in Nat
    BY <1>1, <2>1, SizesAreNat
  <2>3. Sum(Counted(all) \cap Of("invoice")) = x + y
    <3>1. Counted(all) \cap Of("invoice")
            = (Counted(r) \cap Of("invoice")) \cup (Counted(s) \cap Of("invoice"))
      BY <1>1, RangesJoin
    <3>2. (Counted(r) \cap Of("invoice")) \cap (Counted(s) \cap Of("invoice")) = {}
      BY <1>1, RangesJoin
    <3>3. Counted(r) \cap Of("invoice") \in SUBSET Docs /\ Counted(s) \cap Of("invoice") \in SUBSET Docs
      BY <2>1
    <3>4. QED
      BY <1>1, <3>1, <3>2, <3>3, SizesSplit
  <2>4. rate \in Nat
    BY ConfigsApply, BooksAssumption DEF BooksAssumption
  <2>5. VatShown(r) = x * rate /\ VatShown(s) = y * rate /\ VatShown(all) = (x + y) * rate
    BY <1>1, <2>3 DEF VatShown
  <2> HIDE DEF x, y, rate
  <2>6. (x + y) * rate = x * rate + y * rate
    BY <2>2, <2>4
  <2>7. QED
    BY <2>5, <2>6
<1>2. ASSUME BooksTyped, NEW r \in Ranges, NEW s \in Ranges, r.from = 1, Follows(r, s),
             NEW all, all = Together(r, s), NEW by, Rates(by)
      PROVE  /\ PitShown(r, by) + PitShown(s, by)
                  = Max({PitOn(Counted(r), by), PitOn(Counted(all), by)})
             /\ by.method = "PERCENTAGE" => PitOn(Counted(r), by) <= PitOn(Counted(all), by)
  <2> DEFINE first == PitOn(Counted(r), by)
             whole == PitOn(Counted(all), by)
  <2>1. Before(r) = {} /\ Before(s) = Counted(r)
        /\ Before(s) \cup Counted(s) = Counted(all) /\ Counted(r) \subseteq Counted(all)
    BY <1>2, NothingBeforeFirst, RangesJoin
  <2>2. Counted(r) \subseteq Docs /\ Counted(all) \subseteq Docs
    BY DEF Counted, Within
  <2>3. first \in Nat /\ whole \in Nat /\ PitOn({}, by) = 0
    BY <1>2, <2>2, PitIsNatural
  <2>4. PitShown(r, by) = AtLeastZero(first - 0) /\ PitShown(s, by) = AtLeastZero(whole - first)
    <3>1. YearBefore(r) \cup Counted(r) = Counted(r) /\ YearBefore(r) = {}
          /\ YearBefore(s) \cup Counted(s) = Counted(all) /\ YearBefore(s) = Counted(r)
      BY <2>1 DEF YearBefore
    <3>2. QED
      BY <2>3, <3>1 DEF PitShown
  <2>5. Max({first, whole}) = IF first <= whole THEN whole ELSE first
    BY <2>3, GreaterOfTwo
  <2>6. by.method = "PERCENTAGE" => first <= whole
    BY <1>2, <2>1, <2>2, PercentageGrowsWithSet
  <2> HIDE DEF first, whole
  <2>7. PitShown(r, by) + PitShown(s, by) = Max({first, whole})
    BY <2>3, <2>4, <2>5 DEF AtLeastZero
  <2>8. QED
    BY <2>6, <2>7 DEF first, whole
<1>3. ASSUME BooksTyped, NEW r \in Ranges, NEW s \in Ranges, r.from = 1, Follows(r, s),
             ValidTaxConfig(r) = ValidTaxConfig(Together(r, s)),
             NEW method \in AllowedMethods[ValidTaxConfig(Together(r, s)).group]
      PROVE  LET by    == [ValidTaxConfig(Together(r, s)) EXCEPT !.method = method]
                 first == PitOn(Counted(r), by)
                 whole == PitOn(Counted(Together(r, s)), by)
             IN  /\ PitShown(r, by) + PitShown(s, by) = Max({first, whole})
                 /\ method = "PERCENTAGE" => first <= whole
  <2> DEFINE by == [ValidTaxConfig(Together(r, s)) EXCEPT !.method = method]
  <2>1. Rates(by) /\ by.method = method
    BY MethodsApply
  <2> HIDE DEF by
  <2>2. /\ PitShown(r, by) + PitShown(s, by)
             = Max({PitOn(Counted(r), by), PitOn(Counted(Together(r, s)), by)})
        /\ by.method = "PERCENTAGE" => PitOn(Counted(r), by) <= PitOn(Counted(Together(r, s)), by)
    BY <1>2, <1>3, <2>1
  <2>3. QED
    BY <2>1, <2>2 DEF by
<1>4. BooksTyped => RangeTaxesAddUp
  <2> SUFFICES ASSUME BooksTyped, NEW r \in Ranges, NEW s \in Ranges, r.from = 1, Follows(r, s),
                      ValidTaxConfig(r) = ValidTaxConfig(Together(r, s)),
                      ValidTaxConfig(s) = ValidTaxConfig(Together(r, s))
               PROVE  /\ VatShown(r) + VatShown(s) = VatShown(Together(r, s))
                      /\ \A method \in AllowedMethods[ValidTaxConfig(Together(r, s)).group] :
                           LET by    == [ValidTaxConfig(Together(r, s)) EXCEPT !.method = method]
                               first == PitOn(Counted(r), by)
                               whole == PitOn(Counted(Together(r, s)), by)
                           IN  /\ PitShown(r, by) + PitShown(s, by) = Max({first, whole})
                               /\ method = "PERCENTAGE" => first <= whole
    BY Zenon DEF RangeTaxesAddUp, Together
  <2>1. VatShown(r) + VatShown(s) = VatShown(Together(r, s))
    BY <1>1
  <2>2. QED
    BY <1>3, <2>1
<1>5. QED
  BY <1>4, Documents, PTL

-----------------------------------------------------------------------------
(* From here on the sync code.  The documents whose figures a book shows,  *)
(* among those that count.                                                 *)
Shown(book) ==
  CASE book = "revenue" -> Of("invoice")
    [] book = "cash"    -> Of("voucher")
    [] book = "expense" -> Expenses
    [] book = "goods"   -> Docs \ Of("voucher")

(* Others make no difference to it.                                        *)
LEMMA OthersDoNotShow ==
  ASSUME NEW book \in Books, NEW S \in SUBSET Docs
  PROVE  Totals(book, S) = Totals(book, S \cap Shown(book))
<1> DEFINE T == S \cap Shown(book)
<1>1. CASE book = "revenue"
  <2>1. T \cap Of("invoice") = S \cap Of("invoice")
    BY <1>1 DEF Shown
  <2>2. RevenueBook(T) = RevenueBook(S)
    BY <2>1 DEF RevenueBook
  <2>3. QED
    BY <1>1, <2>2 DEF Totals
<1>2. CASE book = "cash"
  <2>1. \A w \in Wallets : InWallet(w, T) = InWallet(w, S)
    BY <1>2 DEF Shown, InWallet
  <2>2. \A w \in Wallets : CashTotals(w, T) = CashTotals(w, S)
    BY <2>1 DEF CashTotals
  <2>3. QED
    BY <1>2, <2>2 DEF Totals
<1>3. CASE book = "expense"
  <2>1. T \cap Expenses = S \cap Expenses
    BY <1>3 DEF Shown
  <2>2. ExpenseBook(T) = ExpenseBook(S)
    BY <2>1 DEF ExpenseBook
  <2>3. QED
    BY <1>3, <2>2 DEF Totals
<1>4. CASE book = "goods"
  <2>1. \A p \in Products : Moving(p, T) = Moving(p, S)
    BY <1>4 DEF Shown, Moving
  <2>2. \A p \in Products : GoodsTotals(p, T) = GoodsTotals(p, S)
    BY <2>1 DEF GoodsTotals
  <2>3. QED
    BY <1>4, <2>2 DEF Totals
<1>5. QED
  BY <1>1, <1>2, <1>3, <1>4 DEF Books

(* A book shows the same while none of the documents is written.           *)
LEMMA TotalsStay ==
  ASSUME NEW book \in Books, NEW S \in SUBSET Docs, \A d \in S : rows'[d] = rows[d]
  PROVE  Totals(book, S)' = Totals(book, S)
<1>1. ASSUME NEW T \in SUBSET S PROVE Sum(T)' = Sum(T)
  <2> DEFINE f == [d \in Docs |-> rows[d].size]
             e == [d \in Docs |-> rows'[d].size]
  <2>1. IsFiniteSet(T) /\ \A d \in T : f[d] = e[d]
    BY DocsAreFinite
  <2>2. Sum(T) = SumFunctionOnSet(f, T) /\ Sum(T)' = SumFunctionOnSet(e, T)
    BY DEF Sum
  <2> HIDE DEF f, e
  <2>3. QED
    BY <2>1, <2>2, SumSame
<1>2. ASSUME NEW p \in Products, NEW T \in SUBSET S PROVE NetMove(p, T)' = NetMove(p, T)
  <2> DEFINE f == [d \in Moving(p, Docs) |-> Move(d, p)]
             e == [d \in Moving(p, Docs) |-> Move(d, p)']
  <2>1. IsFiniteSet(Moving(p, T)) /\ \A d \in Moving(p, T) : f[d] = e[d]
    BY DocsAreFinite DEF Moving, Move
  <2>2. /\ NetMove(p, T) = SumFunctionOnSet(f, Moving(p, T))
        /\ NetMove(p, T)' = SumFunctionOnSet(e, Moving(p, T))
    BY DEF NetMove, Moving
  <2> HIDE DEF f, e
  <2>3. QED
    BY <2>1, <2>2, SumSame
<1>3. CASE book = "revenue"
  <2>1. RevenueBook(S)' = RevenueBook(S)
    BY <1>1 DEF RevenueBook
  <2>2. QED
    BY <1>3, <2>1 DEF Totals
<1>4. CASE book = "cash"
  <2>1. \A w \in Wallets : InWallet(w, S)' = InWallet(w, S) /\ InWallet(w, S) \subseteq S
    BY DEF InWallet
  <2>2. ASSUME NEW w \in Wallets, NEW type
        PROVE  Paid(type, InWallet(w, S))' = Paid(type, InWallet(w, S))
    <3>1. {d \in InWallet(w, S) : About[d].type = type} \in SUBSET S
      BY <2>1
    <3>2. QED
      BY <1>1, <2>1, <3>1 DEF Paid
  <2>3. \A w \in Wallets : CashTotals(w, S)' = CashTotals(w, S)
    BY <2>2 DEF CashTotals
  <2>4. QED
    BY <1>4, <2>3 DEF Totals
<1>5. CASE book = "expense"
  <2>1. ExpenseBook(S)' = ExpenseBook(S)
    BY <1>1 DEF ExpenseBook
  <2>2. QED
    BY <1>5, <2>1 DEF Totals
<1>6. CASE book = "goods"
  <2>1. \A p \in Products : GoodsTotals(p, S)' = GoodsTotals(p, S)
    <3> TAKE p \in Products
    <3>1. /\ {d \in Moving(p, S) : About[d].moves[p] > 0} \in SUBSET S
          /\ {d \in Moving(p, S) : About[d].moves[p] < 0} \in SUBSET S
          /\ Moving(p, S)' = Moving(p, S)
      BY DEF Moving
    <3>2. QED
      BY <1>2, <3>1 DEF GoodsTotals
  <2>2. QED
    BY <1>6, <2>1 DEF Totals
<1>7. QED
  BY <1>3, <1>4, <1>5, <1>6 DEF Books

-----------------------------------------------------------------------------
(* The tables a book looks at: what is in them is there, and every document*)
(* it shows is in one of them.                                             *)
LEMMA TablesOfBook ==
  ASSUME NEW book \in Books, NEW r
  PROVE  /\ \A i \in DOMAIN LookedAt(book, r) : LookedAt(book, r)[i] \subseteq Within(r)
         /\ \A d \in Counted(r) \cap Shown(book) :
              \E i \in DOMAIN LookedAt(book, r) : d \in LookedAt(book, r)[i]
<1>1. Counted(r) \subseteq Within(r) /\ Expenses \subseteq Of("voucher")
  BY DEF Counted, Expenses
<1>2. CASE book = "revenue"
  <2>1. LookedAt(book, r) = <<Within(r) \cap Of("invoice"), Within(r) \cap Of("voucher")>>
    BY <1>2 DEF LookedAt
  <2>2. DOMAIN LookedAt(book, r) = {1, 2} /\ Shown(book) = Of("invoice")
    BY <1>2, <2>1 DEF Shown
  <2>3. QED
    BY <1>1, <2>1, <2>2
<1>3. CASE book = "cash"
  <2>1. LookedAt(book, r) = <<Within(r) \cap Of("voucher")>>
    BY <1>3 DEF LookedAt
  <2>2. DOMAIN LookedAt(book, r) = {1} /\ Shown(book) = Of("voucher")
    BY <1>3, <2>1 DEF Shown
  <2>3. QED
    BY <1>1, <2>1, <2>2
<1>4. CASE book = "expense"
  <2>1. LookedAt(book, r) = <<Counted(r) \cap Expenses>>
    BY <1>4 DEF LookedAt
  <2>2. DOMAIN LookedAt(book, r) = {1} /\ Shown(book) = Expenses
    BY <1>4, <2>1 DEF Shown
  <2>3. QED
    BY <1>1, <2>1, <2>2
<1>5. CASE book = "goods"
  <2>1. LookedAt(book, r) = <<Counted(r) \cap Of("bill"), Counted(r) \cap Of("invoice"),
                              Counted(r) \cap Of("order")>>
    BY <1>5 DEF LookedAt
  <2>2. DOMAIN LookedAt(book, r) = {1, 2, 3} /\ Shown(book) = Docs \ Of("voucher")
    BY <1>5, <2>1 DEF Shown
  <2>3. Docs \ Of("voucher") = Of("bill") \cup Of("invoice") \cup Of("order")
    BY BooksAssumption DEF BooksAssumption, Of
  <2>4. QED
    BY <1>1, <2>1, <2>2, <2>3
<1>6. QED
  BY <1>2, <1>3, <1>4, <1>5 DEF Books

(* A write changes them by its document alone.                             *)
LEMMA TablesChange ==
  ASSUME NEW book \in Books, NEW r, NEW d, \A e \in Docs \ {d} : rows'[e] = rows[e]
  PROVE  /\ DOMAIN LookedAt(book, r)' = DOMAIN LookedAt(book, r)
         /\ \A i \in DOMAIN LookedAt(book, r) : LookedAt(book, r)'[i] \ {d} = LookedAt(book, r)[i] \ {d}
         /\ Counted(r)' \ {d} = Counted(r) \ {d}
<1>1. /\ Within(r)' \ {d} = Within(r) \ {d} /\ Counted(r)' \ {d} = Counted(r) \ {d}
      /\ \A t : (Within(r)' \cap t) \ {d} = (Within(r) \cap t) \ {d}
      /\ \A t : (Counted(r)' \cap t) \ {d} = (Counted(r) \cap t) \ {d}
  BY DEF Within, Counted
<1>2. CASE book = "revenue"
  <2>1. /\ LookedAt(book, r) = <<Within(r) \cap Of("invoice"), Within(r) \cap Of("voucher")>>
        /\ LookedAt(book, r)' = <<Within(r)' \cap Of("invoice"), Within(r)' \cap Of("voucher")>>
    BY <1>2 DEF LookedAt, Of
  <2>2. QED
    BY <1>1, <2>1
<1>3. CASE book = "cash"
  <2>1. /\ LookedAt(book, r) = <<Within(r) \cap Of("voucher")>>
        /\ LookedAt(book, r)' = <<Within(r)' \cap Of("voucher")>>
    BY <1>3 DEF LookedAt, Of
  <2>2. QED
    BY <1>1, <2>1
<1>4. CASE book = "expense"
  <2>1. /\ LookedAt(book, r) = <<Counted(r) \cap Expenses>>
        /\ LookedAt(book, r)' = <<Counted(r)' \cap Expenses>>
    BY <1>4 DEF LookedAt, Expenses, Of
  <2>2. QED
    BY <1>1, <2>1
<1>5. CASE book = "goods"
  <2>1. /\ LookedAt(book, r) = <<Counted(r) \cap Of("bill"), Counted(r) \cap Of("invoice"),
                                 Counted(r) \cap Of("order")>>
        /\ LookedAt(book, r)' = <<Counted(r)' \cap Of("bill"), Counted(r)' \cap Of("invoice"),
                                  Counted(r)' \cap Of("order")>>
    BY <1>5 DEF LookedAt, Of
  <2>2. QED
    BY <1>1, <2>1
<1>6. QED
  BY <1>1, <1>2, <1>3, <1>4, <1>5 DEF Books

(* The latest change of some documents is not earlier than any of theirs,  *)
(* nor later than the last commit.                                         *)
LEMMA LatestChange ==
  ASSUME BooksTyped, NEW S \in SUBSET Docs
  PROVE  /\ Fingerprint(S).latest \in Nat /\ Fingerprint(S).latest <= clock
         /\ \A d \in S : rows[d].stamp <= Fingerprint(S).latest
<1> DEFINE stamps == {0} \cup {rows[d].stamp : d \in S}
           T == {n \in 1 .. clock + 1 : n - 1 \in stamps}
<1>1. clock \in Nat /\ \A n \in stamps : n \in Nat /\ n <= clock
  BY DEF BooksTyped, Row
<1>2. T \in SUBSET (1 .. clock + 1) /\ clock + 1 \in Nat /\ 0 + 1 \in T
  BY <1>1
<1>3. Max(T) \in T /\ \A n \in T : n <= Max(T)
  BY <1>2, GreatestMember
<1>4. Max(T) - 1 \in stamps
  BY <1>3
<1>5. ASSUME NEW n \in stamps PROVE n <= Max(T) - 1
  <2>1. n \in Nat /\ n + 1 \in 1 .. clock + 1 /\ (n + 1) - 1 = n
    BY <1>1
  <2>2. n + 1 \in T
    BY <2>1
  <2>3. Max(T) \in Nat
    BY <1>3
  <2>4. QED
    BY <1>3, <2>1, <2>2, <2>3
<1> DEFINE top == Max(T) - 1
<1> HIDE DEF T, top
<1>6. top \in stamps /\ \A n \in stamps : n <= top
  BY <1>4, <1>5 DEF top
<1>7. Max(stamps) \in stamps /\ \A n \in stamps : n <= Max(stamps)
  <2>1. \A n \in stamps : top >= n
    BY <1>1, <1>6
  <2>2. Max(stamps) \in stamps /\ \A n \in stamps : Max(stamps) >= n
    BY <1>6, <2>1 DEF Max
  <2>3. QED
    BY <1>1, <2>2
<1>8. Fingerprint(S).latest = Max(stamps)
  BY DEF Fingerprint
<1> HIDE DEF stamps
<1>9. QED
  BY <1>1, <1>7, <1>8 DEF stamps

(* Each step writes one document, which is then hidden if a client cannot  *)
(* see that it was written, or writes none.                                *)
Written(d) ==
  /\ \A e \in Docs \ {d} : rows'[e] = rows[e]
  /\ hidden' = IF rows'[d].state # "ABSENT" /\ rows'[d].stamp <= view.since
               THEN hidden \cup {d} ELSE hidden \ {d}
  /\ clock' = clock + 1 /\ view' = view

LEMMA Commits ==
  ASSUME BooksTyped, BooksNext
  PROVE  \/ \E d \in Docs : Written(d)
         \/ rows' = rows /\ clock' = clock + 1 /\ view' = view /\ hidden' = hidden
         \/ \E book \in Books, r \in Asked : CodeFirst(book, r) \/ TotalsFirst(book, r)
         \/ Answer
<1>1. ASSUME NEW d \in Docs, NEW row, Write(d, row) PROVE Written(d)
  <2>1. rows' = [rows EXCEPT ![d] = row] /\ DOMAIN rows = Docs
    BY <1>1 DEF Write, BooksTyped
  <2>2. rows'[d] = row /\ \A e \in Docs \ {d} : rows'[e] = rows[e]
    BY <2>1
  <2>3. QED
    BY <1>1, <2>2 DEF Written, Write
<1>2. ASSUME NEW d \in Docs, NEW row, Save(d, row) PROVE Written(d)
  BY <1>1, <1>2 DEF Save
<1>3. ASSUME NEW d \in Docs, Record(d) \/ Edit(d) \/ Finish(d) \/ Cancel(d) \/ Delete(d)
      PROVE  Written(d)
  BY <1>1, <1>2, <1>3 DEF Record, Edit, Finish, Cancel, Delete
<1>4. QED
  BY <1>3 DEF BooksNext, EditOpening

(* Of what a client's summary is about: the documents not written since it *)
(* began to read, and those of them in the tables of its book.             *)
Untouched == {d \in Docs : rows[d].state # "ABSENT" /\ rows[d].stamp <= view.since} \ hidden
Left(book, r, i) == LookedAt(book, r)[i] \cap Untouched

(* The client's code has counted all of them.                              *)
Knows(book, r) ==
  /\ DOMAIN view.code = DOMAIN LookedAt(book, r)
  /\ \A i \in DOMAIN LookedAt(book, r) :
       /\ view.code[i].count \in Nat /\ Cardinality(Left(book, r, i)) <= view.code[i].count
       /\ view.code[i].latest \in Nat /\ view.code[i].latest <= view.since

(* While it has counted no others, its sums are those of these documents.  *)
Shows(book, r) ==
  (\A i \in DOMAIN LookedAt(book, r) : Cardinality(Left(book, r, i)) = view.code[i].count)
    => view.totals = Totals(book, Counted(r) \cap Untouched)

Summary(book, r, code, totals, since, until) ==
  [book |-> book, range |-> r, code |-> code, totals |-> totals, since |-> since, until |-> until]

ViewIsOf(book, r) ==
  /\ view = Summary(book, r, view.code, view.totals, view.since, view.until)
  /\ view.since \in Nat /\ view.since <= clock
  /\ view.until \in Nat /\ view.until <= clock
  /\ view.since = clock => hidden = {}
  /\ view.code # None /\ view.until <= view.since => Knows(book, r)
  /\ view.totals # None /\ view.code = None /\ view.since = clock
       => view.totals = TotalsNow(book, r)
  /\ Answered /\ view.until <= view.since => Shows(book, r)

ViewFits == view # NoView => \E book \in Books, r \in Asked : ViewIsOf(book, r)

(* While nothing was written since the client began, all that is there is  *)
(* untouched: the code it gets knows, and the sums it gets show.           *)
LEMMA AllUntouched ==
  ASSUME BooksTyped, view.since = clock, hidden = {}
  PROVE  /\ \A r : Counted(r) \cap Untouched = Counted(r)
         /\ \A book \in Books : \A r : \A i \in DOMAIN LookedAt(book, r) :
              Left(book, r, i) = LookedAt(book, r)[i]
<1>1. \A r : Within(r) \subseteq Untouched
  BY DEF Within, Untouched, BooksTyped
<1>2. \A r : Counted(r) \subseteq Within(r)
  BY DEF Counted
<1>3. \A book \in Books : \A r : \A i \in DOMAIN LookedAt(book, r) :
        LookedAt(book, r)[i] \subseteq Within(r)
  BY TablesOfBook
<1>4. QED
  BY <1>1, <1>2, <1>3 DEF Left

LEMMA CodeKnows ==
  ASSUME BooksTyped, NEW book \in Books, NEW r, view.since = clock, hidden = {},
         view.code = SyncCode(book, r)
  PROVE  Knows(book, r)
<1>1. \A i \in DOMAIN LookedAt(book, r) : LookedAt(book, r)[i] \in SUBSET Docs
  BY TablesOfBook DEF Within
<1>2. DOMAIN view.code = DOMAIN LookedAt(book, r)
      /\ \A i \in DOMAIN LookedAt(book, r) : view.code[i] = Fingerprint(LookedAt(book, r)[i])
  BY DEF SyncCode
<1>3. ASSUME NEW i \in DOMAIN LookedAt(book, r)
      PROVE  /\ view.code[i].count \in Nat /\ Cardinality(Left(book, r, i)) <= view.code[i].count
             /\ view.code[i].latest \in Nat /\ view.code[i].latest <= view.since
  <2>1. view.code[i].count = Cardinality(LookedAt(book, r)[i])
        /\ view.code[i].latest = Fingerprint(LookedAt(book, r)[i]).latest
    BY <1>2 DEF Fingerprint
  <2>2. Cardinality(LookedAt(book, r)[i]) \in Nat
    BY <1>1, DocsAreFinite, FS_CardinalityType
  <2>3. Left(book, r, i) = LookedAt(book, r)[i]
    BY AllUntouched
  <2>4. Fingerprint(LookedAt(book, r)[i]).latest \in Nat
        /\ Fingerprint(LookedAt(book, r)[i]).latest <= clock
    BY <1>1, LatestChange
  <2>5. QED
    BY <2>1, <2>2, <2>3, <2>4
<1>4. QED
  BY <1>2, <1>3 DEF Knows

(* A write takes its document from the untouched ones, if it was one: when *)
(* the client's tables have it, they have one less than its code; when not,*)
(* its sums do not change.                                                 *)
LEMMA WritesKept ==
  ASSUME BooksTyped, NEW book \in Books, NEW r \in Asked, ViewIsOf(book, r),
         NEW d \in Docs, Written(d)
  PROVE  ViewIsOf(book, r)'
<1> DEFINE old(i) == Left(book, r, i)
           new(i) == LookedAt(book, r)'[i] \cap Untouched'
<1>1. /\ clock \in Nat /\ clock' = clock + 1 /\ view' = view
      /\ view.since \in Nat /\ view.since <= clock /\ view.until \in Nat /\ view.until <= clock
  BY DEF Written, ViewIsOf, BooksTyped
<1>2. Untouched' = Untouched \ {d}
  BY <1>1 DEF Untouched, Written
<1>3. DOMAIN LookedAt(book, r)' = DOMAIN LookedAt(book, r)
      /\ \A i \in DOMAIN LookedAt(book, r) : new(i) = old(i) \ {d}
  <2>1. \A e \in Docs \ {d} : rows'[e] = rows[e]
    BY DEF Written
  <2>2. /\ DOMAIN LookedAt(book, r)' = DOMAIN LookedAt(book, r)
        /\ \A i \in DOMAIN LookedAt(book, r) :
             LookedAt(book, r)'[i] \ {d} = LookedAt(book, r)[i] \ {d}
    BY <2>1, TablesChange
  <2>3. QED
    BY <1>2, <2>2 DEF Left
<1>4. \A i : Left(book, r, i)' = new(i)
  BY DEF Left
<1>5. ASSUME NEW i \in DOMAIN LookedAt(book, r)
      PROVE  /\ Cardinality(old(i)) \in Nat /\ Cardinality(new(i)) \in Nat
             /\ Cardinality(new(i)) <= Cardinality(old(i))
             /\ d \in old(i) => Cardinality(new(i)) < Cardinality(old(i))
  <2>1. old(i) \in SUBSET Docs
    BY DEF Left, Untouched
  <2>2. IsFiniteSet(old(i))
    BY <2>1, DocsAreFinite
  <2>3. new(i) = old(i) \ {d}
    BY <1>3
  <2> HIDE DEF old, new
  <2>4. Cardinality(old(i)) \in Nat /\ Cardinality(new(i)) \in Nat
        /\ Cardinality(new(i)) = IF d \in old(i) THEN Cardinality(old(i)) - 1 ELSE Cardinality(old(i))
    BY <2>2, <2>3, FS_CardinalityType, FS_RemoveElement
  <2>5. QED
    BY <2>4
<1> HIDE DEF old, new
<1>6. Knows(book, r) => Knows(book, r)'
  <2> SUFFICES ASSUME Knows(book, r) PROVE Knows(book, r)'
    OBVIOUS
  <2>1. DOMAIN view'.code = DOMAIN LookedAt(book, r)'
    BY <1>1, <1>3 DEF Knows
  <2>2. ASSUME NEW i \in DOMAIN LookedAt(book, r)'
        PROVE  /\ view'.code[i].count \in Nat /\ Cardinality(new(i)) <= view'.code[i].count
               /\ view'.code[i].latest \in Nat /\ view'.code[i].latest <= view'.since
    <3>1. i \in DOMAIN LookedAt(book, r)
      BY <1>3
    <3>2. /\ view.code[i].count \in Nat /\ Cardinality(old(i)) <= view.code[i].count
          /\ view.code[i].latest \in Nat /\ view.code[i].latest <= view.since
      BY <3>1 DEF Knows, old
    <3>3. QED
      BY <1>1, <1>5, <3>1, <3>2
  <2>3. QED
    BY <1>4, <2>1, <2>2 DEF Knows
<1>7. ASSUME Knows(book, r), Shows(book, r) PROVE Shows(book, r)'
  <2> SUFFICES ASSUME \A i \in DOMAIN LookedAt(book, r)' : Cardinality(new(i)) = view'.code[i].count
               PROVE  view'.totals = Totals(book, Counted(r) \cap Untouched)'
    BY <1>4 DEF Shows
  <2>1. ASSUME NEW i \in DOMAIN LookedAt(book, r)
        PROVE  d \notin old(i) /\ Cardinality(old(i)) = view.code[i].count
    <3>1. Cardinality(new(i)) = view.code[i].count
      BY <1>1, <1>3
    <3>2. view.code[i].count \in Nat /\ Cardinality(old(i)) <= view.code[i].count
      BY <1>7 DEF Knows, old
    <3>3. QED
      BY <1>5, <3>1, <3>2
  <2>2. view.totals = Totals(book, Counted(r) \cap Untouched)
    BY <1>7, <2>1 DEF Shows, old
  <2>3. PICK S \in SUBSET Docs : S = (Counted(r) \cap Untouched) \ {d}
    BY DEF Untouched
  <2>4. Counted(r)' \cap Untouched' = S
    <3>1. Counted(r)' \ {d} = Counted(r) \ {d}
      BY TablesChange DEF Written
    <3>2. QED
      BY <1>2, <2>3, <3>1
  <2>5. (Counted(r) \cap Untouched) \cap Shown(book) = S \cap Shown(book)
    <3>1. ASSUME d \in Counted(r) \cap Untouched \cap Shown(book) PROVE FALSE
      <4>1. PICK i \in DOMAIN LookedAt(book, r) : d \in LookedAt(book, r)[i]
        BY <3>1, TablesOfBook
      <4>2. d \in old(i)
        BY <3>1, <4>1 DEF old, Left
      <4>3. QED
        BY <2>1, <4>2
    <3>2. QED
      BY <2>3, <3>1
  <2>6. Totals(book, Counted(r) \cap Untouched) = Totals(book, S)
    <3>1. Counted(r) \cap Untouched \in SUBSET Docs
      BY DEF Untouched
    <3>2. QED
      BY <2>5, <3>1, OthersDoNotShow
  <2>7. Totals(book, S)' = Totals(book, S)
    <3>1. \A e \in S : rows'[e] = rows[e]
      BY <2>3 DEF Written
    <3>2. QED
      BY <3>1, TotalsStay
  <2>8. QED
    BY <1>1, <2>2, <2>4, <2>6, <2>7
<1>8. QED
  BY <1>1, <1>6, <1>7 DEF ViewIsOf, Answered

(* The same after a step.                                                  *)
LEMMA AsOfNow ==
  BooksTyped /\ view.since = clock /\ hidden = {} =>
    /\ \A r : Counted(r) \cap Untouched = Counted(r)
    /\ \A book \in Books : \A r : view.code = SyncCode(book, r) => Knows(book, r)
BY AllUntouched, CodeKnows

LEMMA AsOfNext ==
  (BooksTyped /\ view.since = clock /\ hidden = {} =>
    /\ \A r : Counted(r) \cap Untouched = Counted(r)
    /\ \A book \in Books : \A r : view.code = SyncCode(book, r) => Knows(book, r))'
BY AsOfNow, PTL

(* While no document changes, the tables and the sums stay.                *)
LEMMA SameBooks ==
  ASSUME rows' = rows, NEW book \in Books, NEW r
  PROVE  /\ Counted(r)' = Counted(r) /\ LookedAt(book, r)' = LookedAt(book, r)
         /\ SyncCode(book, r)' = SyncCode(book, r)
         /\ TotalsNow(book, r)' = TotalsNow(book, r)
<1>1. Within(r)' = Within(r) /\ Counted(r)' = Counted(r)
  BY DEF Within, Counted
<1>2. LookedAt(book, r)' = LookedAt(book, r)
  BY <1>1 DEF LookedAt, Of, Expenses
<1>3. SyncCode(book, r)' = SyncCode(book, r)
  <2>1. \A S : Fingerprint(S)' = Fingerprint(S)
    BY DEF Fingerprint
  <2>2. QED
    BY <1>2, <2>1 DEF SyncCode
<1>4. TotalsNow(book, r)' = TotalsNow(book, r)
  <2>1. PICK S \in SUBSET Docs : S = Counted(r)
    BY DEF Counted, Within
  <2>2. Totals(book, S)' = Totals(book, S)
    BY TotalsStay
  <2>3. QED
    BY <1>1, <2>1, <2>2 DEF TotalsNow
<1>5. QED
  BY <1>1, <1>2, <1>3, <1>4

(* A step that writes none leaves the client's summary as it was.          *)
LEMMA OthersKept ==
  ASSUME BooksTyped, NEW book \in Books, NEW r \in Asked, ViewIsOf(book, r),
         rows' = rows, view' = view, hidden' = hidden, clock' = clock \/ clock' = clock + 1
  PROVE  ViewIsOf(book, r)'
<1>1. /\ clock \in Nat
      /\ view.since \in Nat /\ view.since <= clock /\ view.until \in Nat /\ view.until <= clock
  BY DEF ViewIsOf, BooksTyped
<1>2. Untouched' = Untouched /\ LookedAt(book, r)' = LookedAt(book, r) /\ Counted(r)' = Counted(r)
      /\ TotalsNow(book, r)' = TotalsNow(book, r)
  BY SameBooks DEF Untouched
<1>3. \A i : Left(book, r, i)' = Left(book, r, i)
  BY <1>2 DEF Left
<1>4. Knows(book, r) => Knows(book, r)'
  BY <1>2, <1>3 DEF Knows
<1>5. Shows(book, r) => Shows(book, r)'
  <2>1. PICK S \in SUBSET Docs : S = Counted(r) \cap Untouched
    BY DEF Untouched
  <2>2. Totals(book, S)' = Totals(book, S)
    BY TotalsStay
  <2>3. Totals(book, Counted(r) \cap Untouched)' = Totals(book, Counted(r) \cap Untouched)
    BY <1>2, <2>1, <2>2
  <2>4. QED
    BY <1>2, <1>3, <2>3 DEF Shows
<1>6. view'.since = clock' => view.since = clock
  BY <1>1
<1>7. QED
  BY <1>1, <1>2, <1>4, <1>5, <1>6 DEF ViewIsOf, Answered

LEMMA FieldsOfSummary ==
  ASSUME NEW v, NEW book, NEW r, NEW code, NEW totals, NEW since, NEW until,
         v = Summary(book, r, code, totals, since, until)
  PROVE  /\ v.book = book /\ v.range = r /\ v.code = code /\ v.totals = totals
         /\ v.since = since /\ v.until = until
BY DEF Summary

(* A reading client's next step: its code or its sums, or what is missing  *)
(* of them.                                                                *)
LEMMA ReadsFit ==
  ASSUME BooksTyped, ViewFits,
         \/ \E book \in Books, r \in Asked : CodeFirst(book, r) \/ TotalsFirst(book, r)
         \/ Answer
  PROVE  ViewFits'
<1>1. BooksTyped' /\ UNCHANGED <<rows, opening, clock>> /\ clock \in Nat
  <2>1. UNCHANGED <<rows, opening, clock>>
    BY DEF CodeFirst, TotalsFirst, Answer
  <2>2. QED
    BY <2>1 DEF BooksTyped
<1>2. \A book \in Books : \A r :
        SyncCode(book, r)' = SyncCode(book, r) /\ TotalsNow(book, r)' = TotalsNow(book, r)
  BY <1>1, SameBooks
(* What is read while nothing was written since the client began is what   *)
(* is there.                                                               *)
<1>3. ASSUME NEW book \in Books, NEW r, view'.since = clock, hidden' = {}
      PROVE  /\ view'.code = SyncCode(book, r) => Knows(book, r)'
             /\ view'.totals = TotalsNow(book, r) => Shows(book, r)'
  <2>1. view'.code = SyncCode(book, r) => Knows(book, r)'
    BY <1>1, <1>2, <1>3, AsOfNext
  <2>2. Counted(r)' \cap Untouched' = Counted(r)'
    BY <1>1, <1>3, AsOfNext
  <2>3. TotalsNow(book, r)' = Totals(book, Counted(r) \cap Untouched)'
    BY <2>2 DEF TotalsNow
  <2>4. QED
    BY <1>2, <2>1, <2>3 DEF Shows
<1>4. ASSUME NEW book \in Books, NEW r \in Asked, CodeFirst(book, r) PROVE ViewFits'
  <2>1. /\ view' = Summary(book, r, view'.code, view'.totals, view'.since, view'.until)
        /\ view'.since = clock /\ view'.until = 0 /\ hidden' = {}
        /\ view'.code = SyncCode(book, r) /\ view'.totals = None
    <3>1. view' = Summary(book, r, SyncCode(book, r), None, clock, 0)
      BY <1>4 DEF CodeFirst, NoView, Summary
    <3>2. hidden' = {}
      BY <1>4 DEF CodeFirst
    <3>3. QED
      BY <3>1, <3>2, FieldsOfSummary
  <2>2. Knows(book, r)'
    BY <1>3, <2>1
  <2>3. ViewIsOf(book, r)'
    BY <1>1, <2>1, <2>2 DEF ViewIsOf, Answered
  <2>4. QED
    BY <2>3 DEF ViewFits
<1>5. ASSUME NEW book \in Books, NEW r \in Asked, TotalsFirst(book, r) PROVE ViewFits'
  <2>1. /\ view' = Summary(book, r, view'.code, view'.totals, view'.since, view'.until)
        /\ view'.since = clock /\ view'.until = 0 /\ hidden' = {}
        /\ view'.code = None /\ view'.totals = TotalsNow(book, r)
    <3>1. view' = Summary(book, r, None, TotalsNow(book, r), clock, 0)
      BY <1>5 DEF TotalsFirst, NoView, Summary
    <3>2. hidden' = {}
      BY <1>5 DEF TotalsFirst
    <3>3. QED
      BY <3>1, <3>2, FieldsOfSummary
  <2>2. ViewIsOf(book, r)'
    BY <1>1, <1>2, <2>1 DEF ViewIsOf, Answered
  <2>3. QED
    BY <2>2 DEF ViewFits
<1>6. ASSUME Answer PROVE ViewFits'
  <2>1. PICK book \in Books, r \in Asked : ViewIsOf(book, r)
    BY <1>6 DEF Answer, ViewFits
  <2>2. /\ view.since \in Nat /\ view.since <= clock
        /\ hidden' = hidden /\ (view.since = clock => hidden = {})
    BY <1>6, <2>1 DEF ViewIsOf, Answer
  <2>3. /\ view' = Summary(book, r, view'.code, view'.totals, view'.since, view'.until)
        /\ view'.since = view.since /\ view'.until = clock
        /\ view'.code = IF view.code = None THEN SyncCode(book, r) ELSE view.code
        /\ view'.totals = IF view.totals = None THEN TotalsNow(book, r) ELSE view.totals
        /\ view.code = None \/ view.totals = None
    <3>1. PICK code, totals, since, until : view = Summary(book, r, code, totals, since, until)
      BY <2>1 DEF ViewIsOf
    <3>2. view.code = code /\ view.totals = totals /\ view.since = since
      BY <3>1, FieldsOfSummary
    <3>3. view' = Summary(book, r, IF code = None THEN SyncCode(book, r) ELSE code,
                          IF totals = None THEN TotalsNow(book, r) ELSE totals, since, clock)
      BY <1>6, <3>1 DEF Answer, Summary
    <3>4. view.code = None \/ view.totals = None
      BY <1>6 DEF Answer, Answered
    <3>5. QED
      BY <3>2, <3>3, <3>4, FieldsOfSummary
(* What it got before, it got while nothing was written since it began.    *)
  <2>5. ASSUME clock <= view.since PROVE Knows(book, r)' /\ Shows(book, r)'
    <3>1. view.since = clock /\ view'.since = clock /\ hidden' = {}
      BY <1>1, <2>2, <2>3, <2>5
    <3>2. Knows(book, r)'
      <4>1. CASE view.code = None
        BY <1>3, <2>3, <3>1, <4>1
      <4>2. CASE view.code # None
        <5>1. Knows(book, r)
          BY <1>1, <2>1, <3>1, <4>2 DEF ViewIsOf
        <5>2. view'.code = view.code /\ view'.since = view.since /\ hidden' = hidden
          BY <2>2, <2>3, <4>2
        <5>3. LookedAt(book, r)' = LookedAt(book, r) /\ Untouched' = Untouched
          BY <1>1, <5>2 DEF LookedAt, Counted, Within, Of, Expenses, Untouched
        <5>4. QED
          BY <5>1, <5>2, <5>3 DEF Knows, Left
      <4>3. QED
        BY <4>1, <4>2
    <3>3. view'.totals = TotalsNow(book, r)
      BY <2>1, <2>3, <3>1 DEF ViewIsOf
    <3>4. QED
      BY <1>3, <3>1, <3>2, <3>3
  <2>6. view'.totals # None /\ view'.code = None /\ view'.since = clock
          => view'.totals = TotalsNow(book, r)
    BY <2>1, <2>3 DEF ViewIsOf
  <2>7. ViewIsOf(book, r)'
    <3>1. view'.since \in Nat /\ view'.since <= clock' /\ view'.until \in Nat /\ view'.until <= clock'
      BY <1>1, <2>1, <2>3 DEF ViewIsOf
    <3>2. view'.until <= view'.since => Knows(book, r)' /\ Shows(book, r)'
      BY <2>3, <2>5
    <3>3. view'.totals # None /\ view'.code = None /\ view'.since = clock'
            => view'.totals = TotalsNow(book, r)'
      BY <1>1, <1>2, <2>6
    <3>4. view'.since = clock' => hidden' = {}
      BY <1>1, <2>2, <2>3
    <3>5. QED
      BY <2>3, <3>1, <3>2, <3>3, <3>4 DEF ViewIsOf, Answered
  <2>8. QED
    BY <2>7 DEF ViewFits
<1>7. QED
  BY <1>4, <1>5, <1>6

(* When the client is not told, its code is that of now: all that is in its*)
(* tables and not hidden has been there since it began, so with nothing    *)
(* hidden there its sums are those of now.                                 *)
LEMMA NotToldIsTrue == BooksTyped /\ ViewFits => CodeVouches
<1> SUFFICES ASSUME BooksTyped, ViewFits, Answered, view.since = view.until,
                    ~Outdated(view.book, view.range, view.code),
                    \A i \in DOMAIN LookedAt(view.book, view.range) :
                      hidden \cap LookedAt(view.book, view.range)[i] = {}
             PROVE  view.totals = TotalsNow(view.book, view.range)
  BY DEF CodeVouches, NotTold, InBook, Range
<1>1. CASE view = NoView
  BY <1>1 DEF NoView, Answered
<1>2. CASE view # NoView
  <2>1. PICK book \in Books, r \in Asked : ViewIsOf(book, r)
    BY <1>2 DEF ViewFits
  <2>2. view.book = book /\ view.range = r
    BY <2>1, FieldsOfSummary DEF ViewIsOf
  <2>3. view.code = SyncCode(book, r) /\ view.totals # None
    BY <2>2 DEF Outdated, Answered
  <2>4. view.since \in Nat /\ Knows(book, r) /\ Shows(book, r)
    BY <2>1 DEF ViewIsOf, Answered
  <2>5. ASSUME NEW i \in DOMAIN LookedAt(book, r)
        PROVE  LookedAt(book, r)[i] \subseteq Untouched
               /\ Cardinality(Left(book, r, i)) = view.code[i].count
    <3>1. view.code[i] = Fingerprint(LookedAt(book, r)[i])
      BY <2>3 DEF SyncCode
    <3>2. LookedAt(book, r)[i] \in SUBSET Docs /\ LookedAt(book, r)[i] \subseteq Within(r)
      BY TablesOfBook DEF Within
    <3>3. \A d \in LookedAt(book, r)[i] : rows[d].stamp <= view.code[i].latest
      BY <3>1, <3>2, LatestChange
    <3>4. view.code[i].latest \in Nat /\ view.code[i].latest <= view.since
      BY <2>4 DEF Knows
    <3>5. LookedAt(book, r)[i] \subseteq Untouched
      <4>1. ASSUME NEW d \in LookedAt(book, r)[i] PROVE d \in Untouched
        <5>1. rows[d].stamp \in Nat /\ rows[d].stamp <= view.code[i].latest
              /\ d \in Docs /\ rows[d].state # "ABSENT"
          BY <3>2, <3>3 DEF BooksTyped, Row, Within
        <5>2. QED
          BY <2>2, <2>4, <3>4, <5>1 DEF Untouched
      <4>2. QED
        BY <4>1
    <3>6. Left(book, r, i) = LookedAt(book, r)[i]
      BY <3>5 DEF Left
    <3>7. view.code[i].count = Cardinality(LookedAt(book, r)[i])
      BY <3>1 DEF Fingerprint
    <3>8. QED
      BY <3>5, <3>6, <3>7
  <2>6. view.totals = Totals(book, Counted(r) \cap Untouched)
    BY <2>4, <2>5 DEF Shows
  <2>7. (Counted(r) \cap Untouched) \cap Shown(book) = Counted(r) \cap Shown(book)
    BY <2>5, TablesOfBook
  <2>8. Counted(r) \in SUBSET Docs /\ Counted(r) \cap Untouched \in SUBSET Docs
    BY DEF Counted, Within
  <2>9. Totals(book, Counted(r) \cap Untouched) = Totals(book, Counted(r))
    BY <2>7, <2>8, OthersDoNotShow
  <2>10. QED
    BY <2>2, <2>6, <2>9 DEF TotalsNow
<1>3. QED
  BY <1>1, <1>2

(* The code a client sends with each page tells it of every change of what *)
(* its summary shows, for every set of documents, products, ranges and     *)
(* configurations and any number of commits, provided that nothing was     *)
(* written while the summary was read, and that each document its book     *)
(* looks at that was written since has a later updated_at.  The code does  *)
(* not see to the latter: an order whose details are replaced has not.     *)
THEOREM SummariesVouched == BooksSpec => []CodeVouches
<1>1. BooksInit => ViewFits
  BY DEF BooksInit, ViewFits
<1>2. BooksTyped /\ ViewFits /\ [BooksNext]_booksVars => ViewFits'
  <2> SUFFICES ASSUME BooksTyped, ViewFits, [BooksNext]_booksVars PROVE ViewFits'
    OBVIOUS
  <2>1. ASSUME rows' = rows, view' = view, hidden' = hidden, clock' = clock \/ clock' = clock + 1
        PROVE  ViewFits'
    <3>1. ASSUME view # NoView PROVE \E book \in Books, r \in Asked : ViewIsOf(book, r)'
      BY <2>1, <3>1, OthersKept DEF ViewFits
    <3>2. QED
      BY <2>1, <3>1 DEF ViewFits
  <2>2. CASE UNCHANGED booksVars
    BY <2>1, <2>2 DEF booksVars
  <2>3. ASSUME NEW d \in Docs, Written(d) PROVE ViewFits'
    <3>1. view' = view
      BY <2>3 DEF Written
    <3>2. ASSUME view # NoView PROVE \E book \in Books, r \in Asked : ViewIsOf(book, r)'
      BY <2>3, <3>2, WritesKept DEF ViewFits
    <3>3. QED
      BY <3>1, <3>2 DEF ViewFits
  <2>4. QED
    BY <2>1, <2>2, <2>3, Commits, ReadsFit
<1>3. BooksSpec => []BooksTyped
  BY Documents
<1>4. QED
  BY <1>1, <1>2, <1>3, NotToldIsTrue, PTL DEF BooksSpec

-----------------------------------------------------------------------------
(* Rows in an order of their documents.                                    *)
Orders(S, order) ==
  /\ \A d \in S : d \in order[d]
  /\ \A d, e \in S : d \in order[e] \/ e \in order[d]
  /\ \A d, e \in S : d \in order[e] /\ e \in order[d] => d = e
  /\ \A d, e \in S : d \in order[e] => S \cap order[d] \subseteq order[e]

(* The earlier of two documents has fewer up to it.                        *)
LEMMA FewerUpTo ==
  ASSUME NEW S, IsFiniteSet(S), NEW order, Orders(S, order), NEW d \in S, NEW e \in S, d # e,
         d \in order[e]
  PROVE  /\ UpTo(d, S, order) \subseteq UpTo(e, S, order) \ {e}
         /\ Cardinality(UpTo(d, S, order)) < Cardinality(UpTo(e, S, order))
<1> DEFINE D == UpTo(d, S, order)
           E == UpTo(e, S, order)
<1>1. D \subseteq E /\ e \in E /\ e \notin D /\ E \subseteq S
  BY DEF Orders, UpTo
<1> HIDE DEF D, E
<1>2. IsFiniteSet(E) /\ D \in SUBSET E /\ D # E
  BY <1>1, FS_Subset
<1>3. Cardinality(D) \in Nat /\ Cardinality(E) \in Nat /\ Cardinality(D) <= Cardinality(E)
      /\ Cardinality(D) # Cardinality(E)
  BY <1>2, FS_Subset, FS_CardinalityType
<1>4. QED
  BY <1>1, <1>3 DEF D, E

(* So each row from the first to the last has its document.                *)
LEMMA RowsAreListed ==
  ASSUME NEW S, IsFiniteSet(S), NEW order, Orders(S, order)
  PROVE  /\ Cardinality(S) \in Nat
         /\ DOMAIN Listed(S, order) = 1 .. Cardinality(S)
         /\ \A i \in 1 .. Cardinality(S) :
              /\ Listed(S, order)[i] \in S
              /\ Cardinality(UpTo(Listed(S, order)[i], S, order)) = i
<1> DEFINE n == Cardinality(S)
           f == [d \in S |-> Cardinality(UpTo(d, S, order))]
<1>1. n \in Nat
  BY FS_CardinalityType
<1>2. ASSUME NEW d \in S PROVE f[d] \in 1 .. n
  <2>1. UpTo(d, S, order) \in SUBSET S /\ d \in UpTo(d, S, order)
    BY DEF UpTo, Orders
  <2>2. IsFiniteSet(UpTo(d, S, order)) /\ Cardinality(UpTo(d, S, order)) <= n
    BY <2>1, FS_Subset
  <2>3. Cardinality(UpTo(d, S, order)) \in Nat /\ Cardinality(UpTo(d, S, order)) # 0
    BY <2>1, <2>2, FS_CardinalityType, FS_EmptySet
  <2>4. QED
    BY <1>1, <2>2, <2>3
<1>3. ASSUME NEW d \in S, NEW e \in S, d # e PROVE f[d] # f[e]
  <2>1. d \in order[e] \/ e \in order[d]
    BY DEF Orders
  <2>2. f[d] < f[e] \/ f[e] < f[d]
    BY <1>3, <2>1, FewerUpTo
  <2>3. QED
    BY <1>1, <1>2, <2>2
<1>4. f \in Injection(S, 1 .. n)
  BY <1>2, <1>3 DEF Injection, IsInjective
<1>5. IsFiniteSet(1 .. n) /\ Cardinality(1 .. n) = n
  BY <1>1, FS_Interval
<1>6. f \in Surjection(S, 1 .. n)
  BY <1>4, <1>5, FS_Injection
<1>7. \A i \in 1 .. n : \E d \in S : Cardinality(UpTo(d, S, order)) = i
  BY <1>6 DEF Surjection
<1>8. QED
  BY <1>1, <1>7 DEF Listed

LEMMA FirstRow ==
  ASSUME NEW S, IsFiniteSet(S), NEW order, Orders(S, order), S # {}
  PROVE  /\ 1 \in 1 .. Cardinality(S)
         /\ UpTo(Listed(S, order)[1], S, order) = {Listed(S, order)[1]}
<1> DEFINE d == Listed(S, order)[1]
<1>1. Cardinality(S) \in Nat /\ Cardinality(S) # 0
  BY FS_CardinalityType, FS_EmptySet
<1>2. d \in S /\ Cardinality(UpTo(d, S, order)) = 1
  BY <1>1, RowsAreListed
<1> HIDE DEF d
<1>3. UpTo(d, S, order) \in SUBSET S /\ d \in UpTo(d, S, order)
  BY <1>2 DEF UpTo, Orders
<1>4. \E x : UpTo(d, S, order) = {x}
  BY <1>2, <1>3, FS_Subset, FS_Singleton
<1>5. QED
  BY <1>1, <1>3, <1>4 DEF d

LEMMA NextRow ==
  ASSUME NEW S, IsFiniteSet(S), NEW order, Orders(S, order),
         NEW i \in 1 .. Cardinality(S), i + 1 \in 1 .. Cardinality(S)
  PROVE  LET d == Listed(S, order)[i]
             e == Listed(S, order)[i + 1]
         IN  UpTo(e, S, order) = UpTo(d, S, order) \cup {e} /\ e \notin UpTo(d, S, order)
<1> DEFINE d == Listed(S, order)[i]
           e == Listed(S, order)[i + 1]
<1>1. d \in S /\ e \in S /\ i \in Nat /\ Cardinality(UpTo(d, S, order)) = i
      /\ Cardinality(UpTo(e, S, order)) = i + 1
  BY RowsAreListed
<1> HIDE DEF d, e
<1>2. d # e /\ d \in order[e]
  <2>1. d # e
    BY <1>1
  <2>2. ASSUME e \in order[d] PROVE FALSE
    BY <1>1, <2>1, <2>2, FewerUpTo
  <2>3. QED
    BY <1>1, <2>1, <2>2 DEF Orders
<1>3. UpTo(d, S, order) \subseteq UpTo(e, S, order) \ {e} /\ e \in UpTo(e, S, order)
  BY <1>1, <1>2, FewerUpTo DEF UpTo, Orders
<1>4. IsFiniteSet(UpTo(e, S, order)) /\ IsFiniteSet(UpTo(d, S, order))
  BY FS_Subset DEF UpTo
<1>5. UpTo(d, S, order) \cup {e} \in SUBSET UpTo(e, S, order)
      /\ Cardinality(UpTo(d, S, order) \cup {e}) = i + 1
  BY <1>1, <1>3, <1>4, FS_AddElement
<1>6. UpTo(d, S, order) \cup {e} = UpTo(e, S, order)
  BY <1>1, <1>4, <1>5, FS_Subset
<1>7. QED
  BY <1>3, <1>6 DEF d, e

LEMMA LastRow ==
  ASSUME NEW S, IsFiniteSet(S), NEW order, Orders(S, order), S # {}
  PROVE  /\ Cardinality(S) \in 1 .. Cardinality(S)
         /\ UpTo(Listed(S, order)[Cardinality(S)], S, order) = S
<1> DEFINE d == Listed(S, order)[Cardinality(S)]
<1>1. Cardinality(S) \in Nat /\ Cardinality(S) # 0
  BY FS_CardinalityType, FS_EmptySet
<1>2. d \in S /\ Cardinality(UpTo(d, S, order)) = Cardinality(S)
  BY <1>1, RowsAreListed
<1> HIDE DEF d
<1>3. UpTo(d, S, order) \in SUBSET S
  BY DEF UpTo
<1>4. UpTo(d, S, order) = S
  BY <1>2, <1>3, FS_Subset
<1>5. QED
  BY <1>1, <1>4 DEF d

(* Both books list their rows in such an order: by day and id, and by day, *)
(* kind of row and id.                                                     *)
LEMMA ByDateOrders ==
  ASSUME BooksTyped, NEW S \in SUBSET Docs
  PROVE  Orders(S, ByDate)
<1>1. \A d \in S : d \in Int /\ rows[d].day \in Int
  BY BooksAssumption DEF BooksAssumption, BooksTyped, Row
<1>2. \A d, e \in S : d \in ByDate[e] <=> \/ rows[d].day < rows[e].day
                                          \/ rows[d].day = rows[e].day /\ d <= e
  BY DEF ByDate
<1>3. ASSUME NEW d \in S, NEW e \in S, NEW c \in S, d \in ByDate[e], c \in ByDate[d]
      PROVE  c \in ByDate[e]
  BY <1>1, <1>2, <1>3
<1>4. ASSUME NEW d \in S, NEW e \in S
      PROVE  /\ d \in ByDate[d]
             /\ d \in ByDate[e] \/ e \in ByDate[d]
             /\ d \in ByDate[e] /\ e \in ByDate[d] => d = e
  BY <1>1, <1>2
<1>5. QED
  BY <1>3, <1>4 DEF Orders

LEMMA ByDayAndRankOrders ==
  ASSUME BooksTyped, NEW p \in Products, NEW S \in SUBSET (Docs \ Of("voucher"))
  PROVE  Orders(S, ByDayAndRank(p))
<1> DEFINE order == ByDayAndRank(p)
<1>1. \A d \in S : d \in Int /\ rows[d].day \in Int
  <2>1. Docs \subseteq Int
    BY BooksAssumption DEF BooksAssumption
  <2>2. S \subseteq Docs /\ \A d \in Docs : rows[d].day \in Int
    BY DEF BooksTyped, Row
  <2>3. QED
    BY <2>1, <2>2
<1>2. \A d \in S : Rank(d, p) \in Int
  <2> SUFFICES ASSUME NEW d \in S PROVE Rank(d, p) \in Int
    OBVIOUS
  <2>1. About[d].table \in {"invoice", "bill", "order"}
    BY BooksAssumption DEF BooksAssumption, Of
  <2>2. QED
    BY <2>1 DEF Rank
<1>3. \A d, e \in S :
        d \in order[e] <=> \/ rows[d].day < rows[e].day
                           \/ rows[d].day = rows[e].day /\ Rank(d, p) < Rank(e, p)
                           \/ rows[d].day = rows[e].day /\ Rank(d, p) = Rank(e, p) /\ d <= e
  BY DEF ByDayAndRank
<1> HIDE DEF order
<1>4. ASSUME NEW d \in S, NEW e \in S, NEW c \in S, d \in order[e], c \in order[d]
      PROVE  c \in order[e]
  BY <1>1, <1>2, <1>3, <1>4
<1>5. ASSUME NEW d \in S, NEW e \in S
      PROVE  /\ d \in order[d]
             /\ d \in order[e] \/ e \in order[d]
             /\ d \in order[e] /\ e \in order[d] => d = e
  BY <1>1, <1>2, <1>3
<1>6. Orders(S, order)
  BY <1>4, <1>5 DEF Orders
<1>7. QED
  BY <1>6 DEF order

-----------------------------------------------------------------------------
(* What a wallet took in and paid out is a number of each, which adds up   *)
(* over sets of documents that have nothing in common, and its difference  *)
(* is the sum of the signed amounts.                                       *)
LEMMA WalletSplits ==
  ASSUME BooksTyped, NEW w, NEW type, NEW S \in SUBSET Docs, NEW T \in SUBSET Docs, S \cap T = {},
         NEW U, U = S \cup T
  PROVE  /\ Paid(type, InWallet(w, S)) \in Nat /\ Paid(type, InWallet(w, T)) \in Nat
         /\ Paid(type, InWallet(w, U)) = Paid(type, InWallet(w, S)) + Paid(type, InWallet(w, T))
<1> DEFINE A == {d \in InWallet(w, S) : About[d].type = type}
           B == {d \in InWallet(w, T) : About[d].type = type}
<1>1. A \in SUBSET Docs /\ B \in SUBSET Docs /\ A \cap B = {}
      /\ {d \in InWallet(w, U) : About[d].type = type} = A \cup B
  BY DEF InWallet
<1>2. Sum(A) \in Nat /\ Sum(B) \in Nat /\ Sum(A \cup B) = Sum(A) + Sum(B)
  BY <1>1, SizesAreNat, SizesSplit
<1>3. QED
  BY <1>1, <1>2 DEF Paid

LEMMA SignedIsPaid ==
  ASSUME BooksTyped, NEW S \in SUBSET Of("voucher")
  PROVE  SumFunctionOnSet([e \in Of("voucher") |-> Signed(e)], S)
           = Paid("RECEIPT", S) - Paid("PAYMENT", S)
<1> DEFINE f == [e \in Of("voucher") |-> Signed(e)]
           g == [e \in Docs |-> rows[e].size]
           C == {T \in SUBSET S : SumFunctionOnSet(f, T) = Paid("RECEIPT", T) - Paid("PAYMENT", T)}
<1>1. Of("voucher") \subseteq Docs /\ \A d \in Docs : rows[d].size \in Nat
  BY DEF Of, BooksTyped, Row
<1>2. \A T \in SUBSET S : IsFiniteSet(T)
  BY <1>1, DocsAreFinite
<1>3. {} \in C
  <2>1. SumFunctionOnSet(f, {}) = 0
    BY SumEmpty
  <2>2. \A type : Paid(type, {}) = 0
    BY SizesOfNone DEF Paid
  <2>3. QED
    BY <2>1, <2>2
<1>4. ASSUME NEW T \in SUBSET S, T # {}, \A x \in T : T \ {x} \in C
      PROVE  T \in C
  <2>1. PICK x \in T : TRUE
    BY <1>4
  <2> DEFINE U == T \ {x}
  <2>2. U \in SUBSET S /\ SumFunctionOnSet(f, U) = Paid("RECEIPT", U) - Paid("PAYMENT", U)
    BY <1>4, <2>1
  <2>3. SumFunctionOnSet(f, T) = f[x] + SumFunctionOnSet(f, U)
    <3>1. \A d \in T : f[d] \in Int
      BY <1>1 DEF Signed
    <3> HIDE DEF f
    <3>2. QED
      BY <1>2, <2>1, <3>1, SumRemove
  <2>4. ASSUME NEW type
        PROVE  Paid(type, U) \in Nat
               /\ Paid(type, T) = Paid(type, U) + IF About[x].type = type THEN rows[x].size ELSE 0
    <3> DEFINE K == {d \in U : About[d].type = type}
               L == {d \in T : About[d].type = type}
    <3>1. K \in SUBSET Docs /\ L \in SUBSET Docs
      BY <1>1
    <3>2. Sum(K) \in Nat
      BY <3>1, SizesAreNat
    <3>3. CASE About[x].type = type
      <4>1. x \in L /\ K = L \ {x} /\ IsFiniteSet(L) /\ (\A d \in L : g[d] \in Int)
            /\ g[x] = rows[x].size
        BY <1>1, <2>1, <3>1, <3>3, DocsAreFinite
      <4>2. Sum(L) = SumFunctionOnSet(g, L) /\ Sum(K) = SumFunctionOnSet(g, K)
        BY DEF Sum
      <4> HIDE DEF K, L, g
      <4>3. Sum(L) = g[x] + Sum(K)
        BY <4>1, <4>2, SumRemove
      <4>4. rows[x].size \in Nat
        BY <1>1, <2>1
      <4>5. QED
        BY <3>2, <3>3, <4>1, <4>3, <4>4 DEF Paid, K, L
    <3>4. CASE About[x].type # type
      <4>1. Paid(type, T) = Paid(type, U) /\ Paid(type, U) = Sum(K)
        <5>1. K = L
          BY <3>4
        <5>2. QED
          BY <5>1 DEF Paid
      <4> HIDE DEF K, L, U, f, g, C
      <4>2. QED
        BY <3>2, <3>4, <4>1
    <3>5. QED
      BY <3>3, <3>4
  <2>5. x \in Of("voucher") /\ f[x] = Signed(x) /\ rows[x].size \in Nat
    BY <1>1, <2>1
  <2>6. About[x].type \in {"RECEIPT", "PAYMENT"}
    BY <2>5, BooksAssumption DEF BooksAssumption
  <2> HIDE DEF f, U
  <2>7. SumFunctionOnSet(f, T) = Paid("RECEIPT", T) - Paid("PAYMENT", T)
    BY <2>2, <2>3, <2>4, <2>5, <2>6 DEF Signed
  <2>8. QED
    BY <2>7 DEF C
<1> HIDE DEF C
<1>5. SUBSET S \subseteq C
  BY <1>2, <1>3, <1>4, SubsetsInduce
<1>6. QED
  BY <1>5 DEF C

(* So do the goods a product's documents move.                             *)
LEMMA MovesSplit ==
  ASSUME BooksTyped, NEW p \in Products, NEW S \in SUBSET Docs, NEW T \in SUBSET Docs, S \cap T = {}
  PROVE  /\ NetMove(p, S) \in Int
         /\ NetMove(p, S \cup T) = NetMove(p, S) + NetMove(p, T)
<1> DEFINE f == [d \in Moving(p, Docs) |-> Move(d, p)]
           A == Moving(p, S)
           B == Moving(p, T)
<1>1. A \subseteq Moving(p, Docs) /\ B \subseteq Moving(p, Docs) /\ A \cap B = {}
      /\ Moving(p, S \cup T) = A \cup B
  BY DEF Moving
<1>2. \A d \in Moving(p, Docs) : f[d] \in Int
  <2> SUFFICES ASSUME NEW d \in Moving(p, Docs) PROVE f[d] \in Int
    OBVIOUS
  <2>1. d \in Docs \ Of("voucher")
    BY DEF Moving
  <2>2. About[d].moves \in [Products -> Int]
    BY <2>1, BooksAssumption DEF BooksAssumption
  <2>3. About[d].moves[p] \in Int /\ rows[d].size \in Int
    BY <2>1, <2>2 DEF BooksTyped, Row
  <2>4. f[d] = About[d].moves[p] * rows[d].size
    BY DEF Move
  <2> HIDE DEF f
  <2>5. QED
    BY <2>3, <2>4
<1>3. IsFiniteSet(A) /\ IsFiniteSet(B)
  BY DocsAreFinite DEF Moving
<1>4. /\ NetMove(p, S) = SumFunctionOnSet(f, A) /\ NetMove(p, T) = SumFunctionOnSet(f, B)
      /\ NetMove(p, S \cup T) = SumFunctionOnSet(f, A \cup B)
  BY <1>1 DEF NetMove
<1> HIDE DEF f, A, B
<1>5. SumFunctionOnSet(f, A) \in Int
  BY <1>1, <1>2, <1>3, SumInt
<1>6. SumFunctionOnSet(f, A \cup B) = SumFunctionOnSet(f, A) + SumFunctionOnSet(f, B)
  BY <1>1, <1>2, <1>3, SumUnion
<1>7. QED
  BY <1>4, <1>5, <1>6

(* One document moves what it moves.                                       *)
LEMMA MoveOfOne ==
  ASSUME BooksTyped, NEW p \in Products, NEW d \in Moving(p, Docs)
  PROVE  NetMove(p, {d}) = Move(d, p) /\ NetMove(p, {d}) \in Int
<1> DEFINE f == [e \in Moving(p, Docs) |-> Move(e, p)]
<1>1. {d} \in SUBSET Docs /\ Moving(p, {d}) = {d} /\ {} \in SUBSET Docs /\ {d} \cap {} = {}
  BY DEF Moving
<1>2. NetMove(p, {d}) \in Int
  BY <1>1, MovesSplit
<1>3. NetMove(p, {d}) = SumFunctionOnSet(f, {d}) /\ f[d] = Move(d, p)
  BY <1>1 DEF NetMove
<1>4. Move(d, p) \in Int
  <2>1. d \in Docs \ Of("voucher")
    BY DEF Moving
  <2>2. About[d].moves \in [Products -> Int]
    BY <2>1, BooksAssumption DEF BooksAssumption
  <2>3. About[d].moves[p] \in Int /\ rows[d].size \in Int
    BY <2>1, <2>2 DEF BooksTyped, Row
  <2>4. QED
    BY <2>3 DEF Move
<1> HIDE DEF f
<1>5. SumFunctionOnSet(f, {d}) = f[d] + SumFunctionOnSet(f, {d} \ {d})
  <2>1. IsFiniteSet({d}) /\ d \in {d} /\ \A x \in {d} : f[x] \in Int
    BY <1>3, <1>4, FS_Singleton
  <2>2. QED
    BY <2>1, SumRemove
<1>6. SumFunctionOnSet(f, {d} \ {d}) = 0
  <2>1. {d} \ {d} = {}
    OBVIOUS
  <2>2. QED
    BY <2>1, SumEmpty
<1>7. QED
  BY <1>2, <1>3, <1>4, <1>5, <1>6

(* The range of a book of goods: what moves in it is what came in less what*)
(* went out.                                                               *)
LEMMA GoodsAddUp ==
  ASSUME BooksTyped, NEW p \in Products, NEW r
  PROVE  /\ GoodsOpening(p, r) \in Int /\ NetMove(p, Counted(r)) \in Int
         /\ NetMove(p, Moving(p, Counted(r))) = NetMove(p, Counted(r))
         /\ GoodsClosing(p, r) = GoodsOpening(p, r) + NetMove(p, Counted(r))
<1> DEFINE S == Counted(r)
           A == {d \in Moving(p, S) : About[d].moves[p] > 0}
           B == {d \in Moving(p, S) : About[d].moves[p] < 0}
<1>1. S \in SUBSET Docs /\ Before(r) \in SUBSET Docs
  BY DEF Counted, Within, Before
<1>2. Moving(p, Moving(p, S)) = Moving(p, S) /\ Moving(p, S) \in SUBSET Docs
  BY <1>1 DEF Moving
<1>3. A \cup B = Moving(p, S) /\ A \cap B = {} /\ A \in SUBSET Docs /\ B \in SUBSET Docs
  <2>1. \A d \in Moving(p, S) : About[d].moves[p] \in Int /\ About[d].moves[p] # 0
    <3> SUFFICES ASSUME NEW d \in Moving(p, S)
                 PROVE  About[d].moves[p] \in Int /\ About[d].moves[p] # 0
      OBVIOUS
    <3>1. d \in Docs \ Of("voucher") /\ About[d].moves[p] # 0
      BY <1>1 DEF Moving
    <3>2. About[d].moves \in [Products -> Int]
      BY <3>1, BooksAssumption DEF BooksAssumption
    <3>3. QED
      BY <3>1, <3>2
  <2>2. QED
    BY <1>2, <2>1
<1>4. NetMove(p, Moving(p, S)) = NetMove(p, S)
  BY <1>2 DEF NetMove
<1>5. opening[p] \in Int
  BY DEF BooksTyped
<1> HIDE DEF A, B, S
<1>6. NetMove(p, S) = NetMove(p, A) + NetMove(p, B) /\ NetMove(p, A) \in Int /\ NetMove(p, B) \in Int
  BY <1>3, <1>4, MovesSplit
<1>7. NetMove(p, Before(r)) \in Int
  <2>1. {} \in SUBSET Docs /\ Before(r) \cap {} = {}
    OBVIOUS
  <2>2. QED
    BY <1>1, <2>1, MovesSplit
<1>8. GoodsOpening(p, r) \in Int
  BY <1>5, <1>7 DEF GoodsOpening
<1>9. GoodsClosing(p, r) = GoodsOpening(p, r) + NetMove(p, A) - (-NetMove(p, B))
  BY DEF GoodsClosing, GoodsTotals, A, B, S
<1>10. QED
  BY <1>4, <1>6, <1>8, <1>9 DEF S

(* A range opens with what the one before it closed with.                  *)
LEMMA OpenAsClosed ==
  ASSUME BooksTyped, NEW r \in Ranges, NEW s \in Ranges, Follows(r, s)
  PROVE  /\ \A w : CashOpening(w, s) = CashClosing(w, r)
         /\ \A p \in Products : GoodsOpening(p, s) = GoodsClosing(p, r)
<1>1. /\ Before(s) = Before(r) \cup Counted(r) /\ Before(r) \cap Counted(r) = {}
      /\ Before(r) \in SUBSET Docs /\ Counted(r) \in SUBSET Docs
  BY RangesJoin DEF Before, Counted, Within
<1>2. ASSUME NEW w PROVE CashOpening(w, s) = CashClosing(w, r)
  <2> DEFINE paid(type, S) == Paid(type, InWallet(w, S))
  <2>1. \A type : /\ paid(type, Before(r)) \in Nat /\ paid(type, Counted(r)) \in Nat
                  /\ paid(type, Before(s)) = paid(type, Before(r)) + paid(type, Counted(r))
    <3>1. ASSUME NEW type PROVE paid(type, Before(r)) \in Nat /\ paid(type, Counted(r)) \in Nat
      BY <1>1, WalletSplits
    <3>2. ASSUME NEW type
          PROVE  paid(type, Before(s)) = paid(type, Before(r)) + paid(type, Counted(r))
      BY <1>1, WalletSplits
    <3>3. QED
      BY <3>1, <3>2
  <2>2. CashOpening(w, s) = paid("RECEIPT", Before(s)) - paid("PAYMENT", Before(s))
    BY DEF CashOpening
  <2>3. CashClosing(w, r) = paid("RECEIPT", Before(r)) - paid("PAYMENT", Before(r))
                            + paid("RECEIPT", Counted(r)) - paid("PAYMENT", Counted(r))
    BY DEF CashClosing, CashOpening, CashTotals
  <2> HIDE DEF paid
  <2>4. QED
    BY <2>1, <2>2, <2>3
<1>3. ASSUME NEW p \in Products PROVE GoodsOpening(p, s) = GoodsClosing(p, r)
  <2>1. GoodsClosing(p, r) = GoodsOpening(p, r) + NetMove(p, Counted(r))
        /\ NetMove(p, Counted(r)) \in Int
    BY GoodsAddUp
  <2>2. NetMove(p, Before(s)) = NetMove(p, Before(r)) + NetMove(p, Counted(r))
        /\ NetMove(p, Before(r)) \in Int
    BY <1>1, MovesSplit
  <2>3. opening[p] \in Int
    BY DEF BooksTyped
  <2>4. QED
    BY <2>1, <2>2, <2>3 DEF GoodsOpening
<1>4. QED
  BY <1>2, <1>3

(* The last row of a range has the balance the range closes with.          *)
LEMMA LastCashRow ==
  ASSUME BooksTyped, NEW r, NEW w, CashRows(w, r) # <<>>
  PROVE  Last(CashRows(w, r)).balance = CashClosing(w, r)
<1> DEFINE S == InWallet(w, Counted(r))
           listed == Listed(S, ByDate)
           n == Cardinality(S)
<1>1. S \in SUBSET Docs /\ S \in SUBSET Of("voucher") /\ Counted(r) \in SUBSET Docs
  BY DEF InWallet, Of, Counted, Within
<1>2. IsFiniteSet(S) /\ Orders(S, ByDate)
  BY <1>1, DocsAreFinite, ByDateOrders
<1>3. CashRows(w, r) = [i \in DOMAIN listed |-> [doc |-> listed[i], balance |-> CashBalance(w, r, listed[i])]]
  BY DEF CashRows
<1>4. DOMAIN listed = 1 .. n /\ n \in Nat
  BY <1>2, RowsAreListed
<1>5. S # {}
  <2>1. ASSUME S = {} PROVE FALSE
    <3>1. n = 0
      BY <2>1, FS_EmptySet
    <3>2. DOMAIN listed = {}
      BY <1>4, <3>1
    <3> HIDE DEF listed
    <3>3. CashRows(w, r) = <<>>
      BY <1>3, <3>2
    <3>4. QED
      BY <3>3
  <2>2. QED
    BY <2>1
<1>6. n \in 1 .. n /\ UpTo(listed[n], S, ByDate) = S
  BY <1>2, <1>5, LastRow
<1> HIDE DEF listed, n
<1>7. Last(CashRows(w, r)) = CashRows(w, r)[n]
  <2>1. Len(CashRows(w, r)) = n
    BY <1>3, <1>4
  <2>2. QED
    BY <2>1 DEF Last
<1>8. Last(CashRows(w, r)).balance = CashBalance(w, r, listed[n])
  BY <1>3, <1>4, <1>6, <1>7
<1>9. CashBalance(w, r, listed[n]) = CashOpening(w, r) + (Paid("RECEIPT", S) - Paid("PAYMENT", S))
  BY <1>1, <1>6, SignedIsPaid DEF CashBalance
<1>10. CashClosing(w, r) = CashOpening(w, r) + Paid("RECEIPT", S) - Paid("PAYMENT", S)
  BY DEF CashClosing, CashTotals
<1>11. CashOpening(w, r) \in Int /\ Paid("RECEIPT", S) \in Nat /\ Paid("PAYMENT", S) \in Nat
  <2>2. Before(r) \in SUBSET Docs
    BY DEF Before
  <2>3. ASSUME NEW T \in SUBSET Docs, NEW type PROVE Paid(type, InWallet(w, T)) \in Nat
    <3>1. {} \in SUBSET Docs /\ T \cap {} = {} /\ T = T \cup {}
      OBVIOUS
    <3>2. QED
      BY <3>1, WalletSplits
  <2>4. QED
    BY <1>1, <2>2, <2>3 DEF CashOpening
<1> HIDE DEF S
<1>12. QED
  BY <1>8, <1>9, <1>10, <1>11

LEMMA RowsOfGoods ==
  ASSUME BooksTyped, NEW p \in Products, NEW r,
         NEW S, S = Moving(p, Counted(r)), NEW listed, listed = Listed(S, ByDayAndRank(p))
  PROVE  /\ S \in SUBSET Docs /\ Moving(p, S) = S
         /\ IsFiniteSet(S) /\ Orders(S, ByDayAndRank(p))
         /\ Cardinality(S) \in Nat /\ \A i \in 1 .. Cardinality(S) : listed[i] \in S
         /\ GoodsRows(p, r) = [i \in 1 .. Cardinality(S) |-> GoodsRow(p, r, listed[i])]
<1>1. S \in SUBSET (Docs \ Of("voucher")) /\ Moving(p, S) = S
  BY DEF Moving, Counted, Within
<1>2. IsFiniteSet(S) /\ Orders(S, ByDayAndRank(p))
  BY <1>1, DocsAreFinite, ByDayAndRankOrders
<1>3. /\ Cardinality(S) \in Nat /\ DOMAIN listed = 1 .. Cardinality(S)
      /\ \A i \in 1 .. Cardinality(S) : listed[i] \in S
  BY <1>2, RowsAreListed
<1>4. GoodsRows(p, r) = [i \in DOMAIN listed |-> GoodsRow(p, r, listed[i])]
  BY DEF GoodsRows
<1>5. QED
  BY <1>1, <1>2, <1>3, <1>4

LEMMA LastGoodsRow ==
  ASSUME BooksTyped, NEW p \in Products, NEW r, GoodsRows(p, r) # <<>>
  PROVE  Last(GoodsRows(p, r)).balance = GoodsClosing(p, r)
<1> PICK S : S = Moving(p, Counted(r))
  OBVIOUS
<1> PICK listed : listed = Listed(S, ByDayAndRank(p))
  OBVIOUS
<1> DEFINE n == Cardinality(S)
<1>1. /\ S \in SUBSET Docs /\ Moving(p, S) = S
      /\ IsFiniteSet(S) /\ Orders(S, ByDayAndRank(p))
      /\ n \in Nat /\ GoodsRows(p, r) = [i \in 1 .. n |-> GoodsRow(p, r, listed[i])]
  BY RowsOfGoods
<1>2. n # 0
  BY <1>1
<1>3. S # {}
  BY <1>1, <1>2, FS_EmptySet
<1>4. n \in 1 .. n /\ UpTo(listed[n], S, ByDayAndRank(p)) = S
  BY <1>1, <1>3, LastRow
<1>5. Last(GoodsRows(p, r)) = GoodsRow(p, r, listed[n])
  <2>1. Len(GoodsRows(p, r)) = n
    BY <1>1
  <2>2. QED
    BY <1>1, <1>4, <2>1 DEF Last
<1>6. GoodsRow(p, r, listed[n]).balance = GoodsOpening(p, r) + NetMove(p, S)
  BY <1>4 DEF GoodsRow
<1>7. QED
  BY <1>5, <1>6, GoodsAddUp

(* For every set of documents, of products and of ranges: balances carry   *)
(* over from one range to the next, and rows end with the closing balance. *)
THEOREM BalancesCarry == BooksSpec => []BalancesCarryOver
<1>1. BooksTyped => BalancesCarryOver
  <2> SUFFICES ASSUME BooksTyped, NEW r \in Ranges
               PROVE  /\ \A w \in Wallets :
                           /\ \A s \in Ranges : Follows(r, s) => CashOpening(w, s) = CashClosing(w, r)
                           /\ CashRows(w, r) # <<>> => Last(CashRows(w, r)).balance = CashClosing(w, r)
                      /\ \A p \in Products :
                           /\ \A s \in Ranges : Follows(r, s) => GoodsOpening(p, s) = GoodsClosing(p, r)
                           /\ GoodsRows(p, r) # <<>> => Last(GoodsRows(p, r)).balance = GoodsClosing(p, r)
    BY Zenon DEF BalancesCarryOver
  <2>1. QED
    BY OpenAsClosed, LastCashRow, LastGoodsRow
<1>2. QED
  BY <1>1, Documents, PTL

-----------------------------------------------------------------------------
(* The rows on the pages before one.                                       *)
Offset(n) == (n - 1) * Limit

LEMMA Offsets ==
  ASSUME NEW n \in Nat \ {0}
  PROVE  /\ Offset(n) \in Nat /\ Offset(1) = 0
         /\ n # 1 => n - 1 \in Nat \ {0} /\ Offset(n) = Offset(n - 1) + Limit
         /\ n * Limit = Offset(n) + Limit
<1>1. Limit \in Nat
  BY BooksAssumption DEF BooksAssumption
<1>2. \A k \in Nat : k * Limit \in Nat /\ 0 * Limit = 0 /\ (k + 1) * Limit = k * Limit + Limit
  BY <1>1
<1>3. n - 1 \in Nat /\ (n - 1) + 1 = n /\ 1 - 1 = 0
      /\ (n # 1 => (n - 1) - 1 \in Nat /\ ((n - 1) - 1) + 1 = n - 1)
  OBVIOUS
<1>4. n # 1 => n - 1 \in Nat \ {0}
  OBVIOUS
<1>5. QED
  BY <1>2, <1>3, <1>4 DEF Offset

(* A page has the rows after those of the pages before it, as many as it   *)
(* takes, and no row when there are no more.                               *)
LEMMA PageHasItsRows ==
  ASSUME NEW V, NEW all \in Seq(V), NEW n \in Nat \ {0}
  PROVE  /\ Page(all, n) # <<>> <=> Offset(n) < Len(all)
         /\ Offset(n) < Len(all) =>
              /\ Page(all, n)[1] = all[Offset(n) + 1]
              /\ Last(Page(all, n)) = all[IF Offset(n) + Limit < Len(all) THEN Offset(n) + Limit
                                         ELSE Len(all)]
<1> PICK low : low = Offset(n)
  OBVIOUS
<1>1. Limit \in Nat /\ 1 <= Limit /\ Len(all) \in Nat
  BY BooksAssumption DEF BooksAssumption
<1>2. low \in Nat /\ n * Limit = low + Limit
  BY Offsets
<1> DEFINE high == IF low + Limit < Len(all) THEN low + Limit ELSE Len(all)
<1>3. Page(all, n) = SubSeq(all, low + 1, high)
  BY <1>2 DEF Page, Offset
<1>4. high \in Nat /\ (low < Len(all) <=> low + 1 <= high) /\ high <= Len(all)
  BY <1>1, <1>2
<1> HIDE DEF high
<1>5. ASSUME ~(low < Len(all)) PROVE Page(all, n) = <<>>
  BY <1>2, <1>3, <1>4, <1>5, SubSeqEmpty
<1>6. ASSUME low < Len(all)
      PROVE  /\ Page(all, n) # <<>> /\ Page(all, n)[1] = all[low + 1]
             /\ Last(Page(all, n)) = all[high]
  <2>1. \A i \in low + 1 .. high : all[i] \in V
    BY <1>2, <1>4
  <2>2. /\ SubSeq(all, low + 1, high) \in Seq(V)
        /\ Len(SubSeq(all, low + 1, high)) = high - (low + 1) + 1
        /\ \A i \in 1 .. high - (low + 1) + 1 : SubSeq(all, low + 1, high)[i] = all[(low + 1) + i - 1]
    BY <1>2, <1>4, <1>6, <2>1, SubSeqProperties
  <2>3. high - (low + 1) + 1 = high - low /\ 1 \in 1 .. high - low /\ high - low \in 1 .. high - low
    BY <1>2, <1>4, <1>6
  <2>4. SubSeq(all, low + 1, high)[1] = all[low + 1]
    <3>1. (low + 1) + 1 - 1 = low + 1
      BY <1>2
    <3>2. QED
      BY <2>2, <2>3, <3>1
  <2>5. SubSeq(all, low + 1, high)[high - low] = all[high]
    <3>1. (low + 1) + (high - low) - 1 = high
      BY <1>2, <1>4
    <3>2. QED
      BY <2>2, <2>3, <3>1
  <2>6. Last(Page(all, n)) = all[high]
    BY <1>3, <2>2, <2>3, <2>5 DEF Last
  <2>7. Page(all, n) # <<>>
    <3>1. Len(Page(all, n)) # 0
      BY <1>3, <2>2, <2>3
    <3>2. QED
      BY <3>1
  <2>8. QED
    BY <1>3, <2>4, <2>6, <2>7
<1>7. QED
  BY <1>1, <1>2, <1>5, <1>6 DEF high

(* Less its own move, a row has the balance of the row before it.          *)
LEMMA RowsFollow ==
  ASSUME BooksTyped, NEW p \in Products, NEW r, NEW S, S = Moving(p, Counted(r)),
         NEW listed, listed = Listed(S, ByDayAndRank(p)), NEW i \in 1 .. Cardinality(S)
  PROVE  CarriedInto(GoodsRow(p, r, listed[i])) =
           IF i = 1 THEN GoodsOpening(p, r) ELSE GoodsRow(p, r, listed[i - 1]).balance
<1> DEFINE order == ByDayAndRank(p)
           d == listed[i]
<1>1. /\ S \in SUBSET Docs /\ Moving(p, S) = S
      /\ IsFiniteSet(S) /\ Orders(S, order)
      /\ Cardinality(S) \in Nat /\ \A j \in 1 .. Cardinality(S) : listed[j] \in S
  BY RowsOfGoods
<1>2. d \in S /\ Moving(p, {d}) = {d} /\ d \in Moving(p, Docs) /\ {d} \in SUBSET Docs
  <2>1. d \in S
    BY <1>1
  <2>2. QED
    BY <1>1, <2>1 DEF Moving
<1>3. NetMove(p, {d}) = Move(d, p) /\ NetMove(p, {d}) \in Int
  BY <1>2, MoveOfOne
<1>4. GoodsOpening(p, r) \in Int
  BY GoodsAddUp
<1>5. CarriedInto(GoodsRow(p, r, d)) = GoodsOpening(p, r) + NetMove(p, UpTo(d, S, order)) - Move(d, p)
  <2>1. GoodsRow(p, r, d).balance = GoodsOpening(p, r) + NetMove(p, UpTo(d, S, order))
    BY DEF GoodsRow
  <2>2. GoodsRow(p, r, d).move = Move(d, p)
    BY DEF GoodsRow
  <2> PICK U \in SUBSET Docs : U = UpTo(d, S, order)
    BY <1>1 DEF UpTo
  <2>3. {} \in SUBSET Docs /\ U \cap {} = {}
    OBVIOUS
  <2>4. NetMove(p, U) \in Int
    BY <2>3, MovesSplit
  <2> HIDE DEF d, order
  <2>5. QED
    BY <1>3, <1>4, <2>1, <2>2, <2>4 DEF CarriedInto
<1>6. CASE i = 1
  <2>1. S # {}
    BY <1>2
  <2>2. UpTo(d, S, order) = {d}
    BY <1>1, <1>6, <2>1, FirstRow
  <2> HIDE DEF d, order
  <2>3. QED
    BY <1>3, <1>4, <1>5, <1>6, <2>2 DEF d
<1>7. CASE i # 1
  <2> DEFINE c == listed[i - 1]
             A == UpTo(c, S, order)
  <2>1. i - 1 \in 1 .. Cardinality(S) /\ (i - 1) + 1 = i
    BY <1>1, <1>7
  <2>2. UpTo(d, S, order) = A \cup {d} /\ d \notin A
    BY <1>1, <2>1, NextRow
  <2>3. A \in SUBSET Docs /\ A \cap {d} = {}
    BY <1>1, <2>2 DEF UpTo
  <2>4. NetMove(p, UpTo(d, S, order)) = NetMove(p, A) + Move(d, p) /\ NetMove(p, A) \in Int
    <3> PICK D : D = {d}
      OBVIOUS
    <3>1. D \in SUBSET Docs /\ NetMove(p, D) = Move(d, p) /\ A \cap D = {}
      BY <1>2, <1>3, <2>3
    <3> HIDE DEF A, d, order
    <3>2. NetMove(p, A \cup D) = NetMove(p, A) + NetMove(p, D)
      BY <2>3, <3>1, MovesSplit
    <3>3. NetMove(p, A) \in Int
      BY <2>3, <3>1, MovesSplit
    <3>4. QED
      BY <2>2, <3>1, <3>2, <3>3
  <2>5. GoodsRow(p, r, c).balance = GoodsOpening(p, r) + NetMove(p, A)
    BY DEF GoodsRow
  <2> HIDE DEF d, order, A
  <2>6. QED
    BY <1>3, <1>4, <1>5, <1>7, <2>4, <2>5 DEF d
<1>8. QED
  BY <1>6, <1>7

(* For every set of documents, every product, every range and every size   *)
(* of a page: what a page says was carried over to it is the balance the   *)
(* page before it ended with, and the opening balance on the first one.    *)
THEOREM PagesCarry == BooksSpec => []PagesCarryOver
<1>1. ASSUME BooksTyped, NEW p \in Products, NEW r, NEW all, all = GoodsRows(p, r)
      PROVE  /\ CarriedOver(p, r, 1, Page(all, 1)) = GoodsOpening(p, r)
             /\ \A n \in 2 .. Len(all) + 1 :
                  Page(all, n - 1) # <<>> =>
                    CarriedOver(p, r, n, Page(all, n)) = Last(Page(all, n - 1)).balance
  <2> PICK S : S = Moving(p, Counted(r))
    OBVIOUS
  <2> PICK listed : listed = Listed(S, ByDayAndRank(p))
    OBVIOUS
  <2> PICK m : m = Cardinality(S)
    OBVIOUS
  <2> DEFINE V == {GoodsRow(p, r, listed[i]) : i \in 1 .. m}
  <2>1. /\ S \in SUBSET Docs /\ Moving(p, S) = S
        /\ m \in Nat /\ all = [i \in 1 .. m |-> GoodsRow(p, r, listed[i])]
    BY <1>1, RowsOfGoods
  <2>2. all \in Seq(V) /\ Len(all) = m
    BY <2>1
  <2> HIDE DEF V
  <2>3. GoodsOpening(p, r) \in Int
    BY <1>1, GoodsAddUp
  <2>4. ASSUME NEW i \in 1 .. m
        PROVE  CarriedInto(all[i]) = IF i = 1 THEN GoodsOpening(p, r) ELSE all[i - 1].balance
    <3>1. CarriedInto(GoodsRow(p, r, listed[i])) =
            IF i = 1 THEN GoodsOpening(p, r) ELSE GoodsRow(p, r, listed[i - 1]).balance
      BY <1>1, RowsFollow
    <3>2. i # 1 => i - 1 \in 1 .. m
      BY <2>1
    <3>3. QED
      BY <2>1, <3>1, <3>2
  <2>5. CarriedOver(p, r, 1, Page(all, 1)) = GoodsOpening(p, r)
    <3>1. 1 \in Nat \ {0} /\ Offset(1) = 0 /\ 0 + 1 = 1
      BY Offsets
    <3>2. CASE Page(all, 1) # <<>>
      <4>1. 0 < m /\ Page(all, 1)[1] = all[1]
        BY <2>2, <3>1, <3>2, PageHasItsRows
      <4>2. 1 \in 1 .. m
        BY <2>1, <4>1
      <4>3. QED
        BY <2>4, <3>2, <4>1, <4>2 DEF CarriedOver
    <3>3. CASE Page(all, 1) = <<>>
      BY <2>3, <3>3 DEF CarriedOver
    <3>4. QED
      BY <3>2, <3>3
  <2>6. ASSUME NEW n \in 2 .. Len(all) + 1, Page(all, n - 1) # <<>>
        PROVE  CarriedOver(p, r, n, Page(all, n)) = Last(Page(all, n - 1)).balance
    <3>1. n \in Nat \ {0} /\ n - 1 \in Nat \ {0} /\ n # 1
      BY <2>1, <2>2
    <3> PICK low, next : low = Offset(n - 1) /\ next = Offset(n)
      OBVIOUS
    <3>2. low < m /\ Last(Page(all, n - 1)) = all[IF low + Limit < m THEN low + Limit ELSE m]
      BY <2>2, <2>6, <3>1, PageHasItsRows
    <3>3. low \in Nat /\ next = low + Limit /\ Limit \in Nat /\ 1 <= Limit
      BY <3>1, Offsets, BooksAssumption DEF BooksAssumption
    <3>4. CASE Page(all, n) # <<>>
      <4>1. next < m /\ Page(all, n)[1] = all[next + 1]
        BY <2>2, <3>1, <3>4, PageHasItsRows
      <4>2. next + 1 \in 1 .. m /\ next + 1 # 1 /\ (next + 1) - 1 = next
        BY <2>1, <3>3, <4>1
      <4>3. CarriedInto(all[next + 1]) = all[next].balance
        BY <2>4, <4>2
      <4>4. CarriedOver(p, r, n, Page(all, n)) = CarriedInto(all[next + 1])
        BY <3>4, <4>1 DEF CarriedOver
      <4>5. Last(Page(all, n - 1)) = all[next]
        BY <3>2, <3>3, <4>1
      <4>6. QED
        BY <4>3, <4>4, <4>5
    <3>5. CASE Page(all, n) = <<>>
      <4>1. ~(next < m)
        BY <2>2, <3>1, <3>5, PageHasItsRows
      <4>2. Last(Page(all, n - 1)) = all[m] /\ m # 0
        BY <2>1, <3>2, <3>3, <4>1
      <4>3. Last(all).balance = GoodsClosing(p, r)
        <5>1. all # <<>>
          BY <2>2, <4>2
        <5>2. QED
          BY <1>1, <5>1, LastGoodsRow
      <4>4. Last(all) = all[m]
        BY <2>2 DEF Last
      <4>5. CarriedOver(p, r, n, Page(all, n)) = GoodsOpening(p, r) + NetMove(p, Counted(r))
        BY <3>1, <3>5 DEF CarriedOver
      <4>6. GoodsClosing(p, r) = GoodsOpening(p, r) + NetMove(p, Counted(r))
        BY <1>1, GoodsAddUp
      <4>7. QED
        BY <4>2, <4>3, <4>4, <4>5, <4>6
    <3>6. QED
      BY <3>4, <3>5
  <2>7. QED
    BY <2>5, <2>6
<1>2. BooksTyped => PagesCarryOver
  <2> SUFFICES ASSUME BooksTyped, NEW p \in Products, NEW r \in Ranges
               PROVE  /\ CarriedOver(p, r, 1, Page(GoodsRows(p, r), 1)) = GoodsOpening(p, r)
                      /\ \A n \in 2 .. Len(GoodsRows(p, r)) + 1 :
                           Page(GoodsRows(p, r), n - 1) # <<>> =>
                             CarriedOver(p, r, n, Page(GoodsRows(p, r), n))
                               = Last(Page(GoodsRows(p, r), n - 1)).balance
    BY Zenon DEF PagesCarryOver
  <2> PICK all : all = GoodsRows(p, r)
    OBVIOUS
  <2>1. QED
    BY <1>1
<1>3. QED
  BY <1>2, Documents, PTL
=============================================================================
