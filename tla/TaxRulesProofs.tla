--------------------------- MODULE TaxRulesProofs ---------------------------
(***************************************************************************)
(* What holds of tax configurations and of the taxes they lead to for      *)
(* every catalogue of categories, every set of requests and all amounts.   *)
(***************************************************************************)
EXTENDS TaxRules, TaxEngineProofs, SumTheorems

(* The calendar holds whole quarters and a month.                          *)
LEMMA Calendars ==
  /\ Len(MonthLengths) \in Nat /\ Len(MonthLengths) >= 1
  /\ FilingMonths \in Nat /\ FilingMonths % 3 = 0
  /\ Len(MonthLengths) = FilingMonths + 1
  /\ \A m \in Months : MonthLengths[m] \in 28 .. 31
BY CalendarAssumption DEF CalendarAssumption, FilingMonths, Months

(* A month ends as many days after the month before it as it has.          *)
LEMMA MonthEnds ==
  /\ EndOfMonth(0) = 0
  /\ \A m \in 0 .. Len(MonthLengths) : EndOfMonth(m) \in Int
  /\ \A m \in Months : EndOfMonth(m) = EndOfMonth(m - 1) + MonthLengths[m]
<1>1. \A m \in 0 .. Len(MonthLengths) :
        IsFiniteSet(1 .. m) /\ \A k \in 1 .. m : MonthLengths[k] \in Int
  <2>1. ASSUME NEW m \in 0 .. Len(MonthLengths) PROVE IsFiniteSet(1 .. m)
    BY FS_Interval, Calendars
  <2>2. ASSUME NEW m \in 0 .. Len(MonthLengths), NEW k \in 1 .. m
        PROVE  MonthLengths[k] \in Int
    BY Calendars DEF Months
  <2>3. QED
    BY <2>1, <2>2
<1>2. EndOfMonth(0) = 0
  <2>1. 1 .. 0 = {}
    OBVIOUS
  <2>2. QED
    BY <2>1, SumEmpty, Zenon DEF EndOfMonth
<1>3. ASSUME NEW m \in 0 .. Len(MonthLengths) PROVE EndOfMonth(m) \in Int
  BY <1>1, SumInt DEF EndOfMonth
<1>4. ASSUME NEW m \in Months
      PROVE  EndOfMonth(m) = EndOfMonth(m - 1) + MonthLengths[m]
  <2> DEFINE before == 1 .. m - 1
  <2>1. before \cup {m} = 1 .. m /\ m \notin before
    BY Calendars DEF Months
  <2>2. IsFiniteSet(before) /\ \A k \in before \cup {m} : MonthLengths[k] \in Int
    BY <1>1, <2>1, Calendars DEF Months
  <2> HIDE DEF before
  <2>3. SumFunctionOnSet(MonthLengths, before \cup {m})
          = SumFunctionOnSet(MonthLengths, before) + MonthLengths[m]
    BY <2>1, <2>2, SumAdd
  <2>4. SumFunctionOnSet(MonthLengths, 1 .. m)
          = SumFunctionOnSet(MonthLengths, before) + MonthLengths[m]
    BY <2>1, <2>3, Zenon
  <2>5. QED
    BY <2>4, Zenon DEF EndOfMonth, before
<1>5. QED
  BY <1>2, <1>3, <1>4

(* A later month ends at least a month later.                              *)
LEMMA EndsGrow ==
  ASSUME NEW m \in 0 .. Len(MonthLengths), NEW k \in 0 .. m, k < m
  PROVE  EndOfMonth(k) + 28 <= EndOfMonth(m)
<1> DEFINE T == {n \in Nat : n <= Len(MonthLengths) =>
                   \A j \in 0 .. n : j < n => EndOfMonth(j) + 28 <= EndOfMonth(n)}
<1>1. 0 \in T
  OBVIOUS
<1>2. ASSUME NEW n \in Nat, n \in T PROVE n + 1 \in T
  <2> SUFFICES ASSUME n + 1 <= Len(MonthLengths), NEW j \in 0 .. n + 1, j < n + 1
               PROVE  EndOfMonth(j) + 28 <= EndOfMonth(n + 1)
    OBVIOUS
  <2>1. n + 1 \in Months /\ n + 1 - 1 = n
    BY Calendars DEF Months
  <2>2. EndOfMonth(n + 1) = EndOfMonth(n) + MonthLengths[n + 1]
    BY <2>1, MonthEnds
  <2>3. MonthLengths[n + 1] \in 28 .. 31 /\ EndOfMonth(n) \in Int /\ EndOfMonth(j) \in Int
    BY <2>1, Calendars, MonthEnds
  <2>4. j = n \/ EndOfMonth(j) + 28 <= EndOfMonth(n)
    BY <1>2, Calendars
  <2>5. QED
    BY <2>2, <2>3, <2>4
<1> HIDE DEF T
<1>3. Nat \subseteq T
  BY <1>1, <1>2, NatInduces
<1>4. QED
  BY <1>3, Calendars DEF T

(* A day is in one month only, ...                                         *)
LEMMA MonthIs ==
  ASSUME NEW m \in Months, NEW day \in StartOfMonth(m) .. EndOfMonth(m)
  PROVE  MonthOf(day) = m
<1>1. ASSUME NEW k \in Months, day \in StartOfMonth(k) .. EndOfMonth(k) PROVE k = m
  <2>1. /\ EndOfMonth(k) \in Int /\ EndOfMonth(m) \in Int
        /\ EndOfMonth(k - 1) \in Int /\ EndOfMonth(m - 1) \in Int
    BY MonthEnds, Calendars DEF Months
  <2>2. k < m => EndOfMonth(k) <= EndOfMonth(m - 1)
    BY <2>1, EndsGrow, Calendars DEF Months
  <2>3. m < k => EndOfMonth(m) <= EndOfMonth(k - 1)
    BY <2>1, EndsGrow, Calendars DEF Months
  <2>4. QED
    BY <1>1, <2>1, <2>2, <2>3, Calendars DEF Months, StartOfMonth
<1>2. QED
  BY <1>1 DEF MonthOf

(* ... and each day up to the end of a month in that month or an earlier.  *)
LEMMA DaysHaveMonths ==
  ASSUME NEW last \in 0 .. Len(MonthLengths), NEW day \in 1 .. EndOfMonth(last)
  PROVE  /\ MonthOf(day) \in 1 .. last
         /\ day \in StartOfMonth(MonthOf(day)) .. EndOfMonth(MonthOf(day))
<1> DEFINE T == {n \in Nat : n <= Len(MonthLengths) =>
                   \A d \in 1 .. EndOfMonth(n) :
                     \E m \in 1 .. n : d \in StartOfMonth(m) .. EndOfMonth(m)}
<1>1. 0 \in T
  BY MonthEnds
<1>2. ASSUME NEW n \in Nat, n \in T PROVE n + 1 \in T
  <2> SUFFICES ASSUME n + 1 <= Len(MonthLengths), NEW d \in 1 .. EndOfMonth(n + 1)
               PROVE  \E m \in 1 .. n + 1 : d \in StartOfMonth(m) .. EndOfMonth(m)
    OBVIOUS
  <2>1. EndOfMonth(n) \in Int /\ EndOfMonth(n + 1) \in Int
    BY MonthEnds, Calendars
  <2>2. CASE d <= EndOfMonth(n)
    BY <1>2, <2>1, <2>2, Calendars
  <2>3. CASE d > EndOfMonth(n)
    <3>1. StartOfMonth(n + 1) = 1 + EndOfMonth(n)
      BY DEF StartOfMonth
    <3>2. d \in StartOfMonth(n + 1) .. EndOfMonth(n + 1)
      BY <2>1, <2>3, <3>1
    <3>3. QED
      BY <3>2
  <2>4. QED
    BY <2>1, <2>2, <2>3
<1> HIDE DEF T
<1>3. Nat \subseteq T
  BY <1>1, <1>2, NatInduces
<1>4. PICK m \in 1 .. last : day \in StartOfMonth(m) .. EndOfMonth(m)
  BY <1>3, Calendars DEF T
<1>5. MonthOf(day) = m
  BY <1>4, MonthIs, Calendars DEF Months
<1>6. QED
  BY <1>4, <1>5

(* A deadline is moved by two days at most, over days off only.            *)
LEMMA MovesOffWeekend ==
  ASSUME NEW day \in Int
  PROVE  /\ OffWeekend(day) \in day .. day + 2
         /\ Weekday(OffWeekend(day)) \in 1 .. 5
         /\ \A d \in day .. OffWeekend(day) - 1 : Weekday(d) \in {0, 6}
<1> DEFINE S == {d \in day .. day + 2 : Weekday(d) \notin {0, 6}}
<1>1. FirstWeekday \in 0 .. 6
  BY CalendarAssumption DEF CalendarAssumption
<1>2. \A d \in Int : Weekday(d) \in 0 .. 6
  BY <1>1 DEF Weekday
<1>3. \A d \in Int : /\ Weekday(d) = 6 => Weekday(d + 1) = 0
                     /\ Weekday(d) = 0 => Weekday(d + 1) = 1
  BY <1>1 DEF Weekday
<1>4. day \in S \/ day + 1 \in S \/ day + 2 \in S
  <2>1. day + 1 + 1 = day + 2 /\ day + 1 \in Int
    OBVIOUS
  <2>2. SUFFICES ASSUME Weekday(day) \in {0, 6}, Weekday(day + 1) \in {0, 6}
                 PROVE  Weekday(day + 2) \notin {0, 6}
    OBVIOUS
  <2>3. Weekday(day + 1) = 0
    BY <1>3, <2>2
  <2>4. Weekday(day + 1 + 1) = 1
    BY <1>3, <2>1, <2>3
  <2>5. QED
    BY <2>1, <2>4
<1>5. \A d \in S : d \in day .. day + 2 /\ Weekday(d) \notin {0, 6}
  OBVIOUS
<1>6. \A d \in day .. day + 2 : d \notin S => Weekday(d) \in {0, 6}
  OBVIOUS
<1> HIDE DEF S
<1>7. \E d \in S : \A e \in S : d <= e
  <2>1. CASE day \in S
    BY <1>5, <2>1
  <2>2. CASE day \notin S /\ day + 1 \in S
    BY <1>5, <2>2
  <2>3. CASE day \notin S /\ day + 1 \notin S /\ day + 2 \in S
    BY <1>5, <2>3
  <2>4. QED
    BY <1>4, <2>1, <2>2, <2>3
<1>8. OffWeekend(day) = Min(S)
  BY DEF OffWeekend, S
<1>9. OffWeekend(day) \in S /\ \A e \in S : OffWeekend(day) <= e
  BY <1>7, <1>8 DEF Min
<1>10. OffWeekend(day) \in day .. day + 2
  BY <1>5, <1>9
<1>11. Weekday(OffWeekend(day)) \in 1 .. 5
  BY <1>2, <1>5, <1>9, <1>10
<1>12. ASSUME NEW d \in day .. OffWeekend(day) - 1 PROVE Weekday(d) \in {0, 6}
  <2>1. d \in day .. day + 2 /\ ~(OffWeekend(day) <= d)
    BY <1>10
  <2>2. QED
    BY <1>6, <1>9, <2>1
<1>13. QED
  BY <1>10, <1>11, <1>12

(* The months of a period: the last is no later than the calendar's last   *)
(* quarter, and the next period begins with the month after it.            *)
LEMMA PeriodMonths ==
  ASSUME NEW day \in 1 .. EndOfMonth(FilingMonths), NEW filing \in Filings
  PROVE  /\ FirstMonth(day, filing) \in 1 .. MonthOf(day)
         /\ LastMonth(day, filing) \in MonthOf(day) .. FilingMonths
         /\ filing = "QUARTERLY" => LastMonth(day, filing) % 3 = 0
<1> DEFINE m == MonthOf(day)
<1>1. m \in 1 .. FilingMonths
  BY DaysHaveMonths, Calendars
<1>2. FilingMonths \in Nat /\ FilingMonths % 3 = 0
  BY Calendars
<1>3. CASE filing = "MONTHLY"
  BY <1>1, <1>2, <1>3 DEF FirstMonth, LastMonth
<1>4. CASE filing = "QUARTERLY"
  <2>1. FirstMonth(day, filing) = m - ((m - 1) % 3)
    BY <1>4 DEF FirstMonth
  <2>2. LastMonth(day, filing) = FirstMonth(day, filing) + 2
    BY <1>4 DEF LastMonth
  <2> HIDE DEF m
  <2>3. m - ((m - 1) % 3) \in 1 .. m
    BY <1>1, <1>2
  <2>4. (m - ((m - 1) % 3) + 2) % 3 = 0 /\ m - ((m - 1) % 3) + 2 \in m .. FilingMonths
    BY <1>1, <1>2
  <2>5. QED
    BY <2>1, <2>2, <2>3, <2>4 DEF m
<1>5. QED
  BY <1>3, <1>4 DEF Filings

(* The months of a day at the end of a period are those of the period.     *)
LEMMA PeriodEnds ==
  ASSUME NEW day \in 1 .. EndOfMonth(FilingMonths), NEW filing \in Filings
  PROVE  /\ MonthOf(PeriodEnd(day, filing)) = LastMonth(day, filing)
         /\ PeriodEnd(day, filing) \in 1 .. EndOfMonth(FilingMonths)
         /\ day \in PeriodStart(day, filing) .. PeriodEnd(day, filing)
<1> DEFINE m     == MonthOf(day)
           first == FirstMonth(day, filing)
           last  == LastMonth(day, filing)
<1>1. /\ m \in 1 .. FilingMonths /\ day \in StartOfMonth(m) .. EndOfMonth(m)
      /\ first \in 1 .. m /\ last \in m .. FilingMonths
  BY DaysHaveMonths, PeriodMonths, Calendars
<1>2. PeriodStart(day, filing) = StartOfMonth(first) /\ PeriodEnd(day, filing) = EndOfMonth(last)
  BY DEF PeriodStart, PeriodEnd
<1>3. /\ StartOfMonth(first) = 1 + EndOfMonth(first - 1)
      /\ StartOfMonth(last) = 1 + EndOfMonth(last - 1)
      /\ StartOfMonth(m) = 1 + EndOfMonth(m - 1)
  BY DEF StartOfMonth
<1> HIDE DEF m, first, last
<1>4. \A k \in 0 .. FilingMonths : EndOfMonth(k) \in Int
  BY MonthEnds, Calendars
<1>5. \A k, n \in 0 .. FilingMonths : k < n => EndOfMonth(k) + 28 <= EndOfMonth(n)
  BY EndsGrow, Calendars
<1>6. /\ first - 1 \in 0 .. FilingMonths /\ last - 1 \in 0 .. FilingMonths
      /\ m - 1 \in 0 .. FilingMonths /\ FilingMonths \in Nat
  BY <1>1, Calendars
<1>7. EndOfMonth(first - 1) <= EndOfMonth(m - 1)
  BY <1>1, <1>4, <1>5, <1>6
<1>8. EndOfMonth(m) <= EndOfMonth(last) /\ EndOfMonth(last) <= EndOfMonth(FilingMonths)
  BY <1>1, <1>4, <1>5, <1>6
<1>9. EndOfMonth(last) \in StartOfMonth(last) .. EndOfMonth(last)
  BY <1>1, <1>3, <1>4, <1>5, <1>6
<1>10. last \in Months
  BY <1>1, Calendars DEF Months
<1>11. MonthOf(EndOfMonth(last)) = last
  BY <1>9, <1>10, MonthIs
<1>12. day \in StartOfMonth(first) .. EndOfMonth(last)
  BY <1>1, <1>3, <1>4, <1>6, <1>7, <1>8
<1>13. EndOfMonth(last) \in 1 .. EndOfMonth(FilingMonths)
  BY <1>1, <1>4, <1>6, <1>8
<1>14. QED
  BY <1>2, <1>11, <1>12, <1>13 DEF last

(* A period that is not the last is followed by one that begins the day    *)
(* after it.                                                               *)
LEMMA NextPeriod ==
  ASSUME NEW day \in 1 .. EndOfMonth(FilingMonths), NEW filing \in Filings,
         MonthOf(PeriodEnd(day, filing)) < FilingMonths
  PROVE  PeriodStart(PeriodEnd(day, filing) + 1, filing) = PeriodEnd(day, filing) + 1
<1> DEFINE last == LastMonth(day, filing)
           next == last + 1
           new  == PeriodEnd(day, filing) + 1
<1>1. last \in 1 .. FilingMonths /\ (filing = "QUARTERLY" => last % 3 = 0)
  BY PeriodMonths, DaysHaveMonths, Calendars
<1>2. last < FilingMonths /\ new = EndOfMonth(last) + 1
  BY PeriodEnds DEF PeriodEnd
<1> HIDE DEF last, new
<1>3. next \in Months /\ next - 1 = last
  BY <1>1, <1>2, Calendars DEF Months
<1>4. EndOfMonth(last) \in Int /\ EndOfMonth(next) \in Int
  BY <1>1, <1>3, MonthEnds, Calendars DEF Months
<1>5. EndOfMonth(last) + 28 <= EndOfMonth(next)
  BY <1>1, <1>3, EndsGrow, Calendars DEF Months
<1>6. StartOfMonth(next) = new
  BY <1>2, <1>3, <1>4 DEF StartOfMonth
<1>7. new \in StartOfMonth(next) .. EndOfMonth(next)
  BY <1>2, <1>4, <1>5, <1>6
<1>8. MonthOf(new) = next
  BY <1>3, <1>7, MonthIs
<1>9. FirstMonth(new, filing) = next
  <2>1. CASE filing = "MONTHLY"
    BY <1>8, <2>1 DEF FirstMonth
  <2>2. CASE filing = "QUARTERLY"
    <3>1. next - ((next - 1) % 3) = next
      BY <1>1, <2>2
    <3>2. QED
      BY <1>8, <2>2, <3>1 DEF FirstMonth
  <2>3. QED
    BY <2>1, <2>2 DEF Filings
<1>10. PeriodStart(new, filing) = new
  BY <1>6, <1>9 DEF PeriodStart
<1>11. QED
  BY <1>10 DEF new

(* The calendar fits for every day of it.                                  *)
LEMMA DayFits ==
  ASSUME NEW day \in 1 .. EndOfMonth(FilingMonths), NEW filing \in Filings,
         NEW nominal, nominal = IF filing = "MONTHLY" THEN PeriodEnd(day, filing) + 20
                                ELSE EndOfMonth(MonthOf(PeriodEnd(day, filing)) + 1)
  PROVE  /\ Deadline(day, filing) >= nominal /\ Weekday(Deadline(day, filing)) \in 1 .. 5
         /\ \A d \in nominal .. Deadline(day, filing) - 1 : Weekday(d) \in {0, 6}
<1> DEFINE last == LastMonth(day, filing)
<1>1. last \in 1 .. FilingMonths
  BY PeriodMonths, DaysHaveMonths, Calendars
<1>2. PeriodEnd(day, filing) = EndOfMonth(last) /\ MonthOf(PeriodEnd(day, filing)) = last
  BY PeriodEnds DEF PeriodEnd
<1>3. EndOfMonth(last) \in Int /\ EndOfMonth(last + 1) \in Int
  BY <1>1, MonthEnds, Calendars
<1>4. StartOfMonth(last + 1) = 1 + EndOfMonth(last)
  <2>1. (last + 1) - 1 = last
    BY <1>1, Calendars
  <2>2. StartOfMonth(last + 1) = 1 + EndOfMonth((last + 1) - 1)
    BY DEF StartOfMonth
  <2>3. QED
    BY <2>1, <2>2
<1> HIDE DEF last
<1>5. nominal = (IF filing = "MONTHLY" THEN MonthlyDeadline(last) ELSE QuarterlyDeadline(last))
  BY <1>2, <1>3, <1>4 DEF MonthlyDeadline, QuarterlyDeadline
<1>6. nominal \in Int
  BY <1>2, <1>3
<1>7. Deadline(day, filing) = OffWeekend(nominal)
  BY <1>5 DEF Deadline, last
<1>8. QED
  BY <1>6, <1>7, MovesOffWeekend

(* The days of the model are numbers below the date that stands for no     *)
(* end.                                                                    *)
LEMMA DaysEnd == Days \subseteq Nat /\ MaxEffectiveDate \in Nat \ Days /\ Cooldown \in Nat
<1>1. EndOfMonth(FilingMonths) \in Int /\ EndOfMonth(Len(MonthLengths)) \in Int
  BY MonthEnds, Calendars
<1>2. EndOfMonth(FilingMonths) <= EndOfMonth(Len(MonthLengths))
  BY <1>1, EndsGrow, Calendars
<1>3. 0 <= EndOfMonth(FilingMonths)
  BY <1>1, EndsGrow, MonthEnds, Calendars
<1>4. QED
  BY <1>1, <1>2, <1>3, OnboardingAssumption DEF OnboardingAssumption, MaxEffectiveDate

(* A set of depths that is not empty has a least element.                  *)
LEMMA LeastDepth ==
  ASSUME NEW S \in SUBSET (0 .. MaxDepth), S # {}
  PROVE  Min(S) \in S
<1>1. \E x \in S : \A y \in S : x <= y
  <2>1. S \subseteq {0, 1, 2, 3, 4, 5}
    BY DEF MaxDepth
  <2>2. CASE 0 \in S
    BY <2>1, <2>2
  <2>3. CASE 0 \notin S /\ 1 \in S
    BY <2>1, <2>3
  <2>4. CASE 0 \notin S /\ 1 \notin S /\ 2 \in S
    BY <2>1, <2>4
  <2>5. CASE S \subseteq {3, 4, 5} /\ 3 \in S
    BY <2>5
  <2>6. CASE S \subseteq {4, 5} /\ 4 \in S
    BY <2>6
  <2>7. CASE S = {5}
    BY <2>7
  <2>8. QED
    BY <2>1, <2>2, <2>3, <2>4, <2>5, <2>6, <2>7
<1>2. QED
  BY <1>1 DEF Min

(* The rates of a category are found at itself or at an ancestor.          *)
LEMMA RatesFound ==
  ASSUME NEW c, HasRates(c)
  PROVE  VatOf[EffectiveCategory(c)] \in Nat /\ PitOf[EffectiveCategory(c)] \in Nat
<1>1. Min(RatedDepths(c)) \in RatedDepths(c)
  BY LeastDepth DEF HasRates, RatedDepths
<1>2. EffectiveCategory(c) \in Categories /\ Rated(EffectiveCategory(c))
  BY <1>1 DEF RatedDepths, EffectiveCategory
<1>3. QED
  BY <1>2, OnboardingAssumption DEF OnboardingAssumption, Rated

(* A configuration that is about to be written begins today and does not   *)
(* end.                                                                    *)
LEMMA DrawnConfigs ==
  ASSUME NEW op, NEW row, NEW j \in Drawn(op, row), today \in Days
  PROVE  /\ j.op = op /\ j.old = row
         /\ j.new \in Config /\ j.new.from = today /\ j.new.to = MaxEffectiveDate
<1>1. PICK c \in {x \in Choosable : HasRates(x)}, g \in Groups :
        j = [op |-> op, old |-> row, new |-> NewConfig(c, g, today)]
  BY DEF Drawn
<1>2. VatOf[EffectiveCategory(c)] \in Nat /\ PitOf[EffectiveCategory(c)] \in Nat
  BY <1>1, RatesFound
<1>3. DefaultMethod[g] \in {"EXEMPT", "PERCENTAGE", "PROFIT_17", "PROFIT_20"}
  BY DEF DefaultMethod, Groups
<1>4. MethodRate(DefaultMethod[g], PitOf[EffectiveCategory(c)]) \in Nat
  BY <1>2, <1>3 DEF MethodRate
<1>5. today \in Nat /\ MaxEffectiveDate \in Nat
  BY DaysEnd
<1>6. NewConfig(c, g, today) \in Config
  BY <1>2, <1>3, <1>4, <1>5 DEF NewConfig, Config, Methods, ProfitMethods
<1>7. NewConfig(c, g, today).from = today /\ NewConfig(c, g, today).to = MaxEffectiveDate
  BY DEF NewConfig
<1>8. QED
  BY <1>1, <1>6, <1>7

(* What a request that is about to write has read: an update still follows *)
(* the configuration it read by the cooldown.                              *)
Ready(r) ==
  job[r].op \in {"setup", "update"} =>
    /\ job[r].new \in Config /\ job[r].new.from \in Days
    /\ job[r].new.to = MaxEffectiveDate
    /\ job[r].op = "update" =>
         /\ job[r].old \in DOMAIN configs
         /\ job[r].new.from - configs[job[r].old].from >= Cooldown

(* The chain, with what its steps rest on: configurations begin on days of *)
(* the clock, of which none is the day that stands for no end.             *)
ChainInv ==
  /\ ConfigsChain /\ SpacedByCooldown
  /\ today \in Days
  /\ \A k \in DOMAIN configs : configs[k].from \in Days
  /\ DOMAIN job = Requests
  /\ \A r \in Requests : Ready(r)

(* A request that only notes what it read, or drops it.                    *)
LEMMA NotesKeepChain ==
  ASSUME ChainInv, NEW r \in Requests, UNCHANGED <<configs, setUpAt, today>>,
         NEW now, job' = [job EXCEPT ![r] = now],
         Ready(r)'
  PROVE  ChainInv'
<1>1. \A s \in Requests \ {r} : job'[s] = job[s]
  BY DEF ChainInv
<1>2. \A s \in Requests \ {r} : Ready(s)'
  BY <1>1 DEF ChainInv, Ready
<1>3. QED
  BY <1>2 DEF ChainInv, ConfigsChain, SpacedByCooldown

(* What a table is after a row was inserted.                               *)
LEMMA AppendedRow ==
  ASSUME NEW Rows, NEW table \in Seq(Rows), NEW row \in Rows
  PROVE  /\ Append(table, row) \in Seq(Rows)
         /\ Len(Append(table, row)) = Len(table) + 1
         /\ DOMAIN Append(table, row) = 1 .. Len(table) + 1
         /\ \A m \in 1 .. Len(table) : Append(table, row)[m] = table[m]
         /\ Append(table, row)[Len(table) + 1] = row
OBVIOUS

(* Every step of onboarding keeps the configurations a chain: one that is  *)
(* written begins where its predecessor is made to end.                    *)
LEMMA StepChain ==
  ASSUME ChainInv, [OnboardingNext]_onboardingVars
  PROVE  ChainInv'
<1>1. ASSUME NEW r \in Requests, SetupBegin(r)
      PROVE  ChainInv'
  <2>1. PICK j \in Drawn("setup", 0) : job' = [job EXCEPT ![r] = j]
    BY <1>1 DEF SetupBegin
  <2>2. Ready(r)'
    BY <2>1, DrawnConfigs DEF ChainInv, Ready
  <2>3. QED
    BY <1>1, <2>1, <2>2, NotesKeepChain DEF SetupBegin
<1>2. ASSUME NEW r \in Requests, UpdateBegin(r)
      PROVE  ChainInv'
  <2>0. PICK k \in DOMAIN configs :
          Cooled(configs[k]) /\ \E j \in Drawn("update", k) : job' = [job EXCEPT ![r] = j]
    BY <1>2 DEF UpdateBegin
  <2>1. PICK j \in Drawn("update", k) : job' = [job EXCEPT ![r] = j]
    BY <2>0
  <2>2. /\ j.op = "update" /\ j.old = k
        /\ j.new \in Config /\ j.new.from = today /\ j.new.to = MaxEffectiveDate
    BY DrawnConfigs DEF ChainInv
  <2>3. UNCHANGED <<configs, setUpAt, today>> /\ job'[r] = j
    BY <1>2, <2>1 DEF UpdateBegin, ChainInv
  <2>4. Ready(r)'
    BY <2>0, <2>2, <2>3 DEF ChainInv, Ready, Cooled
  <2>5. QED
    BY <2>1, <2>3, <2>4, NotesKeepChain
<1>3. ASSUME NEW r \in Requests, Abandon(r)
      PROVE  ChainInv'
  <2>1. Ready(r)'
    BY <1>3 DEF Abandon, NoJob, Ready, ChainInv
  <2>2. QED
    BY <1>3, <2>1, NotesKeepChain DEF Abandon
<1>4. ASSUME NEW r \in Requests, SetupCommit(r)
      PROVE  ChainInv'
  <2>1. configs = <<>>
    BY <1>4 DEF SetupCommit, NotSetUp, ChainInv, ConfigsChain
  <2>2. job[r].new \in Config /\ job[r].new.from \in Days /\ job[r].new.to = MaxEffectiveDate
    BY <1>4 DEF SetupCommit, ChainInv, Ready
  <2>3. configs' = <<job[r].new>>
    BY <1>4, <2>1 DEF SetupCommit
  <2>4. setUpAt' # None
    BY <1>4, <2>2, DaysEnd, OnboardingAssumption DEF SetupCommit, OnboardingAssumption
  <2>5. ConfigsChain' /\ SpacedByCooldown'
    BY <2>2, <2>3, <2>4 DEF ConfigsChain, SpacedByCooldown
  <2>6. \A s \in Requests \ {r} : Ready(s)'
    BY <1>4, <2>1 DEF SetupCommit, ChainInv, Ready
  <2>7. Ready(r)'
    BY <1>4 DEF SetupCommit, ChainInv, Ready, NoJob
  <2>8. QED
    BY <1>4, <2>2, <2>3, <2>5, <2>6, <2>7 DEF SetupCommit, ChainInv
<1>5. ASSUME NEW r \in Requests, UpdateCommit(r)
      PROVE  ChainInv'
  <2> DEFINE k == job[r].old
             new == job[r].new
             n == Len(configs)
  <2>1. /\ k \in DOMAIN configs /\ new \in Config /\ new.from \in Days
        /\ new.to = MaxEffectiveDate /\ new.from - configs[k].from >= Cooldown
    BY <1>5 DEF UpdateCommit, ChainInv, Ready
  <2>2. configs \in Seq(Config) /\ n \in Nat /\ DOMAIN configs = 1 .. n
    BY DEF ChainInv, ConfigsChain
  <2>3. k = n
    <3>1. configs[k].to = MaxEffectiveDate
      BY <1>5 DEF UpdateCommit, StillOpen
    <3>2. k # n => configs[k].to = configs[k + 1].from /\ k + 1 \in DOMAIN configs
      BY <2>1, <2>2 DEF ChainInv, ConfigsChain
    <3>3. QED
      BY <3>1, <3>2, DaysEnd DEF ChainInv
  <2> DEFINE ended == [configs EXCEPT ![n].to = new.from]
  <2>4. /\ ended \in Seq(Config) /\ Len(ended) = n
        /\ \A m \in 1 .. n - 1 : ended[m] = configs[m]
        /\ ended[n].from = configs[n].from /\ ended[n].to = new.from
    <3>1. configs[n] \in Config /\ new.from \in Nat
      <4>1. n \in DOMAIN configs
        BY <2>1, <2>3
      <4>2. configs[n] \in Config
        BY <2>2, <4>1
      <4>3. QED
        BY <2>1, <4>2, DaysEnd
    <3>2. /\ [configs[n] EXCEPT !.to = new.from] \in Config
          /\ [configs[n] EXCEPT !.to = new.from].from = configs[n].from
          /\ [configs[n] EXCEPT !.to = new.from].to = new.from
      BY <3>1 DEF Config
    <3>3. ended = [configs EXCEPT ![n] = [configs[n] EXCEPT !.to = new.from]]
      OBVIOUS
    <3>4. QED
      BY <2>1, <2>2, <2>3, <3>2, <3>3
  <2>5. configs' = Append(ended, new)
    BY <1>5, <2>3 DEF UpdateCommit
  <2> HIDE DEF ended
  <2>6. /\ configs' \in Seq(Config) /\ Len(configs') = n + 1 /\ DOMAIN configs' = 1 .. n + 1
        /\ \A m \in 1 .. n : configs'[m] = ended[m]
        /\ configs'[n + 1] = new
    <3>1. ended \in Seq(Config) /\ Len(ended) = n /\ new \in Config
      BY <2>1, <2>4
    <3> HIDE DEF new, n
    <3>2. QED
      BY <2>5, <3>1, AppendedRow
  <2>7. \A m \in 1 .. n : configs'[m].from = configs[m].from
    BY <2>2, <2>4, <2>6
  <2>8. ConfigsChain'
    <3>1. \A m \in 1 .. n - 1 : configs'[m].to = configs'[m + 1].from
      <4>1. \A m \in 1 .. n - 1 : configs[m].to = configs[m + 1].from
        BY <2>2 DEF ChainInv, ConfigsChain
      <4>2. \A m \in 1 .. n - 1 : m \in 1 .. n /\ m + 1 \in 1 .. n
        BY <2>2
      <4>3. \A m \in 1 .. n - 1 : configs'[m] = configs[m]
        BY <2>4, <2>6, <4>2
      <4> HIDE DEF n
      <4>4. QED
        BY <2>7, <4>1, <4>2, <4>3
    <3>2. n \in 1 .. n => configs'[n].to = configs'[n + 1].from
      BY <2>4, <2>6
    <3>3. setUpAt' = setUpAt /\ setUpAt # None /\ configs' # <<>>
      BY <1>5, <2>1, <2>2, <2>6 DEF UpdateCommit, ChainInv, ConfigsChain
    <3>4. QED
      BY <2>1, <2>2, <2>6, <3>1, <3>2, <3>3 DEF ConfigsChain
  <2>9. SpacedByCooldown'
    <3>1. \A m \in 1 .. n - 1 : configs'[m + 1].from - configs'[m].from >= Cooldown
      BY <2>2, <2>7 DEF ChainInv, SpacedByCooldown
    <3>2. configs'[n + 1].from - configs'[n].from >= Cooldown
      BY <2>1, <2>2, <2>3, <2>6, <2>7
    <3>3. QED
      BY <2>2, <2>6, <3>1, <3>2 DEF SpacedByCooldown
  <2>10. \A m \in DOMAIN configs' : configs'[m].from \in Days
    BY <2>1, <2>2, <2>6, <2>7 DEF ChainInv
  <2>11. \A s \in Requests : Ready(s)'
    <3>1. job' = [job EXCEPT ![r] = NoJob]
      BY <1>5 DEF UpdateCommit
    <3>2. Ready(r)'
      BY <3>1 DEF ChainInv, NoJob, Ready
    <3>3. ASSUME NEW s \in Requests \ {r} PROVE Ready(s)'
      BY <2>2, <2>6, <2>7, <3>1 DEF ChainInv, Ready
    <3>4. QED
      BY <3>2, <3>3
  <2>12. QED
    BY <1>5, <2>8, <2>9, <2>10, <2>11 DEF UpdateCommit, ChainInv
<1>6. CASE Tick
  BY <1>6 DEF Tick, ChainInv, ConfigsChain, SpacedByCooldown, Ready
<1>7. CASE UNCHANGED onboardingVars
  BY <1>7 DEF onboardingVars, ChainInv, ConfigsChain, SpacedByCooldown, Ready
<1>8. QED
  BY <1>1, <1>2, <1>3, <1>4, <1>5, <1>6, <1>7 DEF OnboardingNext

(* Nobody has a configuration at first.                                    *)
LEMMA InitChain == OnboardingInit => ChainInv
<1> SUFFICES ASSUME OnboardingInit PROVE ChainInv
  OBVIOUS
<1>1. ConfigsChain /\ SpacedByCooldown
  BY DEF OnboardingInit, ConfigsChain, SpacedByCooldown
<1>2. \A r \in Requests : Ready(r)
  BY DEF OnboardingInit, Ready, NoJob
<1>3. QED
  BY <1>1, <1>2 DEF OnboardingInit, ChainInv

(* The invariant of the theorems on configurations: they follow each other *)
(* without a gap, the cooldown apart, and one at most is in force          *)
(* (setupTaxConfiguration, updateTaxConfiguration).                        *)
THEOREM Chain == OnboardingSpec => []ChainInv
BY InitChain, StepChain, PTL DEF OnboardingSpec

(* A user is set up once, and the configurations follow each other without *)
(* a gap, however many requests set up and update at once                  *)
(* (setupTaxConfiguration, updateTaxConfiguration).                        *)
THEOREM ConfigsAlwaysChain == OnboardingSpec => []ConfigsChain
<1>1. ChainInv => ConfigsChain
  BY DEF ChainInv
<1>2. QED
  BY <1>1, Chain, PTL

(* Successive configurations are the cooldown apart, also when an update   *)
(* is committed on a later day than it was checked.                        *)
THEOREM ConfigsKeepCooldown == OnboardingSpec => []SpacedByCooldown
<1>1. ChainInv => SpacedByCooldown
  BY DEF ChainInv
<1>2. QED
  BY <1>1, Chain, PTL

-----------------------------------------------------------------------------
(* The configuration of a period has natural rates and a method.           *)
LEMMA RatesInUse ==
  ASSUME ConfigsChain, NEW config \in InUse
  PROVE  Rates(config)
<1>1. PICK k \in DOMAIN configs : config \in FormsOf(configs[k])
  BY DEF InUse
<1>2. configs[k] \in Config
  BY DEF ConfigsChain
<1>3. QED
  BY <1>1, <1>2 DEF FormsOf, Config, Rates

(* No configuration a user can reach taxes more revenue less               *)
(* (calculateTotalTaxDue), whatever amounts are compared.                  *)
THEOREM TaxesAreMonotone == OnboardingSpec => []TaxIsMonotone
<1>1. ConfigsChain => TaxIsMonotone
  BY RatesInUse, TotalGrows, SumsAssumption DEF SumsAssumption, TaxIsMonotone
<1>2. QED
  BY <1>1, ConfigsAlwaysChain, PTL

(* Outside group 1 additional revenue is taxed at no more than the rates,  *)
(* also across the exempt threshold.                                       *)
THEOREM TaxesHaveNoCliff == OnboardingSpec => []NoCliff
<1>1. ConfigsChain => NoCliff
  BY RatesInUse, TotalSpreads, SumsAssumption DEF SumsAssumption, NoCliff
<1>2. QED
  BY <1>1, ConfigsAlwaysChain, PTL

-----------------------------------------------------------------------------
(* Periods that setups opened are those of days of the clock. *)
OpenedInv ==
  /\ today \in Days
  /\ \A p \in opened : \E day \in Days : p.end = PeriodEnd(day, Filing)

(* Every day is in its period, periods follow each other without a gap,    *)
(* and the deadline is the first working day on or after the nominal one,  *)
(* for every calendar of whole quarters.                                   *)
THEOREM DatesFit == OnboardingSpec => []CalendarFits
<1>1. OnboardingInit => OpenedInv
  BY DEF OnboardingInit, OpenedInv
<1>2. OpenedInv /\ [OnboardingNext]_onboardingVars => OpenedInv'
  <2> SUFFICES ASSUME OpenedInv, [OnboardingNext]_onboardingVars PROVE OpenedInv'
    OBVIOUS
  <2>1. CASE UNCHANGED <<opened, today>>
    BY <2>1 DEF OpenedInv
  <2>2. ASSUME NEW r \in Requests, SetupCommit(r) PROVE OpenedInv'
    BY <2>2 DEF SetupCommit, OpenedInv
  <2>3. CASE Tick
    BY <2>3 DEF Tick, OpenedInv
  <2>4. QED
    BY <2>1, <2>2, <2>3
       DEF OnboardingNext, onboardingVars, SetupBegin, UpdateBegin, UpdateCommit, Abandon
<1>3. OpenedInv => CalendarFits
  <2> SUFFICES ASSUME OpenedInv PROVE CalendarFits
    OBVIOUS
  <2>1. Days \subseteq 1 .. EndOfMonth(FilingMonths)
    BY OnboardingAssumption DEF OnboardingAssumption
  <2>2. ASSUME NEW p \in opened PROVE p.end \in 1 .. EndOfMonth(FilingMonths)
    <3>1. PICK day \in Days : p.end = PeriodEnd(day, Filing)
      BY DEF OpenedInv
    <3>2. Filing \in Filings
      BY DEF Filing, Filings
    <3>3. QED
      BY <2>1, <3>1, <3>2, PeriodEnds
  <2>3. ASSUME NEW day \in Days \cup {p.end : p \in opened}
        PROVE  day \in 1 .. EndOfMonth(FilingMonths)
    BY <2>1, <2>2
  <2>4. QED
    BY <2>3, PeriodEnds, NextPeriod, DayFits DEF CalendarFits
<1>4. QED
  BY <1>1, <1>2, <1>3, PTL DEF OnboardingSpec
=============================================================================
