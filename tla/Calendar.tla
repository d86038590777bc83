------------------------------ MODULE Calendar ------------------------------
(***************************************************************************)
(* The start, the end and the deadline of the tax period a day is in       *)
(* (calculatePeriodMetadata of                                             *)
(* src/financial-periods/financial-periods.service.ts).  Days are numbered *)
(* from 1, the first day of the first month of MonthLengths; its last      *)
(* month is there for the deadlines of the quarters before it.             *)
(***************************************************************************)
EXTENDS Integers, Sequences, FiniteSetsExt, Functions

CONSTANTS
  MonthLengths,   \* the days of each month, from the first of January on
  FirstWeekday    \* the weekday of day 1: 0 is Sunday, 6 is Saturday

ASSUME CalendarAssumption ==
  /\ MonthLengths \in Seq(28 .. 31)
  /\ Len(MonthLengths) % 3 = 1   \* whole quarters and a month
  /\ FirstWeekday \in 0 .. 6

Filings == {"MONTHLY", "QUARTERLY"}
Months  == 1 .. Len(MonthLengths)
FilingMonths == Len(MonthLengths) - 1   \* the months of the whole quarters

EndOfMonth(m)   == SumFunctionOnSet(MonthLengths, 1 .. m)
StartOfMonth(m) == 1 + EndOfMonth(m - 1)
MonthOf(day)    == CHOOSE m \in Months : day \in StartOfMonth(m) .. EndOfMonth(m)
Weekday(day)    == (FirstWeekday + day - 1) % 7

-----------------------------------------------------------------------------
(* A plausible mistake: the deadline is moved once instead of in a loop. *)
OffSaturday(day) == IF Weekday(day) \in {0, 6} THEN day + 1 ELSE day

-----------------------------------------------------------------------------
(* The first and the last month of the period that a day is in. *)
FirstMonth(day, filing) ==
  IF filing = "MONTHLY" THEN MonthOf(day) ELSE MonthOf(day) - ((MonthOf(day) - 1) % 3)

LastMonth(day, filing) ==
  IF filing = "MONTHLY" THEN MonthOf(day) ELSE FirstMonth(day, filing) + 2

PeriodStart(day, filing) == StartOfMonth(FirstMonth(day, filing))
PeriodEnd(day, filing)   == EndOfMonth(LastMonth(day, filing))

(* Due on the 20th of the next month, or on the last day of the first      *)
(* month of the next quarter ...                                           *)
MonthlyDeadline(lastMonth)   == StartOfMonth(lastMonth + 1) + 19
QuarterlyDeadline(lastMonth) == EndOfMonth(lastMonth + 1)

(* ... and moved off Saturdays and Sundays. *)
OffWeekend(day) == Min({d \in day .. day + 2 : Weekday(d) \notin {0, 6}})

Deadline(day, filing) ==
  OffWeekend(IF filing = "MONTHLY" THEN MonthlyDeadline(LastMonth(day, filing))
             ELSE QuarterlyDeadline(LastMonth(day, filing)))
=============================================================================
