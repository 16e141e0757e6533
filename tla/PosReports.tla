------------------------------ MODULE PosReports ------------------------------
(***************************************************************************)
(* What the dashboards and reports compute from the daily figures: the     *)
(* trend, the pages and totals and the overview of posController.ts, and   *)
(* the summaries of reportsController.ts.                                  *)
(*                                                                         *)
(* A day is its number from the first of January of the first year.  Of    *)
(* the figures of a stored day the model keeps the sales; the key figures  *)
(* and alerts of the overview are computed from sequences of whole days.   *)
(***************************************************************************)
EXTENDS Integers, Sequences, FiniteSets, SequencesExt

CONSTANTS
    RpDays,       \* days that may have a row
    RpSales,      \* sales of a day
    RpCalendars,  \* weekday of the first day (1 is Monday), days of each year and,
                  \* as a bound, the requests and recordings that follow
    RpToday,      \* the last day of a range that names none
    RpSpan,       \* days that such a range goes back: 29
    RpWindow,     \* days of the moving average: 7
    RpLimits,     \* page sizes
    RpFigures     \* figures of consecutive rows

ASSUME RpAssumption ==
    /\ RpDays \subseteq Nat /\ RpSales \subseteq Nat \ {0} /\ RpToday \in Nat /\ RpSpan \in Nat
    /\ RpWindow \in Nat \ {0} /\ RpLimits \subseteq Nat \ {0}
    /\ \A c \in RpCalendars : c.asks \in Nat

VARIABLES
    rpCalendar, \* the calendar, fixed
    rpRows,     \* sales by day
    rpAsk,      \* the request: its range, page size, and what it has read
    rpLeft      \* what may still follow

rpVars == <<rpCalendar, rpRows, rpAsk, rpLeft>>

NoDay == -1
Pages(n, limit) == IF n = 0 THEN 1 ELSE (n + limit - 1) \div limit
Ascending(days) == SetToSortSeq(days, LAMBDA a, b : a < b)
SumOver(rows, days) == MapThenSumSet(LAMBDA d : rows[d], days)
-----------------------------------------------------------------------------
(* Weeks.                                                                  *)

YearOf(d) ==
    CHOOSE y \in DOMAIN rpCalendar.years :
        LET before == SumOver(rpCalendar.years, 1..y - 1)
        IN  before <= d /\ d < before + rpCalendar.years[y]
DayOfYear(d) == d - SumOver(rpCalendar.years, 1..YearOf(d) - 1)
Weekday(d) == ((d + rpCalendar.first - 1) % 7) + 1

\* Mutant: the week is counted from the day itself.
WeekOfDay(d) == [year |-> YearOf(d), week |-> DayOfYear(d) \div 7 + 1]

\* getIsoWeekUtc: the week and the year of the Thursday of d's week.
IsoWeek(d) ==
    LET thursday == d + 4 - Weekday(d)
    IN  [year |-> YearOf(thursday), week |-> (DayOfYear(thursday) + 1 + 6) \div 7]

Monday(d) == d - (Weekday(d) - 1)

\* getPosTrend, weekly: a bucket for each week, labelled by the week of the first
\* row that falls in it; daily: the rows.
WeeklyTrend(rows) ==
    LET weeks == {IsoWeek(d) : d \in DOMAIN rows}
        Of(w) == {d \in DOMAIN rows : IsoWeek(d) = w}
    IN  {[week |-> w, monday |-> Monday(Min(Of(w))), sales |-> SumOver(rows, Of(w))] : w \in weeks}
-----------------------------------------------------------------------------
(* The overview.                                                           *)

\* computeMovingAverageFallback: a running total over a queue of the last days.
\* f[i] is the total and the queue's length after i rows.
FallbackAverage(sales) ==
    LET f[i \in 0..Len(sales)] ==
          IF i = 0 THEN [total |-> 0, length |-> 0]
          ELSE LET total == f[i - 1].total + sales[i]
                   length == f[i - 1].length + 1
               IN  IF length > RpWindow
                   THEN [total |-> total - sales[i - RpWindow], length |-> length - 1]
                   ELSE [total |-> total, length |-> length]
    IN  [i \in DOMAIN sales |-> f[i]]

\* The $setWindowFields stage it stands in for: the rows from 6 before to this one.
WindowAverage(sales) ==
    [i \in DOMAIN sales |->
        LET window == {j \in DOMAIN sales : i - RpWindow < j /\ j <= i}
        IN  [total |-> SumOver(sales, window), length |-> Cardinality(window)]]

\* calcExpectedCash, calcCashDiff: of a day, and of the totals of a range.
CashDiff(of) ==
    of.cash - (of.sales - of.credit - of.payout - of.expenses - of.cashPayout)
NetIncome(of) == of.sales - of.tax - of.expenses - of.cashPayout
Totals(days) ==
    [f \in {"sales", "tax", "credit", "cash", "lottery", "payout", "expenses", "cashPayout"} |->
        SumOver([i \in DOMAIN days |-> days[i][f]], DOMAIN days)]
Kpis(days) ==
    [cashDiff |-> CashDiff(Totals(days)), netIncome |-> NetIncome(Totals(days)),
     sales |-> Totals(days).sales, days |-> Len(days)]

\* buildAlerts: the last row against the one before it, against fixed shares and
\* against the mean of the rows before; a share is in hundredths of a percent.
CashThreshold == 200
TaxShare(day) == IF day.sales > 0 THEN (day.tax * 10000) \div day.sales ELSE 0
Size(n) == IF n < 0 THEN -n ELSE n
Alert(type, raised, high) ==
    IF raised THEN {[type |-> type, severity |-> IF high THEN "high" ELSE "medium"]} ELSE {}
Alerts(days) ==
    LET n == Len(days)
        today == days[n]
        before == n - 1
        shares == SumOver([i \in 1..before |-> TaxShare(days[i])], 1..before)
    IN  IF n = 0 THEN {}
        ELSE Alert("sales_drop",
                   before > 0 /\ days[before].sales > 0 /\ today.sales * 10 < days[before].sales * 8,
                   TRUE)
             \cup Alert("cash_diff", Size(CashDiff(today)) > CashThreshold,
                        Size(CashDiff(today)) > 2 * CashThreshold)
             \cup Alert("lottery_payout_high",
                        today.lottery > 0 /\ today.payout * 2 > today.lottery,
                        today.payout * 4 > today.lottery * 3)
             \cup Alert("tax_mismatch",
                        before > 2 /\ Size(TaxShare(today) * before - shares) > 500 * before, FALSE)

\* buildSummaryFromRows of a range or a month.
Summary(rows) == [days |-> Cardinality(DOMAIN rows), sales |-> SumOver(rows, DOMAIN rows)]
-----------------------------------------------------------------------------
(* Requests.                                                               *)

\* resolveDateRange: {} when the range is not one.
DateRange(start, end) ==
    LET last == IF end = NoDay THEN RpToday ELSE end
        first == IF start = NoDay THEN last - RpSpan ELSE start
    IN  IF first > last THEN {} ELSE {first..last}

RpIdle == [pc |-> "idle"]
Within(range) == [d \in DOMAIN rpRows \cap range |-> rpRows[d]]

\* A request names a range and a page size; the list, the count and the totals
\* are read side by side.
Ask ==
    /\ rpAsk.pc = "idle" /\ rpLeft > 0 /\ rpLeft' = rpLeft - 1
    /\ \E start, end \in RpDays \cup {NoDay}, limit \in RpLimits :
          \E range \in DateRange(start, end) :
             rpAsk' = [pc |-> "ask", range |-> range, limit |-> limit, list |-> {}, count |-> {},
                       totals |-> {}, moved |-> FALSE]
    /\ UNCHANGED <<rpCalendar, rpRows>>

\* Rows are listed from the latest day to the first.
ReadList ==
    /\ rpAsk.pc = "ask" /\ rpAsk.list = {}
    /\ rpAsk' = [rpAsk EXCEPT !.list = {Within(rpAsk.range)}]
    /\ UNCHANGED <<rpCalendar, rpRows, rpLeft>>
ReadCount ==
    /\ rpAsk.pc = "ask" /\ rpAsk.count = {}
    /\ rpAsk' = [rpAsk EXCEPT !.count = {Cardinality(DOMAIN Within(rpAsk.range))}]
    /\ UNCHANGED <<rpCalendar, rpRows, rpLeft>>
ReadTotals ==
    /\ rpAsk.pc = "ask" /\ rpAsk.totals = {}
    /\ rpAsk' = [rpAsk EXCEPT !.totals = {Summary(Within(rpAsk.range))}]
    /\ UNCHANGED <<rpCalendar, rpRows, rpLeft>>
Answer ==
    /\ rpAsk.pc = "ask" /\ rpAsk.list # {} /\ rpAsk.count # {} /\ rpAsk.totals # {}
    /\ rpAsk' = RpIdle
    /\ UNCHANGED <<rpCalendar, rpRows, rpLeft>>

\* An import records a day meanwhile.
RecordDay ==
    /\ rpLeft > 0 /\ rpLeft' = rpLeft - 1
    /\ \E d \in RpDays, n \in RpSales :
          /\ rpRows' = [e \in DOMAIN rpRows \cup {d} |-> IF e = d THEN n ELSE rpRows[e]]
          /\ rpAsk' = IF rpAsk = RpIdle THEN RpIdle ELSE [rpAsk EXCEPT !.moved = TRUE]
    /\ UNCHANGED rpCalendar
-----------------------------------------------------------------------------
RpInit ==
    /\ rpCalendar \in RpCalendars
    /\ \E days \in SUBSET RpDays : rpRows \in [days -> RpSales]
    /\ rpAsk = RpIdle /\ rpLeft = rpCalendar.asks

RpNext == Ask \/ ReadList \/ ReadCount \/ ReadTotals \/ Answer \/ RecordDay

RpSpec == RpInit /\ [][RpNext]_rpVars
-----------------------------------------------------------------------------
(* Properties.                                                             *)

\* The rows and the request have their types.
RpTypeOK ==
    /\ DOMAIN rpRows \subseteq RpDays /\ \A d \in DOMAIN rpRows : rpRows[d] \in RpSales
    /\ rpLeft \in 0..rpCalendar.asks
    /\ rpAsk # RpIdle => rpAsk.limit \in RpLimits /\ rpAsk.moved \in BOOLEAN

\* A page of a list, latest day first.
Page(list, page, limit) ==
    LET days == Ascending(DOMAIN list)
        n == Len(days)
    IN  {days[n + 1 - i] : i \in {j \in 1..n : (page - 1) * limit < j /\ j <= page * limit}}

\* The key figures of a range are those of its parts; the cash alert is about the
\* day's part of them; a day that repeats the one before raises no alarm about
\* sales, nor about taxes if all days are alike; and no type is raised twice.
FiguresAgree == \A days \in RpFigures :
    LET kpis == Kpis(days)
        n == Len(days)
        types == {a.type : a \in Alerts(days)}
        Split(k) == <<Kpis(SubSeq(days, 1, k)), Kpis(SubSeq(days, k + 1, n))>>
    IN  /\ \A k \in 0..n : \A f \in DOMAIN kpis : kpis[f] = Split(k)[1][f] + Split(k)[2][f]
        /\ n > 0 =>
              ("cash_diff" \in types <=> Size(Split(n - 1)[2].cashDiff) > CashThreshold)
        /\ n > 1 /\ days[n] = days[n - 1] => "sales_drop" \notin types
        /\ (\A i \in 1..n : days[i] = days[n]) => "tax_mismatch" \notin types
        /\ Cardinality(types) = Cardinality(Alerts(days))

\* The views of one set of rows agree: the weekly trend has one bucket for each
\* week that begins on a Monday, over a year's end too, and loses no sales; the
\* moving average computed by the fallback is the one the database would compute;
\* the key figures and alerts agree; and of a request no import has crossed, the
\* pages make up the list and the totals are theirs.
ReportsAgree ==
    /\ FiguresAgree
    /\ LET weekly == WeeklyTrend(rpRows)
           ascending == Ascending(DOMAIN rpRows)
           sales == [i \in DOMAIN ascending |-> rpRows[ascending[i]]]
       IN  /\ {b.monday : b \in weekly} = {Monday(d) : d \in DOMAIN rpRows}
           /\ Cardinality(weekly) = Cardinality({b.monday : b \in weekly})
           /\ \A b \in weekly : b.sales = SumOver(rpRows,
                  {d \in DOMAIN rpRows : b.monday <= d /\ d < b.monday + 7})
           /\ FallbackAverage(sales) = WindowAverage(sales)
    /\ rpAsk # RpIdle /\ ~rpAsk.moved =>
          \A list \in rpAsk.list, count \in rpAsk.count, totals \in rpAsk.totals :
             LET pages == 1..Pages(count, rpAsk.limit)
             IN  /\ UNION {Page(list, p, rpAsk.limit) : p \in pages} = DOMAIN list
                 /\ \A p \in pages : Page(list, p, rpAsk.limit) # {} \/ DOMAIN list = {}
                 /\ totals = Summary(list)
=============================================================================
