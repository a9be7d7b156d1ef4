------------------------------- MODULE TimeSeries -------------------------------
(***************************************************************************)
(* Time series of the overview plots: how a stretch of time is cut into    *)
(* hours, days, weeks, months or years (Core/Utils/Common.py, timeseries), *)
(* which stretch a request for transfer plots is about (Overview/PhEDEx.py,*)
(* _queryTimeBounds), and where the axis of a chart has its ticks          *)
(* (Core/Plot.py, TimeSeriesLocator).  Times are seconds since 1970, UTC.  *)
(***************************************************************************)
EXTENDS Integers, Sequences, FiniteSetsExt

Hour == 3600
Day == 86400
Week == 7 * Day

Spans == {"hour", "day", "week", "month", "year"}

Up(t, unit) == (t + unit - 1) \div unit

--------------------------------------------------------------------------------
(* The calendar.  Months are counted from the January of year 0.           *)
LastYear == 2030   \* bound: the times of the model end before it
FirstYear == 2003

(* timegm of the first of a month: days are counted in years that begin in *)
(* March.                                                                  *)
MonthStart(n) ==
  LET m == n % 12
      y == n \div 12 - (IF m < 2 THEN 1 ELSE 0)
      inYear == (153 * ((m + 10) % 12) + 2) \div 5
  IN (365 * y + y \div 4 - y \div 100 + y \div 400 + inYear - 719468) * Day

Months == 12 * FirstYear .. 12 * LastYear
MonthOf(t) == CHOOSE n \in Months : MonthStart(n) <= t /\ t < MonthStart(n + 1)

(* gmtime(t).tm_wday: 1970 began on a Thursday.                            *)
WeekDay(t) == (t \div Day + 3) % 7

--------------------------------------------------------------------------------
(* Intervals of so many units, the first of which begins with unit low.    *)
Uniform(low, high, step, unit) ==
  [i \in 1 .. Up(high - low, step) |->
     <<(low + (i - 1) * step) * unit, (low + i * step) * unit>>]

(* Months or years, n at a time, until the limit is passed.                *)
Calendar(first, n, limit) ==
  LET count == Min({k \in 1 .. (12 * LastYear - first) \div n :
                        MonthStart(first + k * n) >= limit})
  IN [i \in 1 .. count |-> <<MonthStart(first + (i - 1) * n), MonthStart(first + i * n)>>]

timeseries(span, start, end) ==
  LET low == start \div Day
      monday == low - WeekDay(start)
      limit == Up(end, Day) * Day
  IN CASE span = "hour" -> Uniform(start \div Hour,
                                   Max({start \div Hour + 1, Up(end, Hour)}), 1, Hour)
       [] span = "day" -> Uniform(low, Max({low + 1, Up(end, Day)}), 1, Day)
       [] span = "week" -> Uniform(monday, Max({monday + 1, Up(end, Day)}), 7, Day)
       [] span = "month" -> Calendar(MonthOf(start), 1, limit)
       [] span = "year" -> Calendar(12 * (MonthOf(start) \div 12), 12, limit)

--------------------------------------------------------------------------------
(* _queryTimeBounds.  What is asked: a span, perhaps a start and an end;   *)
(* -1 stands for one that is not given, or is no number.                   *)
Beginning == MonthStart(12 * 2004 + 5)   \* June 2004

(* Slip: the time until now, as it is.                                     *)
EndOfNow(span, end, now) == IF end <= 0 THEN now ELSE timeseries(span, end, end)[1][2]

(* An end of 0 is as good as none.                                         *)
EndOf(span, end, now) ==
  LET t == IF end <= 0 THEN now ELSE end
      r == timeseries(span, t, t)[1]
  IN IF t # r[1] THEN r[2] ELSE t

Limit(span) == CASE span = "hour" -> 336 * Hour
                 [] span = "day" -> 365 * Day
                 [] span = "week" -> 312 * Week
Usual(span) == CASE span = "hour" -> 96 * Hour
                 [] span = "day" -> 90 * Day
                 [] span = "week" -> 52 * Week

Limited == {"hour", "day", "week"}

WantedStart(span, start, end) ==
  CASE start >= 0 /\ span \in Limited -> Max({start, end - Limit(span)})
    [] start >= 0 /\ span \notin Limited -> start
    [] start < 0 /\ span \in Limited -> end - Usual(span)
    [] OTHER -> 0

StartOf(span, start, end) ==
  LET from == Max({WantedStart(span, start, end), Beginning})
  IN timeseries(span, from, from)[1][1]

QueryBin(span) == IF span = "hour" THEN Hour ELSE Day

queryTimeBounds(span, start, end, now) ==
  LET e == EndOf(span, end, now)
  IN [span |-> span, start |-> StartOf(span, start, e), end |-> e, querybin |-> QueryBin(span)]

--------------------------------------------------------------------------------
(* TimeSeriesLocator: how many intervals there are between ticks, and what *)
(* the time of a tick is a multiple of.                                    *)
TickSteps(span) ==
  CASE span = "hour" -> <<<<1, Hour>>, <<4, 4 * Hour>>, <<8, 4 * Hour>>, <<12, 4 * Hour>>,
                          <<24, 4 * Hour>>, <<48, Day>>>>
    [] span = "day" -> <<<<1, Day>>, <<7, Week>>, <<14, Week>>, <<28, Week>>, <<56, 2 * Week>>>>
    [] span = "week" -> <<<<1, 1>>, <<4, 1>>, <<13, 1>>, <<26, 1>>, <<52, 1>>>>
    [] span = "month" -> <<<<1, 1>>, <<4, 1>>, <<6, 1>>, <<12, 1>>, <<18, 1>>, <<24, 1>>,
                           <<36, 1>>, <<48, 1>>>>
    [] span = "year" -> <<<<1, 1>>, <<2, 1>>, <<4, 1>>, <<8, 1>>, <<16, 1>>, <<32, 1>>, <<64, 1>>>>

MaxTicks == 12

(* The first step that leaves less than 12 ticks, or the last one.         *)
StepFor(span, n) ==
  LET spec == TickSteps(span)
      few == {i \in DOMAIN spec : n < MaxTicks * spec[i][1]}
  IN spec[IF few = {} THEN Len(spec) ELSE Min(few)]

(* Where the first tick may be: an interval among the first few that       *)
(* begins at a multiple.                                                   *)
Bases(span, series) ==
  LET step == StepFor(span, Len(series))
  IN {i \in 1 .. step[1] : i <= Len(series) /\ series[i][1] % step[2] = 0}

(* The code reads the first few intervals, as many as a step has, before   *)
(* it takes the first that is a multiple: it fails if there are not so     *)
(* many, or none is.                                                       *)
HasTicks(span, series) ==
  /\ Len(series) >= StepFor(span, Len(series))[1]
  /\ Bases(span, series) # {}

Ticks(span, series) ==
  LET step == StepFor(span, Len(series))
      base == Min(Bases(span, series))
  IN {series[i][1] : i \in {j \in base .. Len(series) : (j - base) % step[1] = 0}}
================================================================================
