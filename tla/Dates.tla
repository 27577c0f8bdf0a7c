------------------------------- MODULE Dates -------------------------------
(***************************************************************************)
(* Calendar arithmetic: nghttp2_timegm of timegm.c, http_date of util.cc   *)
(* and the date a connection keeps for the responses of one second         *)
(* (http2_handler::http_date), against the Gregorian calendar, which goes  *)
(* through the years day by day, forwards and backwards from 1970.         *)
(***************************************************************************)
EXTENDS Integers, Sequences

CONSTANTS
  FirstYear, LastYear,   \* bounds: the years the calendar goes through
  Times                  \* the seconds of a day that are looked at

ASSUME YearsAssumption ==
  /\ FirstYear \in Nat /\ 1 <= FirstYear /\ FirstYear <= 1970
  /\ LastYear \in Nat /\ 1970 <= LastYear /\ LastYear <= 9999

ASSUME TimesAssumption == \A second \in Times : second \in Nat /\ second < 86400

VARIABLES
  date,   \* year, month (January is 0), day of the month, of the year, of the week
  day     \* time_t, in days

calendarVars == <<date, day>>

-----------------------------------------------------------------------------
(* Division of C truncates.                                                *)
Quot(a, b) == IF a >= 0 THEN a \div b ELSE -((-a) \div b)

(* Variants stand for plausible mistakes; no specification uses them.      *)
(* Variant: the year itself is counted too.                                *)
count_leap_yearThis(y) == Quot(y, 4) - Quot(y, 100) + Quot(y, 400)

count_leap_year(y) == Quot(y - 1, 4) - Quot(y - 1, 100) + Quot(y - 1, 400)

is_leap_year(y) == y % 4 = 0 /\ (y % 100 # 0 \/ y % 400 = 0)

(* The number of days before a month begins, month 0 being January.        *)
daysum == <<0, 31, 59, 90, 120, 151, 181, 212, 243, 273, 304, 334>>

DaysBeforeYear(tm) ==
  (tm.year - 70) * 365 + count_leap_year(tm.year + 1900) - count_leap_year(1970)

(* The result as a day and a second of the day, which together have 64     *)
(* bits: they do not overflow.                                             *)
SecondOfDay(hour, min, sec) == hour * 3600 + min * 60 + sec

Seconds(tm, days) == <<days, SecondOfDay(tm.hour, tm.min, tm.sec)>>

nghttp2_timegm(tm) == Seconds(tm, DaysBeforeYear(tm) + tm.yday)

nghttp2_timegm_without_yday(tm) ==
  Seconds(tm, DaysBeforeYear(tm) + daysum[tm.mon + 1] + tm.mday - 1
                + IF tm.mon >= 2 /\ is_leap_year(tm.year + 1900) THEN 1 ELSE 0)

-----------------------------------------------------------------------------
(* The Gregorian calendar.                                                 *)
Leap(y) == y % 4 = 0 /\ ~(y % 100 = 0 /\ y % 400 # 0)

MonthLength(y, m) ==
  IF m = 1 THEN IF Leap(y) THEN 29 ELSE 28
  ELSE IF m \in {3, 5, 8, 10} THEN 30
  ELSE 31

(* 1 January 1970 was a Thursday.                                          *)
CalendarInit ==
  /\ date = [year |-> 1970, mon |-> 0, mday |-> 1, yday |-> 0, wday |-> 4]
  /\ day = 0

Tomorrow(d) ==
  LET wday == (d.wday + 1) % 7
  IN  IF d.mday < MonthLength(d.year, d.mon)
      THEN [year |-> d.year, mon |-> d.mon, mday |-> d.mday + 1,
            yday |-> d.yday + 1, wday |-> wday]
      ELSE IF d.mon < 11
      THEN [year |-> d.year, mon |-> d.mon + 1, mday |-> 1,
            yday |-> d.yday + 1, wday |-> wday]
      ELSE [year |-> d.year + 1, mon |-> 0, mday |-> 1, yday |-> 0, wday |-> wday]

Yesterday(d) ==
  LET wday == (d.wday + 6) % 7
  IN  IF d.mday > 1
      THEN [year |-> d.year, mon |-> d.mon, mday |-> d.mday - 1,
            yday |-> d.yday - 1, wday |-> wday]
      ELSE IF d.mon > 0
      THEN [year |-> d.year, mon |-> d.mon - 1, mday |-> MonthLength(d.year, d.mon - 1),
            yday |-> d.yday - 1, wday |-> wday]
      ELSE [year |-> d.year - 1, mon |-> 11, mday |-> 31,
            yday |-> IF Leap(d.year - 1) THEN 365 ELSE 364, wday |-> wday]

NextDay ==
  /\ Tomorrow(date).year <= LastYear
  /\ date' = Tomorrow(date)
  /\ day' = day + 1

PreviousDay ==
  /\ Yesterday(date).year >= FirstYear
  /\ date' = Yesterday(date)
  /\ day' = day - 1

CalendarNext == NextDay \/ PreviousDay

CalendarSpec == CalendarInit /\ [][CalendarNext]_calendarVars

(* gmtime_r for a second of a day.                                         *)
Hour(second) == second \div 3600

Minute(second) == (second \div 60) % 60

Second(second) == second % 60

gmtime_r(d, second) ==
  [year |-> d.year - 1900, mon |-> d.mon, mday |-> d.mday, yday |-> d.yday,
   wday |-> d.wday, hour |-> Hour(second), min |-> Minute(second),
   sec |-> Second(second)]

-----------------------------------------------------------------------------
(* cpydig: the last two, the last four decimal digits of n.                *)
cpydig2(n) == <<(n \div 10) % 10, n % 10>>

cpydig4(n) == <<(n \div 1000) % 10, (n \div 100) % 10, (n \div 10) % 10, n % 10>>

(* http_date: the fields of the text; names of days and months are their   *)
(* indices, separators are left out.                                       *)
http_date(tm) ==
  [wday |-> tm.wday, mday |-> cpydig2(tm.mday), mon |-> tm.mon,
   year |-> cpydig4(tm.year + 1900), hour |-> cpydig2(tm.hour),
   min |-> cpydig2(tm.min), sec |-> cpydig2(tm.sec)]

(* http2_handler::http_date: what is cached, by the constructor first, is  *)
(* formatted again when the clock shows another second.                    *)
Cached(d, days, second) ==
  [tstamp |-> <<days, second>>, formatted |-> http_date(gmtime_r(d, second))]

Refresh(cache, second) ==
  IF <<day, second>> = cache.tstamp THEN cache ELSE Cached(date, day, second)

-----------------------------------------------------------------------------
(* The fields of a date, read from its digits.                             *)
Two(d) == d[1] * 10 + d[2]

Four(d) == d[1] * 1000 + d[2] * 100 + d[3] * 10 + d[4]

Read(text) ==
  [mday |-> Two(text.mday), mon |-> text.mon, year |-> Four(text.year) - 1900,
   hour |-> Two(text.hour), min |-> Two(text.min), sec |-> Two(text.sec)]

(* The date of http_date names the second it was made for: its fields give *)
(* back the time, through nghttp2_timegm_without_yday, as those of gmtime_r*)
(* do through nghttp2_timegm, and it has the weekday of that day.  A       *)
(* connection's cached date is that of the current second, whatever second *)
(* of the day, or of the days around it, it was cached for.                *)
DatesReadBack ==
  \A second \in Times :
    LET tm == gmtime_r(date, second)
        text == http_date(tm)
    IN  /\ nghttp2_timegm_without_yday(Read(text)) = <<day, second>>
        /\ nghttp2_timegm(tm) = <<day, second>>
        /\ text.wday = (day + 4) % 7
        /\ \A then \in Times :
             \A cache \in { Cached(Yesterday(date), day - 1, then),
                            Cached(date, day, then),
                            Cached(Tomorrow(date), day + 1, then) } :
               Refresh(cache, second).formatted = text

=============================================================================
