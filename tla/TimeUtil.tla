------------------------------- MODULE TimeUtil -------------------------------
(***************************************************************************)
(* The date arithmetic of src/cpp/lib/src/TimeUtil.cc: the Julian day     *)
(* conversions and AddDays built on them, and the two conversions of a    *)
(* struct tm to seconds since the epoch, _mkgmtime (in int) and           *)
(* UTCStructTmToTimeT (in time_t).  Each is checked against a reference   *)
(* calendar (gmtime and timegm, defined below from the Gregorian rules)    *)
(* at every time a caller reaches by calling AddDays.                     *)
(*                                                                         *)
(* A time_t is the pair [d, s] of days since 1970-01-01 and seconds into  *)
(* the day, so that times past 2038 stay within TLC's integers; a struct  *)
(* tm is [year, mon, mday, hour, min, sec] with year - 1900 and mon 0..11. *)
(* The doubles of the Julian day code are exact multiples of 1/2, and its *)
(* constants 365.25 and 30.6001 are rationals: every floor of the code is  *)
(* written as an integer division with the same result.                   *)
(***************************************************************************)
EXTENDS Integers, Sequences, FiniteSets

CONSTANTS
    Starts,         \* the times AddDays is first called with
    Offsets,        \* its days argument
    MaxCalls        \* the number of calls a caller makes

VARIABLES
    t,              \* the time the caller holds
    start,          \* the time it started from
    added,          \* the days it has asked AddDays to add
    calls

vars == <<t, start, added, calls>>

(***************************************************************************)
(* Reference calendar: gmtime and timegm of the C library.                *)
(***************************************************************************)
IsLeap(y) == (y % 4 = 0 /\ y % 100 # 0) \/ y % 400 = 0

YearDays(y) == IF IsLeap(y) THEN 366 ELSE 365

MonthDays(y, m) ==
    CASE m = 2 -> IF IsLeap(y) THEN 29 ELSE 28
      [] m \in {4, 6, 9, 11} -> 30
      [] OTHER -> 31

(* The days from 1970-01-01 to the first of year y (y >= 1970). *)
DaysBeforeYear(y) == 365 * (y - 1970) + Cardinality({yy \in 1970..(y - 1) : IsLeap(yy)})

RECURSIVE DaysBeforeMonth(_, _)
DaysBeforeMonth(y, m) == IF m = 1 THEN 0 ELSE DaysBeforeMonth(y, m - 1) + MonthDays(y, m - 1)

DaysFromCivil(y, m, dd) == DaysBeforeYear(y) + DaysBeforeMonth(y, m) + dd - 1

RECURSIVE YearOf(_, _)
YearOf(y, r) == IF r < YearDays(y) THEN [year |-> y, rest |-> r] ELSE YearOf(y + 1, r - YearDays(y))

RECURSIVE MonthOf(_, _, _)
MonthOf(y, m, r) ==
    IF r < MonthDays(y, m) THEN [year |-> y, month |-> m, day |-> r + 1]
    ELSE MonthOf(y, m + 1, r - MonthDays(y, m))

(* The calendar date of a time (from 1970 on). *)
Civil(x) == LET yr == YearOf(1970, x.d) IN MonthOf(yr.year, 1, yr.rest)

(* A time from a day count and seconds, carried into range. *)
TimeOf(days, secs) == [d |-> days + secs \div 86400, s |-> secs % 86400]

BAD_TIME_T == TimeOf(0, -1)

Gmtime(x) ==
    LET c == Civil(x) IN
    [year |-> c.year - 1900, mon |-> c.month - 1, mday |-> c.day,
     hour |-> x.s \div 3600, min |-> (x.s % 3600) \div 60, sec |-> x.s % 60]

(* timegm normalises a month out of 0..11 into the year. *)
Timegm(tm) ==
    TimeOf(DaysFromCivil(tm.year + 1900 + tm.mon \div 12, (tm.mon % 12) + 1, 1) + tm.mday - 1,
           tm.sec + 60 * (tm.min + 60 * tm.hour))

(***************************************************************************)
(* The code.                                                               *)
(***************************************************************************)

(* C's / and % truncate towards zero. *)
CDiv(a, b) == IF a >= 0 THEN a \div b ELSE -((-a) \div b)
CMod(a, b) == a - b * CDiv(a, b)

month_day == <<0, 31, 59, 90, 120, 151, 181, 212, 243, 273, 304, 334>>

(* The day count and the seconds of the sum in _mkgmtime and             *)
(* UTCStructTmToTimeT: months carried into years (a negative remainder    *)
(* borrows a year), and the leap days counted by the Februaries since     *)
(* 1900.                                                                  *)
TmDaysNoCentury(tm) ==
    LET m0 == CMod(tm.mon, 12)
        y0 == tm.year + CDiv(tm.mon, 12)
        month == IF m0 < 0 THEN m0 + 12 ELSE m0
        year == IF m0 < 0 THEN y0 - 1 ELSE y0
        year_for_leap == IF month > 1 THEN year + 1 ELSE year
    IN  month_day[month + 1] + tm.mday - 1 + 365 * (year - 70)
          + CDiv(year_for_leap - 69, 4) + CDiv(year_for_leap + 299, 400)

TmDays(tm) ==
    LET m0 == CMod(tm.mon, 12)
        y0 == tm.year + CDiv(tm.mon, 12)
        month == IF m0 < 0 THEN m0 + 12 ELSE m0
        year == IF m0 < 0 THEN y0 - 1 ELSE y0
        year_for_leap == IF month > 1 THEN year + 1 ELSE year
    IN  month_day[month + 1] + tm.mday - 1 + 365 * (year - 70)
          + CDiv(year_for_leap - 69, 4) - CDiv(year_for_leap - 1, 100)
          + CDiv(year_for_leap + 299, 400)

TmSeconds(tm) == tm.sec + 60 * (tm.min + 60 * tm.hour)

IsNegative(x) == x.d < 0

UTCStructTmToTimeT(tm) ==
    LET rt == TimeOf(TmDays(tm), TmSeconds(tm)) IN IF IsNegative(rt) THEN BAD_TIME_T ELSE rt

(* INT_MAX = 2^31 - 1 and 2^32 as times. *)
IntMax == [d |-> 24855, s |-> 11647]
TwoTo32 == [d |-> 49710, s |-> 23296]

Above(x, y) == x.d > y.d \/ (x.d = y.d /\ x.s > y.s)

(* _mkgmtime evaluates the same sum in int.  A sum above INT_MAX is a     *)
(* signed overflow; the builds wrap it modulo 2^32 and the result is      *)
(* widened to time_t.                                                     *)
IntSum(tm) ==
    LET v == TimeOf(TmDays(tm), TmSeconds(tm)) IN
    IF Above(v, IntMax) THEN TimeOf(v.d - TwoTo32.d, v.s - TwoTo32.s) ELSE v

_mkgmtime(tm) == IF IsNegative(IntSum(tm)) THEN BAD_TIME_T ELSE IntSum(tm)

(* GetJulianDayNumber, as twice the Julian day number it returns. *)
GetJulianDayNumber(year, month, day) ==
    LET A == year \div 100
        B == A \div 4
        C == 2 - A + B
        E == (1461 * (year + 4716)) \div 4
        F == (306001 * (month + 1)) \div 10000
    IN  2 * (C + day + E + F) - 3049

(* Mutant: the month > 12 wrap is left out. *)
JulianNoWrap(jd2) ==
    LET Z == (jd2 + 1) \div 2
        W == (4 * Z - 7468865) \div 146097
        A == Z + 1 + W - W \div 4
        B == A + 1524
        C == (100 * B - 12210) \div 36525
        D == (1461 * C) \div 4
        E == (10000 * (B - D)) \div 306001
    IN  [year |-> IF E - 1 \in {1, 2} THEN C - 4715 ELSE C - 4716,
         month |-> E - 1, day |-> B - D - (306001 * E) \div 10000]

(* Mutant: the year is C - 4716 for January and February as well. *)
JulianNoJanFebYear(jd2) ==
    LET Z == (jd2 + 1) \div 2
        W == (4 * Z - 7468865) \div 146097
        A == Z + 1 + W - W \div 4
        B == A + 1524
        C == (100 * B - 12210) \div 36525
        D == (1461 * C) \div 4
        E == (10000 * (B - D)) \div 306001
        month == IF E - 1 > 12 THEN E - 13 ELSE E - 1
    IN  [year |-> C - 4716, month |-> month, day |-> B - D - (306001 * E) \div 10000]

(* JulianDayNumberToYearMonthAndDay of jd2 / 2. *)
JulianDayNumberToYearMonthAndDay(jd2) ==
    LET Z == (jd2 + 1) \div 2
        W == (4 * Z - 7468865) \div 146097
        X == W \div 4
        A == Z + 1 + W - X
        B == A + 1524
        C == (100 * B - 12210) \div 36525
        D == (1461 * C) \div 4
        E == (10000 * (B - D)) \div 306001
        F == (306001 * E) \div 10000
        month == IF E - 1 > 12 THEN E - 13 ELSE E - 1
    IN  [year |-> IF month \in {1, 2} THEN C - 4715 ELSE C - 4716,
         month |-> month, day |-> B - D - F]

(* TimeGm: mktime with TZ set to UTC, which is timegm. *)
TimeGm(tm) == Timegm(tm)

AddDays(x, days) ==
    LET tm == Gmtime(x)
        c == JulianDayNumberToYearMonthAndDay(
                 GetJulianDayNumber(tm.year + 1900, tm.mon + 1, tm.mday) + 2 * days)
    IN  TimeGm([tm EXCEPT !.year = c.year - 1900, !.mon = c.month - 1, !.mday = c.day])

(***************************************************************************)
(* A caller that keeps moving a time by AddDays.                          *)
(***************************************************************************)
Init ==
    /\ t \in Starts
    /\ start = t
    /\ added = 0
    /\ calls = 0

CallAddDays ==
    /\ calls < MaxCalls
    /\ \E n \in Offsets :
          /\ t' = AddDays(t, n)
          /\ added' = added + n
    /\ calls' = calls + 1
    /\ UNCHANGED start

Next == CallAddDays

Spec == Init /\ [][Next]_vars
-----------------------------------------------------------------------------
(* The times a caller holds stay within gmtime's range from the epoch. *)
TypeOK ==
    /\ t \in [d : Nat, s : 0..86399]
    /\ start \in Starts
    /\ added \in Int
    /\ calls \in 0..MaxCalls

(* UTCStructTmToTimeT inverts gmtime: the broken-down time of t converts  *)
(* back to t, also when the month is out of 0..11 (by a year or two, in   *)
(* either direction, with the year adjusted), which the code's borrowing  *)
(* of a year for a negative month % 12 and its century corrections must   *)
(* get right.                                                             *)
MonthShifts == {-24, -12, 12}

UTCStructTmToTimeTInvertsGmtime ==
    LET tm == Gmtime(t) IN
    /\ UTCStructTmToTimeT(tm) = t
    /\ \A k \in MonthShifts :
          UTCStructTmToTimeT([tm EXCEPT !.mon = @ + k, !.year = @ - k \div 12]) = t

(* JulianDayNumberToYearMonthAndDay of the Julian day at midnight of t's  *)
(* day gives t's calendar date.                                          *)
JulianDaysInvert ==
    JulianDayNumberToYearMonthAndDay(2 * t.d + 4881175) = Civil(t)

(* _mkgmtime, whose sum is computed in int, either converts the broken-   *)
(* down time of t back to t or reports failure with -1; it never returns  *)
(* a wrong time.  From 2106-02-07 on the sum wraps past 2^32 to a        *)
(* positive value, and a wrong time is returned.                          *)
MkgmtimeRightOrBad ==
    _mkgmtime(Gmtime(t)) \in {t, BAD_TIME_T}

(* AddDays(t, n) is t moved by n days: after the calls, t is the start   *)
(* moved by the sum of the offsets.                                       *)
AddDaysAddsDays ==
    t = TimeOf(start.d + added, start.s)

=============================================================================
