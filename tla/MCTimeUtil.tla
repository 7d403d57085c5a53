----------------------------- MODULE MCTimeUtil -----------------------------
(***************************************************************************)
(* Instance of TimeUtil for TLC.  The start times sit at the edges the    *)
(* Julian day and leap-year arithmetic has to get right: January 1970,    *)
(* where a year too few leaves the epoch; a January and the end of a leap *)
(* February in 2000 (a leap century); the first of March; the last second *)
(* of 1999; the day in January 2038 on which 2^31 seconds are passed; and *)
(* the end of February 2100 (a century that is not a leap year).  The     *)
(* offsets move by a day either way and by a month.                       *)
(***************************************************************************)
EXTENDS TimeUtil

At(y, m, dd, secs) == TimeOf(DaysFromCivil(y, m, dd), secs)

MCStarts ==
    { At(1970, 1, 15, 43200), At(2000, 1, 15, 43200), At(2000, 2, 28, 0), At(2000, 3, 1, 3661),
      At(1999, 12, 31, 86399), At(2038, 1, 18, 86000), At(2100, 2, 28, 0) }

(* Times from 2038 on, where _mkgmtime's int sum overflows, and from     *)
(* 2106-02-07 06:28:16 on, where the wrapped sum is positive again.      *)
MCStartsPastInt ==
    { At(2038, 1, 18, 86000), At(2038, 1, 19, 11647), At(2106, 2, 7, 23296),
      At(2106, 3, 1, 0) }

MCOffsets == {-1, 1, 31}
=============================================================================
