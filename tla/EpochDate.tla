------------------------------ MODULE EpochDate ------------------------------
(***************************************************************************)
(* The date and time the screen shows: epoch_to_datetime of screen.c, its  *)
(* two loops step by step, for every value the digits of unix_epoch can    *)
(* have left in a long of 32 bits, the negative ones of an overflow        *)
(* included.  Finding the digits and formatting the two lines is left out. *)
(***************************************************************************)
EXTENDS Integers

CONSTANT Epochs   \* the values of epoch to convert

MaxLong == 2147483647

ASSUME EpochsAssumption ==
    \A e \in Epochs : e \in Int /\ -MaxLong - 1 <= e /\ e <= MaxLong

VARIABLES
    pc,       \* the part of the function that is next
    epoch,    \* the seconds to convert
    clock,    \* *hour, *min, *sec
    wday,     \* *wday, 0 for Sunday
    d,        \* the days not yet accounted for
    year, month, day

vars == <<pc, epoch, clock, wday, d, year, month, day>>

TypeOK ==
    /\ pc \in {"start", "years", "months", "done"}
    /\ epoch \in Int
    /\ clock \in [hour : 0 .. 23, min : 0 .. 59, sec : 0 .. 59]
    /\ wday \in 0 .. 6
    /\ d \in Nat
    /\ year \in 1970 .. 2038
    /\ month \in 1 .. 12
    /\ day \in 0 .. 31

\* The results are set in the course of the function; nothing reads them before.
Init ==
    /\ pc = "start"
    /\ epoch \in Epochs
    /\ clock = [hour |-> 0, min |-> 0, sec |-> 0]
    /\ wday = 0 /\ d = 0
    /\ year = 1970 /\ month = 1 /\ day = 0

-----------------------------------------------------------------------------
\* Mutant: no year divisible by 100 is a leap year.
leapUnlessCentury(y) == y % 4 = 0 /\ y % 100 # 0

leap(y) == (y % 4 = 0 /\ y % 100 # 0) \/ y % 400 = 0

days_in_year(y) == IF leap(y) THEN 366 ELSE 365

mdays == <<31, 28, 31, 30, 31, 30, 31, 31, 30, 31, 30, 31>>

\* Mutant: February has 28 days.
mdPlain(m, y) == mdays[m]

md(m, y) == mdays[m] + IF m = 2 /\ leap(y) THEN 1 ELSE 0

weekday(days_total) == (days_total + 4) % 7

Start ==
    /\ pc = "start" /\ pc' = "years"
    /\ epoch' = IF epoch < 0 THEN 0 ELSE epoch
    /\ clock' = [hour |-> (epoch' \div 3600) % 24,
                 min  |-> (epoch' \div 60) % 60,
                 sec  |-> epoch' % 60]
    /\ wday' = weekday(epoch' \div 86400)
    /\ d' = epoch' \div 86400
    /\ year' = 1970
    /\ UNCHANGED <<month, day>>

WholeYear == year < 2100 /\ d >= days_in_year(year)

NextYear ==
    /\ pc = "years" /\ WholeYear
    /\ d' = d - days_in_year(year)
    /\ year' = year + 1
    /\ UNCHANGED <<pc, epoch, clock, wday, month, day>>

YearFound ==
    /\ pc = "years" /\ ~WholeYear
    /\ pc' = "months"
    /\ month' = 1
    /\ UNCHANGED <<epoch, clock, wday, d, year, day>>

WholeMonth == month <= 12 /\ d >= md(month, year)

NextMonth ==
    /\ pc = "months" /\ WholeMonth
    /\ d' = d - md(month, year)
    /\ month' = month + 1
    /\ UNCHANGED <<pc, epoch, clock, wday, year, day>>

MonthFound ==
    /\ pc = "months" /\ ~WholeMonth
    /\ pc' = "done"
    /\ month' = IF month > 12 THEN 12 ELSE month
    /\ day' = d + 1
    /\ UNCHANGED <<epoch, clock, wday, d, year>>

Next == Start \/ NextYear \/ YearFound \/ NextMonth \/ MonthFound

Spec == Init /\ [][Next]_vars

-----------------------------------------------------------------------------
(***************************************************************************)
(* References: the number of a day since 1 January 1970 and its weekday,   *)
(* by closed formulas of the Gregorian calendar.  Years are counted from   *)
(* March, so that the leap day is the last of its year.                    *)
(***************************************************************************)
MarchYear(y, m)  == IF m <= 2 THEN y - 1 ELSE y
MarchMonth(m)    == IF m <= 2 THEN m + 9 ELSE m - 3
LeapDays(y)      == y \div 4 - y \div 100 + y \div 400

DayNumber(y, m, n) ==
    365 * MarchYear(y, m) + LeapDays(MarchYear(y, m))
        + (153 * MarchMonth(m) + 2) \div 5 + n - 719469

WeekdayShift == <<0, 3, 2, 5, 0, 3, 5, 1, 4, 6, 2, 4>>

WeekdayOf(y, m, n) ==
    (MarchYear(y, m) + LeapDays(MarchYear(y, m)) + WeekdayShift[m] + n) % 7

\* The date and time are those of the second the proxy sent (zero for a negative
\* value): the day exists in the calendar and is the only one with that number.  The
\* weekday, which the code computes from the epoch, is that of the date, which it
\* computes in the loops.
DateIsRight ==
    pc = "done" =>
        /\ day \in 1 .. md(month, year)
        /\ DayNumber(year, month, day) * 86400
             + clock.hour * 3600 + clock.min * 60 + clock.sec = epoch
        /\ wday = WeekdayOf(year, month, day)
=============================================================================
