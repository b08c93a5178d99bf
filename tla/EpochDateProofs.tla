--------------------------- MODULE EpochDateProofs ---------------------------
(***************************************************************************)
(* For every epoch of 32 bits, not only those of the run, the loops of     *)
(* epoch_to_datetime stay in range and arrive at the right date.  What the *)
(* loops keep: the first day of the year, or month, reached so far and the *)
(* d days left add up to the day wanted.                                   *)
(***************************************************************************)
EXTENDS EpochDate, TLAPS

DayWanted == epoch \div 86400

TimeOfDay == clock = [hour |-> (epoch \div 3600) % 24, min |-> (epoch \div 60) % 60,
                      sec |-> epoch % 60]

YearsInv == /\ d \in Nat
            /\ year \in 1970 .. 2038
            /\ DayNumber(year, 1, 1) + d = DayWanted

MonthsInv == /\ month \in 1 .. 12
             /\ d < DayNumber(year + 1, 1, 1) - DayNumber(year, month, 1)
             /\ DayNumber(year, month, 1) + d = DayWanted

DoneInv == /\ month \in 1 .. 12
           /\ day \in 1 .. md(month, year)
           /\ DayNumber(year, month, day) = DayWanted

LoopInv ==
    /\ TypeOK
    /\ epoch \in Epochs \cup {0}
    /\ pc # "start" => epoch >= 0 /\ TimeOfDay /\ wday = weekday(DayWanted)
    /\ pc = "years" => YearsInv
    /\ pc = "months" => MonthsInv
    /\ pc = "done" => DoneInv

-----------------------------------------------------------------------------
\* The next year begins days_in_year later (the body of the loop over years).
LEMMA YearLength ==
    ASSUME NEW y \in Nat \ {0}
    PROVE  DayNumber(y + 1, 1, 1) = DayNumber(y, 1, 1) + days_in_year(y)
BY SMTT(60) DEF DayNumber, MarchYear, MarchMonth, LeapDays, days_in_year, leap

\* The next month begins md later, and December ends the year (the loop over months).
LEMMA MonthLength ==
    ASSUME NEW y \in Nat \ {0}, NEW m \in 1 .. 12
    PROVE  /\ md(m, y) \in 28 .. 31
           /\ IF m = 12 THEN DayNumber(y + 1, 1, 1) = DayNumber(y, 12, 1) + md(m, y)
                        ELSE DayNumber(y, m + 1, 1) = DayNumber(y, m, 1) + md(m, y)
<1>1. CASE m = 2
  BY <1>1, SMTT(60) DEF md, mdays, leap, DayNumber, MarchYear, MarchMonth, LeapDays
<1>2. CASE m # 2
  <2>1. m \in {1, 3, 4, 5, 6, 7, 8, 9, 10, 11, 12}
    BY <1>2
  <2>2. md(m, y) = mdays[m]
    BY <1>2, <2>1 DEF md, mdays
  <2>3. CASE m \in {1, 3, 4, 5, 6}
    BY <2>2, <2>3, SMTT(60) DEF mdays, DayNumber, MarchYear, MarchMonth, LeapDays
  <2>4. CASE m \in {7, 8, 9, 10, 11, 12}
    BY <2>2, <2>4, SMTT(60) DEF mdays, DayNumber, MarchYear, MarchMonth, LeapDays
  <2> QED
    BY <2>1, <2>3, <2>4
<1> QED
  BY <1>1, <1>2

\* The day of the largest epoch lies in 2038: no year after it is ever whole.
LEMMA LastYear ==
    ASSUME NEW n \in Nat, n <= MaxLong \div 86400
    PROVE  DayNumber(2039, 1, 1) > n
BY SMT DEF MaxLong, DayNumber, MarchYear, MarchMonth, LeapDays

LEMMA FirstDay == DayNumber(1970, 1, 1) = 0
BY SMT DEF DayNumber, MarchYear, MarchMonth, LeapDays

\* What the head of epoch_to_datetime computes from the clamped epoch.
LEMMA HeadRange ==
    ASSUME NEW e \in Nat, e <= MaxLong
    PROVE  /\ (e \div 3600) % 24 \in 0 .. 23
           /\ (e \div 60) % 60 \in 0 .. 59
           /\ e % 60 \in 0 .. 59
           /\ e \div 86400 \in Nat
           /\ e \div 86400 <= MaxLong \div 86400
           /\ weekday(e \div 86400) \in 0 .. 6
BY SMT DEF MaxLong, weekday

LEMMA EpochRange ==
    ASSUME NEW e \in Epochs
    PROVE  e \in Int /\ e <= MaxLong
BY EpochsAssumption

LEMMA DayNumberType ==
    ASSUME NEW y \in Nat \ {0}, NEW m \in 1 .. 12
    PROVE  DayNumber(y, m, 1) \in Int
BY SMT DEF DayNumber, MarchYear, MarchMonth, LeapDays

LEMMA DayOfMonth ==
    ASSUME NEW y \in Nat \ {0}, NEW m \in 1 .. 12, NEW n \in Nat
    PROVE  DayNumber(y, m, n + 1) = DayNumber(y, m, 1) + n
BY SMT DEF DayNumber, MarchYear, MarchMonth, LeapDays

-----------------------------------------------------------------------------
\* Every step of the function keeps the invariant.
LEMMA LoopStep == LoopInv /\ [Next]_vars => LoopInv'
<1> SUFFICES ASSUME LoopInv, [Next]_vars
             PROVE  LoopInv'
  OBVIOUS
<1>1. CASE Start
  <2>1. epoch' \in Nat /\ epoch' <= MaxLong /\ epoch' \in Epochs \cup {0}
    BY <1>1, EpochRange, SMT DEF LoopInv, Start, MaxLong
  <2>2. /\ clock' \in [hour : 0 .. 23, min : 0 .. 59, sec : 0 .. 59]
        /\ wday' \in 0 .. 6 /\ d' \in Nat
    <3>1. /\ (epoch' \div 3600) % 24 \in 0 .. 23
          /\ (epoch' \div 60) % 60 \in 0 .. 59
          /\ epoch' % 60 \in 0 .. 59
          /\ epoch' \div 86400 \in Nat
          /\ weekday(epoch' \div 86400) \in 0 .. 6
      <4> DEFINE e == epoch'
      <4>1. e \in Nat /\ e <= MaxLong
        BY <2>1
      <4> HIDE DEF e
      <4>2. /\ (e \div 3600) % 24 \in 0 .. 23
            /\ (e \div 60) % 60 \in 0 .. 59
            /\ e % 60 \in 0 .. 59
            /\ e \div 86400 \in Nat
            /\ weekday(e \div 86400) \in 0 .. 6
        BY <4>1, HeadRange
      <4> QED
        BY <4>2 DEF e
    <3>2. /\ clock' = [hour |-> (epoch' \div 3600) % 24, min |-> (epoch' \div 60) % 60,
                       sec |-> epoch' % 60]
          /\ wday' = weekday(epoch' \div 86400) /\ d' = epoch' \div 86400
      BY <1>1 DEF Start
    <3> QED
      BY <3>1, <3>2
  <2>3. TypeOK'
    BY <1>1, <2>1, <2>2 DEF LoopInv, TypeOK, Start
  <2>4. YearsInv'
    <3>1. year' = 1970 /\ d' = DayWanted'
      BY <1>1 DEF Start, DayWanted
    <3>2. DayNumber(year', 1, 1) = 0
      BY <3>1, FirstDay
    <3> QED
      BY <2>2, <3>1, <3>2 DEF YearsInv
  <2> QED
    BY <1>1, <2>1, <2>3, <2>4, SMT DEF LoopInv, Start, TimeOfDay, DayWanted
<1>2. CASE NextYear
  <2>1. YearsInv /\ d >= days_in_year(year) /\ epoch >= 0 /\ epoch \in Int
    BY <1>2 DEF NextYear, WholeYear, LoopInv, TypeOK
  <2>2. epoch <= MaxLong
    BY <2>1, EpochRange, SMT DEF LoopInv, MaxLong
  <2>3. days_in_year(year) \in Nat
    BY DEF days_in_year
  <2>4. DayNumber(year + 1, 1, 1) <= DayWanted /\ DayWanted \in Nat /\ DayWanted <= MaxLong \div 86400
    <3>1. DayWanted \in Nat /\ DayWanted <= MaxLong \div 86400
      BY <2>1, <2>2, SMT DEF DayWanted, MaxLong
    <3>2. DayNumber(year + 1, 1, 1) = DayNumber(year, 1, 1) + days_in_year(year)
      BY <2>1, YearLength DEF YearsInv
    <3>3. DayNumber(year, 1, 1) \in Int
      BY <2>1, DayNumberType DEF YearsInv
    <3> QED
      BY <2>1, <2>3, <3>1, <3>2, <3>3 DEF YearsInv
  <2>5. year # 2038
    BY <2>4, LastYear, SMT DEF DayNumber, MarchYear, MarchMonth, LeapDays, MaxLong
  <2>6. YearsInv'
    <3>1. DayNumber(year, 1, 1) \in Int
      BY <2>1, DayNumberType DEF YearsInv
    <3>2. DayNumber(year + 1, 1, 1) = DayNumber(year, 1, 1) + days_in_year(year)
      BY <2>1, YearLength DEF YearsInv
    <3>3. d' = d - days_in_year(year) /\ year' = year + 1 /\ DayWanted' = DayWanted
      BY <1>2, SMT DEF NextYear, DayWanted
    <3>4. d' \in Nat /\ year' \in 1970 .. 2038
      BY <2>1, <2>3, <2>5, <3>3 DEF YearsInv
    <3>5. DayNumber(year', 1, 1) + d' = DayWanted'
      BY <2>1, <2>3, <3>1, <3>2, <3>3 DEF YearsInv
    <3> QED
      BY <3>4, <3>5 DEF YearsInv
  <2>7. TypeOK'
    BY <1>2, <2>6 DEF LoopInv, TypeOK, NextYear, YearsInv
  <2> QED
    BY <1>2, <2>6, <2>7, SMT DEF LoopInv, NextYear, TimeOfDay, DayWanted
<1>3. CASE YearFound
  <2>1. YearsInv /\ d < days_in_year(year)
    BY <1>3 DEF YearFound, WholeYear, LoopInv, YearsInv, days_in_year
  <2>2. DayNumber(year + 1, 1, 1) = DayNumber(year, 1, 1) + days_in_year(year)
    BY <2>1, YearLength DEF YearsInv
  <2>3. DayNumber(year, 1, 1) \in Int
    BY <2>1, DayNumberType DEF YearsInv
  <2>4. days_in_year(year) \in Nat
    BY DEF days_in_year
  <2>5. MonthsInv'
    BY <1>3, <2>1, <2>2, <2>3, <2>4, SMT DEF YearFound, MonthsInv, YearsInv, DayWanted
  <2>6. TypeOK'
    BY <1>3 DEF LoopInv, TypeOK, YearFound
  <2> QED
    BY <1>3, <2>5, <2>6, SMT DEF LoopInv, YearFound, TimeOfDay, DayWanted
<1>4. CASE NextMonth
  <2>1. MonthsInv /\ d >= md(month, year) /\ year \in Nat \ {0} /\ d \in Nat
    BY <1>4 DEF NextMonth, WholeMonth, LoopInv, TypeOK
  <2>2. md(month, year) \in 28 .. 31 /\ DayNumber(year, month, 1) \in Int
    BY <2>1, MonthLength, DayNumberType DEF MonthsInv
  <2>3. month # 12
    BY <2>1, <2>2, MonthLength DEF MonthsInv
  <2>4. DayNumber(year, month + 1, 1) = DayNumber(year, month, 1) + md(month, year)
    BY <2>1, <2>3, MonthLength DEF MonthsInv
  <2>5. DayNumber(year + 1, 1, 1) \in Int
    BY <2>1, DayNumberType
  <2>6. /\ month' = month + 1 /\ d' = d - md(month, year) /\ year' = year
        /\ DayWanted' = DayWanted
    BY <1>4, SMT DEF NextMonth, DayWanted
  <2>7. month' \in 1 .. 12 /\ d' \in Nat
    BY <2>1, <2>2, <2>3, <2>6 DEF MonthsInv
  <2>8. MonthsInv'
    BY <2>1, <2>2, <2>4, <2>5, <2>6, <2>7 DEF MonthsInv
  <2>9. TypeOK'
    BY <1>4, <2>7 DEF LoopInv, TypeOK, NextMonth
  <2> QED
    BY <1>4, <2>8, <2>9, SMT DEF LoopInv, NextMonth, TimeOfDay, DayWanted
<1>5. CASE MonthFound
  <2>1. MonthsInv /\ year \in Nat \ {0} /\ d \in Nat
    BY <1>5 DEF MonthFound, LoopInv, TypeOK
  <2>2. md(month, year) \in 28 .. 31
    BY <2>1, MonthLength DEF MonthsInv
  <2>3. d < md(month, year)
    BY <1>5, <2>1, <2>2 DEF MonthFound, WholeMonth, MonthsInv
  <2>4. month' = month /\ day' = d + 1 /\ year' = year /\ DayWanted' = DayWanted
    BY <1>5, <2>1, SMT DEF MonthFound, MonthsInv, DayWanted
  <2>5. DayNumber(year, month, d + 1) = DayNumber(year, month, 1) + d
    BY <2>1, DayOfMonth DEF MonthsInv
  <2>6. DayNumber(year, month, 1) \in Int
    BY <2>1, DayNumberType DEF MonthsInv
  <2>7. DayNumber(year, month, d + 1) = DayWanted
    BY <2>1, <2>5, <2>6 DEF MonthsInv
  <2>8. day' \in 1 .. md(month, year)
    BY <2>1, <2>2, <2>3, <2>4
  <2>9. DoneInv'
    BY <2>1, <2>4, <2>7, <2>8, SMT DEF DoneInv, MonthsInv, DayWanted, md
  <2>10. TypeOK'
    BY <1>5, <2>1, <2>2, <2>3, <2>4 DEF LoopInv, TypeOK, MonthFound, MonthsInv
  <2> QED
    BY <1>5, <2>9, <2>10, SMT DEF LoopInv, MonthFound, TimeOfDay, DayWanted
<1>6. CASE UNCHANGED vars
  BY <1>6, SMT DEF vars, LoopInv, TypeOK, TimeOfDay, DayWanted, YearsInv, MonthsInv, DoneInv
<1> QED
  BY <1>1, <1>2, <1>3, <1>4, <1>5, <1>6 DEF Next

LEMMA LoopInvariant == Spec => []LoopInv
<1>1. Init => LoopInv
  BY EpochRange DEF Init, LoopInv, TypeOK
<1> QED
  BY <1>1, LoopStep, PTL DEF Spec

\* The loops of epoch_to_datetime never leave their ranges: the year stops at 2038
\* and the month at 12, so that mdays is read within its bounds.
THEOREM Typing == Spec => []TypeOK
<1>1. LoopInv => TypeOK
  BY DEF LoopInv
<1> QED
  BY <1>1, LoopInvariant, PTL

\* A number of seconds is put together again from its days, hours, minutes and seconds.
LEMMA SecondsOfDay ==
    ASSUME NEW e \in Nat
    PROVE  (e \div 86400) * 86400 + ((e \div 3600) % 24) * 3600
             + ((e \div 60) % 60) * 60 + (e % 60) = e
BY SMT

\* The date and time at the end of the loops are those of the epoch.
LEMMA DateOfEpoch ==
  ASSUME LoopInv, pc = "done"
  PROVE  /\ day \in 1 .. md(month, year)
         /\ DayNumber(year, month, day) * 86400
              + clock.hour * 3600 + clock.min * 60 + clock.sec = epoch
<1>1. DoneInv /\ TimeOfDay /\ epoch \in Nat
  BY DEF LoopInv, TypeOK
<1> QED
  BY <1>1, SecondsOfDay, SMT DEF DoneInv, TimeOfDay, DayWanted

\* Two numbers that differ by multiples of 7 have the same remainder.
LEMMA SameWeekday ==
    ASSUME NEW i \in Int, NEW j \in Int, NEW k \in Int, NEW r \in Int,
           r % 7 = 0, i = j + r + 7 * k
    PROVE  i % 7 = j % 7
BY SMT

\* The months before month m, from March on, and the shift of m differ by whole weeks and 5.
LEMMA MonthShift ==
    ASSUME NEW m \in 1 .. 12
    PROVE  /\ WeekdayShift[m] \in 0 .. 6
           /\ (153 * MarchMonth(m) + 2) \div 5 \in Nat
           /\ ((153 * MarchMonth(m) + 2) \div 5 - WeekdayShift[m] - 5) % 7 = 0
<1>1. m \in {1, 2, 3, 4, 5, 6} \/ m \in {7, 8, 9, 10, 11, 12}
  BY SMT
<1>2. CASE m \in {1, 2, 3, 4, 5, 6}
  BY <1>2, SMT DEF MarchMonth, WeekdayShift
<1>3. CASE m \in {7, 8, 9, 10, 11, 12}
  BY <1>3, SMT DEF MarchMonth, WeekdayShift
<1> QED
  BY <1>1, <1>2, <1>3

\* The weekday at the end of the loops is that of the date they arrive at.
LEMMA WeekdayOfDate ==
  ASSUME LoopInv, pc = "done"
  PROVE  wday = WeekdayOf(year, month, day)
<1>1. /\ month \in 1 .. 12 /\ day \in Nat /\ year \in 1970 .. 2038
      /\ wday = (DayNumber(year, month, day) + 4) % 7
  BY DEF LoopInv, TypeOK, DoneInv, weekday
<1> DEFINE a == MarchYear(year, month)
           s == WeekdayShift[month]
           b == (153 * MarchMonth(month) + 2) \div 5
<1>2. a \in Int /\ LeapDays(a) \in Int
  BY <1>1, SMT DEF MarchYear, LeapDays
<1>3. s \in Int /\ b \in Int /\ (b - s - 5) % 7 = 0
  <2>0. month \in 1 .. 12
    BY <1>1
  <2>1. /\ WeekdayShift[month] \in 0 .. 6
        /\ (153 * MarchMonth(month) + 2) \div 5 \in Nat
        /\ ((153 * MarchMonth(month) + 2) \div 5 - WeekdayShift[month] - 5) % 7 = 0
    BY <2>0, MonthShift, Zenon
  <2> QED
    BY <2>1, SMT
<1>4. DayNumber(year, month, day) + 4
        = (a + LeapDays(a) + s + day) + (b - s - 5) + 7 * (52 * a - 102780)
  <2>1. DayNumber(year, month, day) = 365 * a + LeapDays(a) + b + day - 719469
    BY DEF DayNumber
  <2> HIDE DEF a, s, b
  <2> QED
    BY <1>1, <1>2, <1>3, <2>1, SMT
<1>5. (DayNumber(year, month, day) + 4) % 7 = (a + LeapDays(a) + s + day) % 7
  <2> HIDE DEF a, s, b
  <2>1. /\ a + LeapDays(a) + s + day \in Int /\ b - s - 5 \in Int
        /\ 52 * a - 102780 \in Int
    BY <1>1, <1>2, <1>3, SMT
  <2> DEFINE i == DayNumber(year, month, day) + 4
             j == a + LeapDays(a) + s + day
             r == b - s - 5
             k == 52 * a - 102780
  <2>2. i \in Int /\ j \in Int /\ r \in Int /\ k \in Int /\ r % 7 = 0 /\ i = j + r + 7 * k
    BY <1>3, <1>4, <2>1, SMT
  <2> HIDE DEF i, j, r, k
  <2>3. i % 7 = j % 7
    BY <2>2, SameWeekday
  <2> QED
    BY <2>3 DEF i, j
<1> QED
  BY <1>1, <1>5 DEF WeekdayOf

\* What the screen shows is the date, the time and the weekday of the epoch
\* (epoch_to_datetime).
THEOREM DatesAreRight == Spec => []DateIsRight
<1>1. LoopInv => DateIsRight
  BY DateOfEpoch, WeekdayOfDate DEF DateIsRight
<1> QED
  BY <1>1, LoopInvariant, PTL
=============================================================================
