---------------------------- MODULE AlarmProofs ----------------------------
(***************************************************************************)
(* Theorems about Alarm for every length of the day, alarm time and        *)
(* period: types, the agreement of the flags, and the promise it keeps.    *)
(* Theorems about AlarmSeen: all of that holds of it as well, no press     *)
(* acts twice, periods are exact, and a reader that preempts the thread    *)
(* between any two stores sees a mode that was or comes and a time that is *)
(* right or a minute off, an hour and a minute in the second in which the  *)
(* hour changes.                                                           *)
(***************************************************************************)
EXTENDS AlarmSeen, SequenceTheorems, TLAPS

Clocks == [hour : 0 .. HoursPerDay - 1, minute : 0 .. MinutesPerHour - 1,
           second : 0 .. SecondsPerMinute - 1]

Alarms == [enabled : BOOLEAN, active : BOOLEAN, snoozed : BOOLEAN,
           active_seconds : Nat, snooze_seconds_left : Int]

\* The cascaded carries of update_clock lead from one time of the day to another.
LEMMA LaterType == ASSUME NEW c \in Clocks PROVE Later(c) \in Clocks
  BY ClockAssumption DEF Later, Clocks

\* Whatever a pass does to the alarm's variables keeps their types.
LEMMA OperationsType ==
  ASSUME NEW a \in Alarms
  PROVE  /\ alarm_snooze(a) \in Alarms
         /\ alarm_mute(a) \in Alarms
         /\ alarm_toggle_enabled(a) \in Alarms
         /\ CheckTime(a) \in Alarms
         /\ CountSnooze(a) \in Alarms
         /\ CountRinging(a) \in Alarms
<1>1. Silenced(a) \in Alarms
  BY DEF Alarms, Silenced
<1>2. alarm_snooze(a) \in Alarms
  BY PeriodAssumption DEF Alarms, alarm_snooze
<1>3. alarm_mute(a) \in Alarms
  BY <1>1 DEF alarm_mute
<1>4. alarm_toggle_enabled(a) \in Alarms
  BY <1>1 DEF Alarms, alarm_toggle_enabled
<1>5. CheckTime(a) \in Alarms
  BY DEF Alarms, CheckTime
<1>6. CountSnooze(a) \in Alarms
  <2> DEFINE left == a.snooze_seconds_left - 1
  <2>1. left \in Int /\ a.enabled \in BOOLEAN
    BY DEF Alarms
  <2>2. [a EXCEPT !.snooze_seconds_left = left] \in Alarms
    BY <2>1 DEF Alarms
  <2>3. [enabled |-> a.enabled, active |-> TRUE, snoozed |-> FALSE,
         active_seconds |-> 0, snooze_seconds_left |-> left] \in Alarms
    BY <2>1 DEF Alarms
  <2> QED BY <2>2, <2>3 DEF CountSnooze
<1>7. CountRinging(a) \in Alarms
  <2> DEFINE rung == a.active_seconds + 1
  <2>1. [a EXCEPT !.active = FALSE, !.active_seconds = 0] \in Alarms
    BY DEF Alarms
  <2>2. [a EXCEPT !.active_seconds = rung] \in Alarms
    BY DEF Alarms
  <2> QED BY <2>1, <2>2 DEF CountRinging
<1> QED BY <1>2, <1>3, <1>4, <1>5, <1>6, <1>7

-----------------------------------------------------------------------------
\* Typing, of any specification that takes only steps of the alarm thread.
LEMMA StepsTyping == Init /\ [][Next]_vars => []TypeOK
<1>1. Init => TypeOK
  <2>1. Init => clock \in Clocks
    BY ClockAssumption DEF Init, Clocks
  <2>2. Init => alarm \in Alarms
    BY DEF Init, Alarms
  <2> QED BY <2>1, <2>2 DEF Init, TypeOK, Steps, Levels, Clocks, Alarms
<1>2. TypeOK /\ [Next]_vars => TypeOK'
  <2> SUFFICES ASSUME TypeOK, [Next]_vars PROVE TypeOK'
    OBVIOUS
  <2>0. clock \in Clocks /\ alarm \in Alarms
    BY DEF TypeOK, Clocks, Alarms
  <2>1. CASE alarm_gpio_init
    BY <2>1 DEF TypeOK, alarm_gpio_init, Goto, Steps
  <2>2. CASE update_clock
    <3>1. clock' \in Clocks
      BY <2>0, <2>2, LaterType DEF update_clock
    <3> QED BY <2>2, <3>1 DEF TypeOK, update_clock, Goto, Steps, Clocks
  <2>3. CASE alarm_check_buttons
    <3>1. alarm' \in Alarms
      <4>1. AfterSnooze \in Alarms
        BY <2>0, OperationsType DEF AfterSnooze
      <4>2. AfterMute \in Alarms
        BY <4>1, OperationsType DEF AfterMute
      <4>3. AfterEnable \in Alarms
        BY <4>2, OperationsType DEF AfterEnable
      <4> QED BY <2>3, <4>3 DEF alarm_check_buttons
    <3> QED BY <2>3, <3>1 DEF TypeOK, alarm_check_buttons, Goto, Steps, Alarms
  <2>4. CASE check_alarm_time
    <3>1. alarm' \in Alarms
      BY <2>0, <2>4, OperationsType DEF check_alarm_time
    <3> QED BY <2>4, <3>1 DEF TypeOK, check_alarm_time, Goto, Steps, Alarms
  <2>5. CASE update_snooze
    <3>1. alarm' \in Alarms
      BY <2>0, <2>5, OperationsType DEF update_snooze
    <3> QED BY <2>5, <3>1 DEF TypeOK, update_snooze, Goto, Steps, Alarms
  <2>6. CASE update_auto_mute
    <3>1. alarm' \in Alarms
      BY <2>0, <2>6, OperationsType DEF update_auto_mute
    <3> QED BY <2>6, <3>1 DEF TypeOK, update_auto_mute, Goto, Steps, Alarms
  <2>7. CASE k_sleep
    BY <2>7 DEF TypeOK, k_sleep, Goto, Steps
  <2>8. ASSUME NEW b \in Buttons, PinChange(b) PROVE TypeOK'
    BY <2>8 DEF TypeOK, PinChange, Levels
  <2>9. CASE UNCHANGED vars
    BY <2>9 DEF TypeOK, vars
  <2> QED BY <2>1, <2>2, <2>3, <2>4, <2>5, <2>6, <2>7, <2>8, <2>9 DEF Next, AlarmThread
<1> QED BY <1>1, <1>2, PTL

\* Every variable of alarm.c keeps its type; the clock is always a time of the
\* day, whatever the cascaded carries of update_clock do.
THEOREM Typing == Spec => []TypeOK
  BY StepsTyping, PTL DEF Spec

-----------------------------------------------------------------------------
\* Whatever a pass does to flags that agree, they still agree afterwards.
LEMMA OperationsAgree ==
  ASSUME NEW a \in Alarms, Agree(a)
  PROVE  /\ Agree(alarm_snooze(a))
         /\ Agree(alarm_mute(a))
         /\ Agree(alarm_toggle_enabled(a))
         /\ Agree(CheckTime(a))
         /\ Agree(CountSnooze(a))
         /\ Agree(CountRinging(a))
<1> USE PeriodAssumption DEF Alarms, Agree
<1>1. Agree(alarm_snooze(a))
  BY DEF alarm_snooze
<1>2. Agree(alarm_mute(a))
  BY DEF alarm_mute, Silenced
<1>3. Agree(alarm_toggle_enabled(a))
  BY DEF alarm_toggle_enabled, Silenced
<1>4. Agree(CheckTime(a))
  BY DEF CheckTime
<1>5. Agree(CountSnooze(a))
  BY DEF CountSnooze
<1>6. Agree(CountRinging(a))
  BY DEF CountRinging
<1> QED BY <1>1, <1>2, <1>3, <1>4, <1>5, <1>6

\* FlagsAlwaysAgree, of any specification that takes only steps of the alarm thread.
LEMMA StepsAgree == Init /\ [][Next]_vars => []FlagsAgree
<1>1. Init => FlagsAgree
  BY PeriodAssumption DEF Init, FlagsAgree, Agree
<1>2. TypeOK /\ FlagsAgree /\ [Next]_vars => FlagsAgree'
  <2> SUFFICES ASSUME TypeOK, Agree(alarm), [Next]_vars PROVE Agree(alarm')
    BY DEF FlagsAgree, Agree
  <2>0. alarm \in Alarms
    BY DEF TypeOK, Alarms
  <2>1. CASE alarm' = alarm
    BY <2>1
  <2>2. CASE alarm_check_buttons
    <3>1. AfterSnooze \in Alarms /\ Agree(AfterSnooze)
      BY <2>0, OperationsType, OperationsAgree DEF AfterSnooze
    <3>2. AfterMute \in Alarms /\ Agree(AfterMute)
      BY <3>1, OperationsType, OperationsAgree DEF AfterMute
    <3>3. Agree(AfterEnable)
      BY <3>2, OperationsType, OperationsAgree DEF AfterEnable
    <3> QED BY <2>2, <3>3 DEF alarm_check_buttons
  <2>3. CASE check_alarm_time
    BY <2>0, <2>3, OperationsAgree DEF check_alarm_time
  <2>4. CASE update_snooze
    BY <2>0, <2>4, OperationsAgree DEF update_snooze
  <2>5. CASE update_auto_mute
    BY <2>0, <2>5, OperationsAgree DEF update_auto_mute
  <2> QED
    BY <2>1, <2>2, <2>3, <2>4, <2>5
    DEF Next, AlarmThread, PinChange, alarm_gpio_init, update_clock, k_sleep, vars
<1> QED BY <1>1, <1>2, StepsTyping, PTL

\* The flags and counters of alarm.c describe one mode at every point of every
\* pass, in whatever order buttons, alarm time and expiring periods meet.
THEOREM FlagsAlwaysAgree == Spec => []FlagsAgree
  BY StepsAgree, PTL DEF Spec

-----------------------------------------------------------------------------
(***************************************************************************)
(* Arithmetic of positional numbers, for the time of the day.              *)
(***************************************************************************)

LEMMA TimesMonotone ==
  ASSUME NEW x \in Int, NEW y \in Int, NEW B \in Nat, x <= y
  PROVE  x * B <= y * B
<1>1. PICK k \in Nat : y = x + k
  <2>1. y = x + (y - x) /\ y - x \in Nat
    OBVIOUS
  <2> QED BY <2>1
<1>2. (x + k) * B = x * B + k * B
  BY SMT
<1>3. k * B >= 0
  BY SMT
<1>4. x * B \in Int /\ k * B \in Int
  OBVIOUS
<1> QED BY <1>1, <1>2, <1>3, <1>4

LEMMA TimesSuccessor ==
  ASSUME NEW x \in Int, NEW B \in Nat PROVE (x + 1) * B = x * B + B
  BY SMT

\* A leading digit below A and a last digit below B make a number below A * B.
LEMMA DigitsBound ==
  ASSUME NEW A \in Nat, NEW B \in Nat, NEW a \in 0 .. A - 1, NEW b \in 0 .. B - 1
  PROVE  a * B + b \in 0 .. A * B - 1
<1>1. (a + 1) * B <= A * B
  BY TimesMonotone
<1>2. (a + 1) * B = a * B + B
  BY TimesSuccessor
<1>3. 0 * B <= a * B
  BY TimesMonotone
<1>4. a * B \in Int /\ A * B \in Int
  OBVIOUS
<1> QED BY <1>1, <1>2, <1>3, <1>4, SMT

\* A number in base B has one leading part and one last digit.
LEMMA DigitsUnique ==
  ASSUME NEW B \in Nat, NEW a \in Int, NEW b \in 0 .. B - 1,
         NEW c \in Int, NEW d \in 0 .. B - 1, a * B + b = c * B + d
  PROVE  a = c /\ b = d
<1>0. a * B \in Int /\ c * B \in Int
  OBVIOUS
<1>1. CASE a < c
  <2>1. (a + 1) * B <= c * B
    BY <1>1, TimesMonotone
  <2>2. (a + 1) * B = a * B + B
    BY TimesSuccessor
  <2> QED BY <1>0, <2>1, <2>2
<1>2. CASE c < a
  <2>1. (c + 1) * B <= a * B
    BY <1>2, TimesMonotone
  <2>2. (c + 1) * B = c * B + B
    BY TimesSuccessor
  <2> QED BY <1>0, <2>1, <2>2
<1>3. CASE a = c
  BY <1>0, <1>3
<1> QED BY <1>1, <1>2, <1>3

DayLength == HoursPerDay * MinutesPerHour * SecondsPerMinute

LEMMA SecondOfDayBound ==
  ASSUME NEW c \in Clocks PROVE SecondOfDay(c) \in 0 .. DayLength - 1
<1>1. c.hour * MinutesPerHour + c.minute \in 0 .. HoursPerDay * MinutesPerHour - 1
  BY ClockAssumption, DigitsBound DEF Clocks
<1>2. HoursPerDay * MinutesPerHour \in Nat
  BY ClockAssumption, SMT
<1> QED BY <1>1, <1>2, ClockAssumption, DigitsBound DEF Clocks, SecondOfDay, DayLength

LEMMA SecondOfDayUnique ==
  ASSUME NEW c \in Clocks, NEW d \in Clocks, SecondOfDay(c) = SecondOfDay(d)
  PROVE  c = d
<1>1. c.hour * MinutesPerHour + c.minute = d.hour * MinutesPerHour + d.minute
      /\ c.second = d.second
  <2> DEFINE lead(x) == x.hour * MinutesPerHour + x.minute
  <2>1. lead(c) \in Int /\ lead(d) \in Int
    BY ClockAssumption DEF Clocks
  <2>2. lead(c) * SecondsPerMinute + c.second = lead(d) * SecondsPerMinute + d.second
    BY DEF SecondOfDay
  <2>3. /\ SecondsPerMinute \in Nat
        /\ c.second \in 0 .. SecondsPerMinute - 1
        /\ d.second \in 0 .. SecondsPerMinute - 1
    BY ClockAssumption DEF Clocks
  <2> HIDE DEF lead
  <2>4. lead(c) = lead(d) /\ c.second = d.second
    BY <2>1, <2>2, <2>3, DigitsUnique
  <2> QED BY <2>4 DEF lead
<1>2. c.hour = d.hour /\ c.minute = d.minute
  BY <1>1, ClockAssumption, DigitsUnique DEF Clocks
<1> QED BY <1>1, <1>2 DEF Clocks

\* update_clock counts the seconds of the day: the cascaded carries add one
\* second and start over after the last.
LEMMA LaterCounts ==
  ASSUME NEW c \in Clocks
  PROVE  SecondOfDay(Later(c)) = IF SecondOfDay(c) + 1 = DayLength
                                 THEN 0 ELSE SecondOfDay(c) + 1
<1> DEFINE lead == c.hour * MinutesPerHour + c.minute
<1>0. /\ lead \in Int
      /\ lead * SecondsPerMinute \in Int
      /\ DayLength \in Int
      /\ SecondOfDay(c) = lead * SecondsPerMinute + c.second
  BY ClockAssumption DEF Clocks, SecondOfDay, DayLength
<1>1. Later(c) \in Clocks /\ SecondOfDay(Later(c)) \in 0 .. DayLength - 1
  BY LaterType, SecondOfDayBound
<1>2. CASE c.second + 1 < SecondsPerMinute
  <2>1. /\ Later(c).hour = c.hour
        /\ Later(c).minute = c.minute
        /\ Later(c).second = c.second + 1
    BY <1>2, ClockAssumption DEF Clocks, Later
  <2>2. SecondOfDay(Later(c)) = lead * SecondsPerMinute + (c.second + 1)
    BY <2>1 DEF SecondOfDay
  <2> HIDE DEF lead
  <2>3. SecondOfDay(Later(c)) = SecondOfDay(c) + 1
    BY <1>0, <2>2, ClockAssumption DEF Clocks
  <2> QED BY <1>0, <1>1, <2>3
<1>3. CASE c.second + 1 = SecondsPerMinute
  <2>1. SecondOfDay(c) + 1 = (lead + 1) * SecondsPerMinute
    BY <1>0, <1>3, TimesSuccessor, ClockAssumption DEF Clocks
  <2>2. CASE c.minute + 1 < MinutesPerHour
    <3>1. /\ Later(c).hour = c.hour
          /\ Later(c).minute = c.minute + 1
          /\ Later(c).second = 0
      BY <1>3, <2>2, ClockAssumption DEF Clocks, Later
    <3>2. c.hour * MinutesPerHour + (c.minute + 1) = lead + 1
      BY ClockAssumption DEF Clocks
    <3>3. SecondOfDay(Later(c)) = (lead + 1) * SecondsPerMinute
      BY <3>1, <3>2, <1>0, ClockAssumption DEF SecondOfDay
    <3> QED BY <1>0, <1>1, <2>1, <3>3
  <2>3. CASE c.minute + 1 = MinutesPerHour
    <3>1. lead + 1 = (c.hour + 1) * MinutesPerHour
      <4>1. c.hour * MinutesPerHour \in Int
        BY ClockAssumption DEF Clocks
      <4> QED BY <2>3, <4>1, TimesSuccessor, ClockAssumption DEF Clocks
    <3>2. CASE c.hour + 1 < HoursPerDay
      <4>1. /\ Later(c).hour = c.hour + 1
            /\ Later(c).minute = 0
            /\ Later(c).second = 0
        BY <1>3, <2>3, <3>2, ClockAssumption DEF Clocks, Later
      <4>2. SecondOfDay(Later(c)) = (lead + 1) * SecondsPerMinute
        BY <4>1, <3>1, <1>0, ClockAssumption DEF SecondOfDay
      <4> QED BY <1>0, <1>1, <2>1, <4>2
    <3>3. CASE c.hour + 1 = HoursPerDay
      <4>1. /\ Later(c).hour = 0
            /\ Later(c).minute = 0
            /\ Later(c).second = 0
        BY <1>3, <2>3, <3>3, ClockAssumption DEF Clocks, Later
      <4>2. SecondOfDay(Later(c)) = 0
        BY <4>1, ClockAssumption DEF SecondOfDay
      <4>3. SecondOfDay(c) + 1 = DayLength
        BY <2>1, <3>1, <3>3 DEF DayLength
      <4> QED BY <4>2, <4>3
    <3> QED BY <3>2, <3>3, ClockAssumption DEF Clocks
  <2> QED BY <2>2, <2>3, ClockAssumption DEF Clocks
<1> QED BY <1>2, <1>3, ClockAssumption DEF Clocks

-----------------------------------------------------------------------------
\* a begins status s: nothing of it has elapsed
Begins(a, s) == Status(a) = s /\ Elapsed(a) = 0

\* What each function of the pass does to the status and to its elapsed time.
LEMMA OperationsStatus ==
  ASSUME NEW a \in Alarms, Agree(a)
  PROVE  /\ IF Status(a) = "ringing" THEN Begins(alarm_snooze(a), "snoozed")
            ELSE alarm_snooze(a) = a
         /\ IF Status(a) \in {"ringing", "snoozed"} THEN Begins(alarm_mute(a), "armed")
            ELSE alarm_mute(a) = a
         /\ Begins(alarm_toggle_enabled(a),
                   IF Status(a) = "disabled" THEN "armed" ELSE "disabled")
         /\ IF Status(a) = "armed" /\ AtAlarmTime THEN Begins(CheckTime(a), "ringing")
            ELSE CheckTime(a) = a
         /\ IF Status(a) # "snoozed" THEN CountSnooze(a) = a
            ELSE IF Elapsed(a) + 1 < SnoozeSeconds
            THEN Status(CountSnooze(a)) = "snoozed" /\ Elapsed(CountSnooze(a)) = Elapsed(a) + 1
            ELSE Elapsed(a) + 1 = SnoozeSeconds /\ Begins(CountSnooze(a), "ringing")
         /\ IF Status(a) # "ringing" THEN CountRinging(a) = a
            ELSE IF Elapsed(a) + 1 < AlarmAutoMuteSeconds
            THEN Status(CountRinging(a)) = "ringing" /\ Elapsed(CountRinging(a)) = Elapsed(a) + 1
            ELSE Elapsed(a) + 1 = AlarmAutoMuteSeconds /\ Begins(CountRinging(a), "armed")
<1> USE PeriodAssumption DEF Alarms, Agree, Status, Elapsed, Begins
<1>1. IF Status(a) = "ringing" THEN Begins(alarm_snooze(a), "snoozed")
      ELSE alarm_snooze(a) = a
  BY DEF alarm_snooze
<1>2. IF Status(a) \in {"ringing", "snoozed"} THEN Begins(alarm_mute(a), "armed")
      ELSE alarm_mute(a) = a
  BY DEF alarm_mute, Silenced
<1>3. Begins(alarm_toggle_enabled(a), IF Status(a) = "disabled" THEN "armed" ELSE "disabled")
  BY DEF alarm_toggle_enabled, Silenced
<1>4. IF Status(a) = "armed" /\ AtAlarmTime THEN Begins(CheckTime(a), "ringing")
      ELSE CheckTime(a) = a
  BY DEF CheckTime
<1>5. IF Status(a) # "snoozed" THEN CountSnooze(a) = a
      ELSE IF Elapsed(a) + 1 < SnoozeSeconds
      THEN Status(CountSnooze(a)) = "snoozed" /\ Elapsed(CountSnooze(a)) = Elapsed(a) + 1
      ELSE Elapsed(a) + 1 = SnoozeSeconds /\ Begins(CountSnooze(a), "ringing")
  BY DEF CountSnooze
<1>6. IF Status(a) # "ringing" THEN CountRinging(a) = a
      ELSE IF Elapsed(a) + 1 < AlarmAutoMuteSeconds
      THEN Status(CountRinging(a)) = "ringing" /\ Elapsed(CountRinging(a)) = Elapsed(a) + 1
      ELSE Elapsed(a) + 1 = AlarmAutoMuteSeconds /\ Begins(CountRinging(a), "armed")
  BY DEF CountRinging
<1> QED BY <1>1, <1>2, <1>3, <1>4, <1>5, <1>6

\* One poll of the buttons makes at most one change of status, even if it finds
\* several of them pressed.
LEMMA ButtonsStatus ==
  ASSUME alarm \in Alarms, Agree(alarm)
  PROVE  LET s == Status(alarm)
             Becomes(from, to) == s \in from /\ Begins(AfterEnable, to)
         IN  \/ AfterEnable = alarm
             \/ Becomes({"ringing"}, "snoozed")
             \/ Becomes({"ringing", "snoozed"}, "armed")
             \/ Becomes({"armed", "ringing", "snoozed"}, "disabled")
             \/ Becomes({"disabled"}, "armed")
<1> DEFINE s == Status(alarm)
<1>0. s \in {"disabled", "ringing", "snoozed", "armed"}
  BY DEF Status
<1>1. /\ AfterSnooze \in Alarms /\ Agree(AfterSnooze)
      /\ \/ AfterSnooze = alarm
         \/ s = "ringing" /\ Begins(AfterSnooze, "snoozed")
  BY OperationsType, OperationsAgree, OperationsStatus DEF AfterSnooze
<1>2. /\ AfterMute \in Alarms /\ Agree(AfterMute)
      /\ \/ AfterMute = alarm
         \/ s = "ringing" /\ Begins(AfterMute, "snoozed")
         \/ s \in {"ringing", "snoozed"} /\ Begins(AfterMute, "armed")
  <2>1. AfterMute \in Alarms /\ Agree(AfterMute)
    BY <1>1, OperationsType, OperationsAgree DEF AfterMute
  <2>2. CASE AfterMute = AfterSnooze
    BY <1>1, <2>2
  <2>3. CASE AfterMute # AfterSnooze
    <3>1. Status(AfterSnooze) \in {"ringing", "snoozed"} /\ Begins(AfterMute, "armed")
      BY <1>1, <2>3, OperationsStatus DEF AfterMute
    <3> QED BY <1>1, <2>1, <3>1 DEF Begins
  <2> QED BY <2>1, <2>2, <2>3
<1>3. \/ AfterEnable = AfterMute
      \/ Begins(AfterEnable, IF Status(AfterMute) = "disabled" THEN "armed" ELSE "disabled")
  BY <1>2, OperationsStatus DEF AfterEnable
<1> QED
  BY <1>0, <1>2, <1>3 DEF Begins

-----------------------------------------------------------------------------
\* KeepsPromise, of any specification that takes only steps of the alarm thread.
LEMMA StepsKeepPromise == Init /\ [][Next]_vars => ImplementsPromise
<1> DEFINE AlarmTimeOfDay == [hour |-> AlarmHour, minute |-> AlarmMinute, second |-> AlarmSecond]
<1>0. AlarmTimeOfDay \in Clocks
  BY AlarmTimeAssumption DEF Clocks
<1>1. Init => Promise!Init
  BY ClockAssumption DEF Init, Promise!Init, SecondOfDay, Status, Elapsed
<1>2. TypeOK /\ FlagsAgree /\ [Next]_vars => [Promise!Next]_(Promise!vars)
  <2> SUFFICES ASSUME TypeOK, Agree(alarm), [Next]_vars
               PROVE  [Promise!Next]_(Promise!vars)
    BY DEF FlagsAgree
  <2>0. clock \in Clocks /\ alarm \in Alarms
    BY DEF TypeOK, Clocks, Alarms
  <2>1. CASE alarm_gpio_init
    BY <2>1 DEF alarm_gpio_init, Goto, Promise!vars, AtAlarmTime
  <2>2. CASE update_clock
    <3>1. clock' \in Clocks
      BY <2>0, <2>2, LaterType DEF update_clock
    <3>2. SecondOfDay(clock') = IF SecondOfDay(clock) + 1 = DayLength
                                THEN 0 ELSE SecondOfDay(clock) + 1
      BY <2>0, <2>2, LaterCounts DEF update_clock
    <3>3. AtAlarmTime' <=> SecondOfDay(clock') = SecondOfDay(AlarmTimeOfDay)
      BY <1>0, <3>1, SecondOfDayUnique DEF AtAlarmTime
    <3>4. Promise!Tick
      BY <2>2, <3>2, <3>3 DEF update_clock, Goto, Promise!Tick, DayLength
    <3> QED BY <3>4 DEF Promise!Next
  <2>3. CASE alarm_check_buttons
    <3>1. /\ alarm' = AfterEnable
          /\ UNCHANGED <<SecondOfDay(clock), AtAlarmTime /\ pc \in {"alarm_check_buttons", "check_alarm_time"}>>
      BY <2>3 DEF alarm_check_buttons, Goto, AtAlarmTime
    <3>2. \/ AfterEnable = alarm
          \/ Status(alarm) \in {"ringing"} /\ Begins(AfterEnable, "snoozed")
          \/ Status(alarm) \in {"ringing", "snoozed"} /\ Begins(AfterEnable, "armed")
          \/ Status(alarm) \in {"armed", "ringing", "snoozed"} /\ Begins(AfterEnable, "disabled")
          \/ Status(alarm) \in {"disabled"} /\ Begins(AfterEnable, "armed")
      BY <2>0, ButtonsStatus
    <3>3. CASE AfterEnable = alarm
      BY <3>1, <3>3 DEF Promise!vars
    <3>4. CASE Status(alarm) \in {"ringing"} /\ Begins(AfterEnable, "snoozed")
      BY <3>1, <3>4 DEF Promise!Next, Promise!Snooze, Promise!Press, Begins
    <3>5. CASE Status(alarm) \in {"ringing", "snoozed"} /\ Begins(AfterEnable, "armed")
      BY <3>1, <3>5 DEF Promise!Next, Promise!Mute, Promise!Press, Begins
    <3>6. CASE Status(alarm) \in {"armed", "ringing", "snoozed"} /\ Begins(AfterEnable, "disabled")
      BY <3>1, <3>6 DEF Promise!Next, Promise!Disable, Promise!Press, Begins
    <3>7. CASE Status(alarm) \in {"disabled"} /\ Begins(AfterEnable, "armed")
      BY <3>1, <3>7 DEF Promise!Next, Promise!Enable, Promise!Press, Begins
    <3> QED BY <3>2, <3>3, <3>4, <3>5, <3>6, <3>7
  <2>4. CASE check_alarm_time
    <3>1. /\ pc = "check_alarm_time" /\ pc' = "update_snooze"
          /\ alarm' = CheckTime(alarm)
          /\ UNCHANGED clock
      BY <2>4 DEF check_alarm_time, Goto
    <3>2. CASE ~AtAlarmTime
      BY <2>0, <3>1, <3>2, OperationsStatus DEF Promise!vars, AtAlarmTime
    <3>3. CASE AtAlarmTime /\ Status(alarm) = "armed"
      <4>1. Begins(alarm', "ringing")
        BY <2>0, <3>1, <3>3, OperationsStatus
      <4> QED BY <3>1, <3>3, <4>1 DEF Promise!Next, Promise!Ring, Begins
    <3>4. CASE AtAlarmTime /\ Status(alarm) # "armed"
      <4>1. alarm' = alarm
        BY <2>0, <3>1, <3>4, OperationsStatus
      <4> QED BY <3>1, <3>4, <4>1 DEF Promise!Next, Promise!LetPass
    <3> QED BY <3>2, <3>3, <3>4
  <2>5. CASE update_snooze
    <3>1. /\ alarm' = CountSnooze(alarm)
          /\ UNCHANGED <<SecondOfDay(clock), AtAlarmTime /\ pc \in {"alarm_check_buttons", "check_alarm_time"}>>
      BY <2>5 DEF update_snooze, Goto, AtAlarmTime
    <3>2. CASE Status(alarm) # "snoozed"
      BY <2>0, <3>1, <3>2, OperationsStatus DEF Promise!vars
    <3>3. CASE Status(alarm) = "snoozed" /\ Elapsed(alarm) + 1 < SnoozeSeconds
      <4>1. Status(alarm') = "snoozed" /\ Elapsed(alarm') = Elapsed(alarm) + 1
        BY <2>0, <3>1, <3>3, OperationsStatus
      <4> QED BY <3>1, <3>3, <4>1 DEF Promise!Next, Promise!Age
    <3>4. CASE Status(alarm) = "snoozed" /\ ~(Elapsed(alarm) + 1 < SnoozeSeconds)
      <4>1. Elapsed(alarm) + 1 = SnoozeSeconds /\ Begins(alarm', "ringing")
        BY <2>0, <3>1, <3>4, OperationsStatus
      <4> QED BY <3>1, <3>4, <4>1 DEF Promise!Next, Promise!Expire, Begins
    <3> QED BY <3>2, <3>3, <3>4
  <2>6. CASE update_auto_mute
    <3>1. /\ alarm' = CountRinging(alarm)
          /\ UNCHANGED <<SecondOfDay(clock), AtAlarmTime /\ pc \in {"alarm_check_buttons", "check_alarm_time"}>>
      BY <2>6 DEF update_auto_mute, Goto, AtAlarmTime
    <3>2. CASE Status(alarm) # "ringing"
      BY <2>0, <3>1, <3>2, OperationsStatus DEF Promise!vars
    <3>3. CASE Status(alarm) = "ringing" /\ Elapsed(alarm) + 1 < AlarmAutoMuteSeconds
      <4>1. Status(alarm') = "ringing" /\ Elapsed(alarm') = Elapsed(alarm) + 1
        BY <2>0, <3>1, <3>3, OperationsStatus
      <4> QED BY <3>1, <3>3, <4>1 DEF Promise!Next, Promise!Age
    <3>4. CASE Status(alarm) = "ringing" /\ ~(Elapsed(alarm) + 1 < AlarmAutoMuteSeconds)
      <4>1. Elapsed(alarm) + 1 = AlarmAutoMuteSeconds /\ Begins(alarm', "armed")
        BY <2>0, <3>1, <3>4, OperationsStatus
      <4> QED BY <3>1, <3>4, <4>1 DEF Promise!Next, Promise!Expire, Begins
    <3> QED BY <3>2, <3>3, <3>4
  <2>7. CASE k_sleep
    BY <2>7 DEF k_sleep, Goto, Promise!vars, AtAlarmTime
  <2>8. ASSUME NEW b \in Buttons, PinChange(b) PROVE [Promise!Next]_(Promise!vars)
    BY <2>8 DEF PinChange, Promise!vars, AtAlarmTime
  <2>9. CASE UNCHANGED vars
    BY <2>9 DEF vars, Promise!vars, AtAlarmTime
  <2> QED BY <2>1, <2>2, <2>3, <2>4, <2>5, <2>6, <2>7, <2>8, <2>9 DEF Next, AlarmThread
<1> QED BY <1>1, <1>2, StepsTyping, StepsAgree, PTL DEF ImplementsPromise, Promise!Spec

\* The alarm thread implements AlarmPromise: the alarm rings exactly when its
\* time comes and it is armed, never passes it by undecided, and moves between
\* ringing, snoozed, armed and disabled only as promised.
THEOREM KeepsPromise == Spec => ImplementsPromise
  BY StepsKeepPromise, PTL DEF Spec

-----------------------------------------------------------------------------
\* The histories and the stores go beside the steps of the alarm thread.
LEMMA ThreadSteps == SInit /\ [][SNext]_svars => Init /\ [][Next]_vars
<1>1. SInit => Init
  BY DEF SInit, HInit
<1>2. [SNext]_svars => [Next]_vars
  <2> SUFFICES ASSUME [SNext]_svars PROVE [Next]_vars
    OBVIOUS
  <2>1. CASE Run
    BY <2>1 DEF Run, HAlarmThread, Next
  <2>2. ASSUME NEW v \in DOMAIN mem, Store(v) PROVE [Next]_vars
    BY <2>2 DEF Store, hvars, vars
  <2>3. ASSUME NEW b \in Buttons, SPinChange(b) PROVE [Next]_vars
    BY <2>3 DEF SPinChange, HPinChange, Next
  <2>4. CASE UNCHANGED svars
    BY <2>4 DEF svars, vars
  <2> QED BY <2>1, <2>2, <2>3, <2>4 DEF SNext, SAlarmThread
<1> QED BY <1>1, <1>2, PTL

\* The thread that others may preempt anywhere keeps its types, its flags agree, and
\* it keeps the promise, as the thread alone does.
THEOREM PreemptedThread == SSpec => []TypeOK /\ []FlagsAgree /\ ImplementsPromise
  BY ThreadSteps, StepsTyping, StepsAgree, StepsKeepPromise, PTL DEF SSpec

-----------------------------------------------------------------------------
HistoryType == fresh \in [Buttons -> BOOLEAN]

PressInv == HistoryType /\ NoPhantomPress

\* However presses and releases fall between the polls, the poll never acts on a
\* button that was not pressed since the last one: a poll leaves every last_* at the
\* level of its pin, so that only a press makes them differ again.
THEOREM EveryPressActsOnce == SSpec => []NoPhantomPress
<1>1. SInit => PressInv
  BY DEF SInit, HInit, Init, PressInv, HistoryType, NoPhantomPress, Pressed, Levels
<1>2. TypeOK /\ PressInv /\ [SNext]_svars => PressInv'
  <2> SUFFICES ASSUME TypeOK, PressInv, [SNext]_svars PROVE PressInv'
    OBVIOUS
  <2>0. /\ fresh \in [Buttons -> BOOLEAN]
        /\ pin \in [Buttons -> Levels] /\ last \in [Buttons -> Levels]
        /\ \A b \in Buttons : pin[b] = 0 /\ last[b] = 1 => fresh[b]
    BY DEF PressInv, HistoryType, NoPhantomPress, Pressed, TypeOK
  <2>1. CASE UNCHANGED <<pin, last, fresh>>
    BY <2>0, <2>1 DEF PressInv, HistoryType, NoPhantomPress, Pressed
  <2>2. CASE Run
    <3>1. fresh' = [b \in Buttons |-> fresh[b] /\ pc # "alarm_check_buttons"]
      BY <2>2 DEF Run, HAlarmThread
    <3>2. CASE pc = "alarm_check_buttons"
      <4>1. last' = pin /\ pin' = pin
        BY <2>2, <3>2 DEF Run, HAlarmThread, AlarmThread, alarm_check_buttons,
           alarm_gpio_init, update_clock, check_alarm_time, update_snooze,
           update_auto_mute, k_sleep, Goto
      <4> QED BY <3>1, <4>1 DEF PressInv, HistoryType, NoPhantomPress, Pressed
    <3>3. CASE pc # "alarm_check_buttons"
      <4>1. last' = last /\ pin' = pin
        BY <2>2, <3>3 DEF Run, HAlarmThread, AlarmThread, alarm_check_buttons,
           alarm_gpio_init, update_clock, check_alarm_time, update_snooze,
           update_auto_mute, k_sleep, Goto
      <4>2. fresh' = fresh
        BY <2>0, <3>1, <3>3
      <4> QED BY <2>0, <4>1, <4>2 DEF PressInv, HistoryType, NoPhantomPress, Pressed
    <3> QED BY <3>2, <3>3
  <2>3. ASSUME NEW v \in DOMAIN mem, Store(v) PROVE PressInv'
    BY <2>1, <2>3 DEF Store, hvars
  <2>4. ASSUME NEW b \in Buttons, SPinChange(b) PROVE PressInv'
    <3>1. /\ pin' = [pin EXCEPT ![b] = 1 - @]
          /\ fresh' = [fresh EXCEPT ![b] = @ \/ pin[b] = 1]
          /\ last' = last
      BY <2>4 DEF SPinChange, HPinChange, PinChange
    <3>2. fresh' \in [Buttons -> BOOLEAN]
      BY <2>0, <3>1
    <3>3. ASSUME NEW c \in Buttons, pin'[c] = 0, last'[c] = 1 PROVE fresh'[c]
      <4>1. CASE c = b
        <5>1. pin[b] = 1
          BY <2>0, <3>1, <3>3, <4>1 DEF Levels
        <5> QED BY <2>0, <3>1, <4>1, <5>1
      <4>2. CASE c # b
        <5>1. pin'[c] = pin[c] /\ fresh'[c] = fresh[c]
          BY <2>0, <3>1, <4>2
        <5> QED BY <2>0, <3>1, <3>3, <5>1
      <4> QED BY <4>1, <4>2
    <3> QED BY <3>2, <3>3 DEF PressInv, HistoryType, NoPhantomPress, Pressed
  <2>5. CASE UNCHANGED svars
    BY <2>1, <2>5 DEF svars
  <2> QED BY <2>2, <2>3, <2>4, <2>5 DEF SNext, SAlarmThread
<1>3. PressInv => NoPhantomPress
  BY DEF PressInv
<1> QED BY <1>1, <1>2, <1>3, PreemptedThread, PTL DEF SSpec

-----------------------------------------------------------------------------
(***************************************************************************)
(* StatusSeen.  Each flag in memory is that of the last operation that has *)
(* stored everything or that of the operation that is storing, and the     *)
(* flags of both agree; how they are mixed does not matter then.           *)
(***************************************************************************)
Images == [hour : Nat, minute : Nat, second : Nat,
           enabled : BOOLEAN, active : BOOLEAN, snoozed : BOOLEAN]

Flags == {"enabled", "active", "snoozed"}

\* The part of Agree that tells of the flags.
OneMode(m) == /\ m.active => m.enabled /\ ~m.snoozed
              /\ m.snoozed => m.enabled

StoresType == mem \in Images /\ stored \in Images /\ goals \in Seq(Images)

Mixed(from, to) == \A f \in Flags : mem[f] = from[f] \/ mem[f] = to[f]

StoresInv == /\ StoresType
             /\ OneMode(stored) /\ \A n \in DOMAIN goals : OneMode(goals[n])
             /\ Mixed(stored, IF goals = <<>> THEN stored ELSE Head(goals))

LEMMA MixedStatus ==
  ASSUME NEW x \in Images, NEW y \in Images, NEW m \in Images, OneMode(x), OneMode(y),
         \A f \in Flags : m[f] = x[f] \/ m[f] = y[f]
  PROVE  Status(m) \in {Status(x), Status(y), "armed"}
<1>1. /\ m.enabled = x.enabled \/ m.enabled = y.enabled
      /\ m.active = x.active \/ m.active = y.active
      /\ m.snoozed = x.snoozed \/ m.snoozed = y.snoozed
  BY DEF Flags
<1> QED BY <1>1 DEF Images, OneMode, Status

LEMMA ImageType ==
  ASSUME NEW c \in Clocks, NEW a \in Alarms, Agree(a)
  PROVE  Image(c, a) \in Images /\ OneMode(Image(c, a))
<1>1. c.hour \in Nat /\ c.minute \in Nat /\ c.second \in Nat
  BY ClockAssumption DEF Clocks
<1> QED BY <1>1 DEF Alarms, Agree, Image, Images, OneMode

\* A sequence of images that are each of one mode.
Sound(s) == s \in Seq(Images) /\ \A n \in DOMAIN s : OneMode(s[n])

LEMMA ChangeSound ==
  ASSUME NEW from, NEW to \in Images, OneMode(to)
  PROVE  Sound(Change(from, to))
  BY DEF Change, Sound

LEMMA ConcatSound ==
  ASSUME NEW s, NEW t, Sound(s), Sound(t)
  PROVE  Sound(s \o t)
  BY DEF Sound

LEMMA TailSound ==
  ASSUME NEW s, Sound(s), s # <<>>
  PROVE  Sound(Tail(s)) /\ Head(s) \in Images /\ OneMode(Head(s))
  BY DEF Sound

LEMMA StoresAlways == SSpec => []StoresInv
<1>1. SInit => StoresInv
  <2> SUFFICES ASSUME SInit PROVE StoresInv
    OBVIOUS
  <2>1. clock \in Clocks /\ alarm \in Alarms /\ Agree(alarm)
    BY ClockAssumption, PeriodAssumption DEF SInit, HInit, Init, Clocks, Alarms, Agree
  <2>2. mem \in Images /\ OneMode(mem) /\ stored = mem /\ goals = <<>>
    BY <2>1, ImageType DEF SInit
  <2> QED BY <2>2 DEF StoresInv, StoresType, Mixed
<1>2. TypeOK /\ FlagsAgree /\ TypeOK' /\ FlagsAgree' /\ StoresInv /\ [SNext]_svars => StoresInv'
  <2> SUFFICES ASSUME TypeOK, FlagsAgree, TypeOK', FlagsAgree', StoresInv, [SNext]_svars
               PROVE  StoresInv'
    OBVIOUS
  <2>0. mem \in Images /\ stored \in Images /\ OneMode(stored) /\ Sound(goals)
    BY DEF StoresInv, StoresType, Sound
  <2>1. CASE UNCHANGED <<mem, stored, goals>>
    BY <2>1 DEF StoresInv, StoresType, Mixed
  <2>2. CASE Run
    <3>1. goals = <<>> /\ goals' = Stores /\ UNCHANGED <<mem, stored>>
      BY <2>2 DEF Run
    <3>2. Sound(Stores)
      <4>1. CASE pc = "alarm_check_buttons"
        <5>0. clock \in Clocks /\ alarm \in Alarms /\ Agree(alarm)
          BY DEF TypeOK, Clocks, Alarms, FlagsAgree
        <5>1. AfterSnooze \in Alarms /\ Agree(AfterSnooze)
          BY <5>0, OperationsType, OperationsAgree DEF AfterSnooze
        <5>2. AfterMute \in Alarms /\ Agree(AfterMute)
          BY <5>1, OperationsType, OperationsAgree DEF AfterMute
        <5>3. AfterEnable \in Alarms /\ Agree(AfterEnable)
          BY <5>2, OperationsType, OperationsAgree DEF AfterEnable
        <5> DEFINE snoozed == Image(clock, AfterSnooze)
                   muted   == Image(clock, AfterMute)
                   toggled == Image(clock, AfterEnable)
        <5>4. /\ Sound(Change(mem, snoozed))
              /\ Sound(Change(snoozed, muted))
              /\ Sound(Change(muted, toggled))
          BY <5>0, <5>1, <5>2, <5>3, ImageType, ChangeSound
        <5>5. Stores = Change(mem, snoozed) \o Change(snoozed, muted) \o Change(muted, toggled)
          BY <4>1 DEF Stores
        <5> HIDE DEF snoozed, muted, toggled
        <5>6. Sound(Change(mem, snoozed) \o Change(snoozed, muted))
          BY <5>4, ConcatSound
        <5> QED BY <5>4, <5>5, <5>6, ConcatSound
      <4>2. CASE pc # "alarm_check_buttons"
        <5>1. clock' \in Clocks /\ alarm' \in Alarms /\ Agree(alarm')
          BY DEF TypeOK, Clocks, Alarms, FlagsAgree, Agree
        <5>2. Sound(Change(mem, Image(clock', alarm')))
          BY <5>1, ImageType, ChangeSound
        <5> QED BY <4>2, <5>2 DEF Stores
      <4> QED BY <4>1, <4>2
    <3>3. \A f \in Flags : mem[f] = stored[f]
      BY <3>1 DEF StoresInv, Mixed
    <3> QED BY <2>0, <3>1, <3>2, <3>3 DEF StoresInv, StoresType, Sound, Mixed
  <2>3. ASSUME NEW v \in DOMAIN mem, Store(v) PROVE StoresInv'
    <3> DEFINE goal == Head(goals)
    <3>1. /\ goals # <<>>
          /\ \/ mem' = [mem EXCEPT ![v] = goal[v]]
             \/ v \in ClockParts /\ mem' = [mem EXCEPT ![v] = Limit(v)]
          /\ IF mem' = goal THEN stored' = mem' /\ goals' = Tail(goals)
                            ELSE UNCHANGED <<stored, goals>>
      BY <2>3 DEF Store
    <3>2. goal \in Images /\ OneMode(goal) /\ Sound(Tail(goals))
      BY <2>0, <3>1, TailSound
    <3>3. \A f \in Flags : mem[f] = stored[f] \/ mem[f] = goal[f]
      BY <3>1 DEF StoresInv, Mixed
    <3> HIDE DEF goal
    <3>4. /\ mem' \in Images
          /\ \A f \in Flags : mem'[f] = mem[f] \/ mem'[f] = goal[f]
      <4>1. CASE mem' = [mem EXCEPT ![v] = goal[v]]
        <5>1. v \in ClockParts \cup Flags
          BY <2>0 DEF Images, ClockParts, Flags
        <5> QED BY <2>0, <3>2, <4>1, <5>1 DEF Images, ClockParts, Flags
      <4>2. CASE v \in ClockParts /\ mem' = [mem EXCEPT ![v] = Limit(v)]
        BY <2>0, <4>2, ClockAssumption DEF Images, ClockParts, Flags, Limit
      <4> QED BY <3>1, <4>1, <4>2
    <3>5. CASE mem' = goal
      <4>1. stored' = mem' /\ goals' = Tail(goals)
        BY <3>1, <3>5
      <4> QED BY <3>2, <3>4, <3>5, <4>1 DEF StoresInv, StoresType, Sound, Mixed
    <3>6. CASE mem' # goal
      <4>1. stored' = stored /\ goals' = goals
        BY <3>1, <3>6
      <4>2. \A f \in Flags : mem'[f] = stored[f] \/ mem'[f] = goal[f]
        BY <3>3, <3>4
      <4> QED BY <2>0, <3>1, <3>4, <4>1, <4>2 DEF StoresInv, StoresType, Sound, Mixed, goal
    <3> QED BY <3>5, <3>6
  <2>4. ASSUME NEW b \in Buttons, SPinChange(b) PROVE StoresInv'
    BY <2>1, <2>4 DEF SPinChange
  <2>5. CASE UNCHANGED svars
    BY <2>1, <2>5 DEF svars
  <2> QED BY <2>2, <2>3, <2>4, <2>5 DEF SNext, SAlarmThread
<1> QED BY <1>1, <1>2, PreemptedThread, PTL DEF SSpec

\* A view that preempts the alarm thread between any two of its stores shows a mode
\* that was, a mode that comes, or "armed", whatever buttons one poll acts upon: every
\* operation of alarm.c begins and ends with flags that agree.
THEOREM NoStrangeStatus == SSpec => []StatusSeen
<1>1. StoresInv => StatusSeen
  <2> SUFFICES ASSUME StoresInv PROVE StatusSeen
    OBVIOUS
  <2>0. mem \in Images /\ stored \in Images /\ OneMode(stored) /\ Sound(goals)
    BY DEF StoresInv, StoresType, Sound
  <2>1. CASE goals = <<>>
    <3>1. Status(mem) \in {Status(stored), "armed"}
      BY <2>0, <2>1, MixedStatus DEF StoresInv, Mixed
    <3> QED BY <3>1 DEF StatusSeen
  <2>2. CASE goals # <<>>
    <3>1. Head(goals) \in Images /\ OneMode(Head(goals))
      BY <2>0, <2>2, TailSound
    <3>2. Status(mem) \in {Status(stored), Status(Head(goals)), "armed"}
      BY <2>0, <2>2, <3>1, MixedStatus DEF StoresInv, Mixed
    <3> QED BY <2>2, <3>2 DEF StatusSeen
  <2> QED BY <2>1, <2>2
<1> QED BY <1>1, StoresAlways, PTL

-----------------------------------------------------------------------------
(***************************************************************************)
(* PeriodsAreKept.  The counter of the present mode is the number of       *)
(* seconds since it began, and one more from the moment the pass has       *)
(* counted until the thread has slept.                                     *)
(***************************************************************************)
Counted == \/ kind = "ringing" /\ pc = "k_sleep"
           \/ kind = "snoozed" /\ pc \in {"update_auto_mute", "k_sleep"}

PeriodInv == /\ kind = Kind(alarm)
             /\ since \in Nat
             /\ kind # "none" => Elapsed(alarm) = IF Counted THEN since + 1 ELSE since

\* The kind of a mode in terms of the status the display shows.
LEMMA KindStatus ==
  ASSUME NEW a \in Alarms, Agree(a)
  PROVE  /\ Kind(a) = IF Status(a) \in {"ringing", "snoozed"} THEN Status(a) ELSE "none"
         /\ Elapsed(a) \in Nat
         /\ Kind(a) # "none" => Elapsed(a) < MaxSince
  BY PeriodAssumption DEF Alarms, Agree, Kind, Status, Elapsed, MaxSince

\* However presses, alarm time and snoozes follow one another, a ringing and a snooze
\* that nobody interrupts last exactly one second less than ALARM_AUTO_MUTE_SECONDS
\* and SNOOZE_SECONDS, whatever these are.
THEOREM PeriodsLast == SSpec => PeriodsAreKept
<1> DEFINE Kept == /\ pc = "update_auto_mute" /\ kind = "ringing" /\ kind' # "ringing"
                         => since = AlarmAutoMuteSeconds - 1
                   /\ pc = "update_snooze" /\ kind = "snoozed" /\ kind' # "snoozed"
                         => since = SnoozeSeconds - 1
           Mode(s) == IF s \in {"ringing", "snoozed"} THEN s ELSE "none"
<1>1. SInit => PeriodInv
  BY DEF SInit, HInit, Init, PeriodInv, Kind
<1>2. TypeOK /\ FlagsAgree /\ TypeOK' /\ FlagsAgree' /\ PeriodInv /\ [SNext]_svars
        => PeriodInv' /\ [Kept]_hvars
  <2> SUFFICES ASSUME TypeOK, FlagsAgree, TypeOK', FlagsAgree', PeriodInv, [SNext]_svars
               PROVE  PeriodInv' /\ (Kept \/ UNCHANGED hvars)
    OBVIOUS
  <2>0. /\ alarm \in Alarms /\ Agree(alarm) /\ since \in Nat /\ kind = Mode(Status(alarm))
        /\ kind # "none" => Elapsed(alarm) = (IF Counted THEN since + 1 ELSE since)
        /\ kind # "none" => Elapsed(alarm) < MaxSince
    BY KindStatus DEF TypeOK, Alarms, FlagsAgree, PeriodInv
  <2>1. Kind(alarm') = Mode(Status(alarm'))
    BY KindStatus DEF TypeOK, Alarms, FlagsAgree, Agree
  <2>2. CASE UNCHANGED <<pc, alarm, since, kind>>
    BY <2>2 DEF PeriodInv, Counted
  <2>3. CASE Run
    <3>1. /\ AlarmThread
          /\ kind' = Mode(Status(alarm'))
          /\ since' = IF kind' # kind \/ kind' = "none" THEN 0
                      ELSE IF pc = "k_sleep" /\ since < MaxSince THEN since + 1 ELSE since
      BY <2>1, <2>3 DEF Run, HAlarmThread
    <3>2. since' \in Nat /\ kind' = Kind(alarm')
      BY <2>0, <2>1, <3>1
    <3>3. CASE alarm_gpio_init \/ update_clock
      <4>1. /\ alarm' = alarm /\ pc' \in {"update_clock", "alarm_check_buttons"}
            /\ pc \in {"alarm_gpio_init", "update_clock"}
        BY <3>3 DEF alarm_gpio_init, update_clock, Goto
      <4> QED BY <2>0, <3>1, <3>2, <4>1 DEF PeriodInv, Counted
    <3>4. CASE alarm_check_buttons
      <4>1. pc = "alarm_check_buttons" /\ pc' = "check_alarm_time" /\ alarm' = AfterEnable
        BY <3>4 DEF alarm_check_buttons, Goto
      <4>2. alarm' = alarm \/ (Elapsed(alarm') = 0 /\ (kind' # kind \/ kind' = "none"))
        BY <2>0, <3>1, <4>1, ButtonsStatus DEF Begins
      <4> QED BY <2>0, <3>1, <3>2, <4>1, <4>2 DEF PeriodInv, Counted
    <3>5. CASE check_alarm_time
      <4>1. pc = "check_alarm_time" /\ pc' = "update_snooze" /\ alarm' = CheckTime(alarm)
        BY <3>5 DEF check_alarm_time, Goto
      <4>2. alarm' = alarm \/ (Elapsed(alarm') = 0 /\ kind' # kind)
        BY <2>0, <3>1, <4>1, OperationsStatus DEF Begins
      <4> QED BY <2>0, <3>1, <3>2, <4>1, <4>2 DEF PeriodInv, Counted
    <3>6. CASE update_snooze
      <4>1. pc = "update_snooze" /\ pc' = "update_auto_mute" /\ alarm' = CountSnooze(alarm)
        BY <3>6 DEF update_snooze, Goto
      <4>2. CASE kind # "snoozed"
        <5>1. alarm' = alarm
          BY <2>0, <4>1, <4>2, OperationsStatus
        <5> QED BY <2>0, <3>1, <3>2, <4>1, <4>2, <5>1 DEF PeriodInv, Counted
      <4>3. CASE kind = "snoozed" /\ since + 1 < SnoozeSeconds
        <5>1. Status(alarm') = "snoozed" /\ Elapsed(alarm') = since + 1
          BY <2>0, <4>1, <4>3, OperationsStatus DEF Counted
        <5> QED BY <3>1, <3>2, <4>1, <4>3, <5>1 DEF PeriodInv, Counted
      <4>4. CASE kind = "snoozed" /\ ~(since + 1 < SnoozeSeconds)
        <5>1. Elapsed(alarm) = since /\ Status(alarm) = "snoozed"
          BY <2>0, <4>1, <4>4 DEF Counted
        <5>2. Elapsed(alarm) + 1 = SnoozeSeconds /\ Begins(alarm', "ringing")
          BY <2>0, <4>1, <4>4, <5>1, OperationsStatus
        <5>3. since = SnoozeSeconds - 1
          BY <2>0, <5>1, <5>2
        <5> QED BY <3>1, <3>2, <4>1, <4>4, <5>2, <5>3 DEF PeriodInv, Counted, Begins
      <4> QED BY <4>2, <4>3, <4>4
    <3>7. CASE update_auto_mute
      <4>1. pc = "update_auto_mute" /\ pc' = "k_sleep" /\ alarm' = CountRinging(alarm)
        BY <3>7 DEF update_auto_mute, Goto
      <4>2. CASE kind # "ringing"
        <5>1. alarm' = alarm
          BY <2>0, <4>1, <4>2, OperationsStatus
        <5> QED BY <2>0, <3>1, <3>2, <4>1, <4>2, <5>1 DEF PeriodInv, Counted
      <4>3. CASE kind = "ringing" /\ since + 1 < AlarmAutoMuteSeconds
        <5>1. Status(alarm') = "ringing" /\ Elapsed(alarm') = since + 1
          BY <2>0, <4>1, <4>3, OperationsStatus DEF Counted
        <5> QED BY <3>1, <3>2, <4>1, <4>3, <5>1 DEF PeriodInv, Counted
      <4>4. CASE kind = "ringing" /\ ~(since + 1 < AlarmAutoMuteSeconds)
        <5>1. Elapsed(alarm) = since /\ Status(alarm) = "ringing"
          BY <2>0, <4>1, <4>4 DEF Counted
        <5>2. Elapsed(alarm) + 1 = AlarmAutoMuteSeconds /\ Begins(alarm', "armed")
          BY <2>0, <4>1, <4>4, <5>1, OperationsStatus
        <5>3. since = AlarmAutoMuteSeconds - 1
          BY <2>0, <5>1, <5>2
        <5> QED BY <3>1, <3>2, <4>1, <4>4, <5>2, <5>3 DEF PeriodInv, Counted, Begins
      <4> QED BY <4>2, <4>3, <4>4
    <3>8. CASE k_sleep
      <4>1. pc = "k_sleep" /\ pc' = "update_clock" /\ alarm' = alarm
        BY <3>8 DEF k_sleep, Goto
      <4>2. kind # "none" => since < MaxSince
        BY <2>0, <4>1, PeriodAssumption DEF Counted, MaxSince
      <4> QED BY <2>0, <3>1, <3>2, <4>1, <4>2 DEF PeriodInv, Counted
    <3> QED BY <3>1, <3>3, <3>4, <3>5, <3>6, <3>7, <3>8 DEF AlarmThread
  <2>4. ASSUME NEW v \in DOMAIN mem, Store(v) PROVE PeriodInv' /\ (Kept \/ UNCHANGED hvars)
    BY <2>2, <2>4 DEF Store, hvars
  <2>5. ASSUME NEW b \in Buttons, SPinChange(b) PROVE PeriodInv' /\ (Kept \/ UNCHANGED hvars)
    BY <2>2, <2>5 DEF SPinChange, HPinChange, PinChange
  <2>6. CASE UNCHANGED svars
    BY <2>2, <2>6 DEF svars
  <2> QED BY <2>3, <2>4, <2>5, <2>6 DEF SNext, SAlarmThread
<1> QED BY <1>1, <1>2, PreemptedThread, PTL DEF SSpec, PeriodsAreKept

-----------------------------------------------------------------------------
(***************************************************************************)
(* ClockSeen.  While update_clock stores, each part of the clock in memory *)
(* is that of the time before, that of the time after, or at its limit on  *)
(* its way to 0.                                                           *)
(***************************************************************************)
Between(x, old, new, limit) == x = old \/ x = new \/ (new = 0 /\ old # 0 /\ x = limit)

Halfway(m, old, new) ==
    /\ Between(m.hour, old.hour, new.hour, HoursPerDay)
    /\ Between(m.minute, old.minute, new.minute, MinutesPerHour)
    /\ Between(m.second, old.second, new.second, SecondsPerMinute)

SameTime(m, c) == m.hour = c.hour /\ m.minute = c.minute /\ m.second = c.second

UpdatingClock == pc = "alarm_check_buttons" /\ goals # <<>>

ClockInv ==
    /\ goals = <<>> => mem = stored
    /\ UpdatingClock => Len(goals) = 1
    /\ \A n \in DOMAIN goals : SameTime(goals[n], clock)
    /\ ~UpdatingClock => SameTime(mem, clock) /\ SameTime(stored, clock)
    /\ UpdatingClock => \E old \in Clocks : clock = Later(old) /\ Halfway(mem, old, clock)

\* The seconds of the day that h, m and s stand for, in or out of their ranges.
LEMMA PlaceValues ==
  ASSUME NEW h \in Nat, NEW m \in Nat, NEW s \in Nat,
         NEW M \in Nat \ {0}, NEW S \in Nat \ {0}
  PROVE  (h * M + m) * S + s = h * (M * S) + m * S + s
  BY SMT

\* Three parts halfway from a time to the next are off by as much as the carry that is
\* under way counts.
LEMMA HalfwayDistance ==
  ASSUME NEW old \in Clocks, NEW m \in Images, Halfway(m, old, Later(old))
  PROVE  LET new  == Later(old)
             off  == Distance(SecondOfDay(m), SecondOfDay(new))
             hour == MinutesPerHour * SecondsPerMinute
             far  == hour + SecondsPerMinute
         IN  /\ new.minute # 0 \/ new.second # 0 => off <= SecondsPerMinute
             /\ off <= far \/ Distance(off, HoursPerDay * hour) <= far
<1> DEFINE new == Later(old)
           M == MinutesPerHour
           S == SecondsPerMinute
           P == M * S
<1>0. /\ new \in Clocks
      /\ M \in Nat \ {0} /\ S \in Nat \ {0} /\ HoursPerDay \in Nat \ {0}
      /\ old.hour \in Nat /\ old.minute \in Nat /\ old.second \in Nat
      /\ new.hour \in Nat /\ new.minute \in Nat /\ new.second \in Nat
      /\ m.hour \in Nat /\ m.minute \in Nat /\ m.second \in Nat
  BY LaterType, ClockAssumption DEF Clocks, Images
<1>1. P \in Nat /\ P >= S
  <2>1. P \in Nat
    BY <1>0
  <2>2. 1 * S <= M * S
    BY <1>0, TimesMonotone
  <2> QED BY <1>0, <2>1, <2>2
<1>2. /\ SecondOfDay(m) = m.hour * P + m.minute * S + m.second
      /\ SecondOfDay(new) = new.hour * P + new.minute * S + new.second
  BY <1>0, PlaceValues DEF SecondOfDay
<1>3. CASE new.second # 0
  <2>1. /\ new.hour = old.hour /\ new.minute = old.minute /\ new.second = old.second + 1
    BY <1>3, ClockAssumption DEF Clocks, Later
  <2>2. m.hour = new.hour /\ m.minute = new.minute /\ m.second \in {new.second - 1, new.second}
    BY <1>0, <1>3, <2>1 DEF Halfway, Between
  <2>3. new.hour * P \in Int /\ new.minute * S \in Int
    BY <1>0, <1>1
  <2>4. Distance(SecondOfDay(m), SecondOfDay(new)) \in {0, 1}
    <3> HIDE DEF P
    <3>1. SecondOfDay(m) = SecondOfDay(new) - 1 \/ SecondOfDay(m) = SecondOfDay(new)
      BY <1>0, <1>2, <2>2, <2>3
    <3>2. SecondOfDay(new) \in Int
      BY <1>0, <1>2, <2>3
    <3> QED BY <3>1, <3>2 DEF Distance
  <2> QED BY <1>0, <1>1, <2>4
<1>4. CASE new.second = 0 /\ new.minute # 0
  <2>1. /\ new.hour = old.hour /\ new.minute = old.minute + 1 /\ old.second = S - 1
    BY <1>4, ClockAssumption DEF Clocks, Later
  <2>2. /\ m.hour = new.hour /\ m.minute \in {new.minute - 1, new.minute}
        /\ m.second \in {0, S - 1, S}
    BY <1>0, <1>4, <2>1 DEF Halfway, Between
  <2>3. new.hour * P \in Int /\ old.minute * S \in Int /\ new.minute * S = old.minute * S + S
    BY <1>0, <1>1, <2>1, TimesSuccessor
  <2>4. Distance(SecondOfDay(m), SecondOfDay(new)) <= S
    <3> HIDE DEF P
    <3>1. \/ m.minute * S = new.minute * S - S
          \/ m.minute * S = new.minute * S
      BY <1>0, <2>1, <2>2, <2>3
    <3>2. SecondOfDay(new) \in Int /\ new.minute * S \in Int
      BY <1>0, <1>2, <2>3
    <3>3. /\ SecondOfDay(m) \in Int
          /\ SecondOfDay(m) >= SecondOfDay(new) - S
          /\ SecondOfDay(m) <= SecondOfDay(new) + S
      BY <1>0, <1>2, <1>4, <2>2, <2>3, <3>1, <3>2
    <3> QED BY <1>0, <3>2, <3>3 DEF Distance
  <2>5. Distance(SecondOfDay(m), SecondOfDay(new)) <= P + S
    <3> HIDE DEF P
    <3>1. Distance(SecondOfDay(m), SecondOfDay(new)) \in Int
      BY <1>0, <1>2, <2>3, PlaceValues DEF Distance, SecondOfDay
    <3> QED BY <1>0, <1>1, <2>4, <3>1
  <2> QED BY <1>4, <2>4, <2>5 DEF P
<1>5. CASE new.second = 0 /\ new.minute = 0
  <2>1. old.second = S - 1 /\ old.minute = M - 1
    BY <1>5, ClockAssumption DEF Clocks, Later
  <2>2. m.minute \in {0, M - 1, M} /\ m.second \in {0, S - 1, S}
    BY <1>0, <1>5, <2>1 DEF Halfway, Between
  <2> DEFINE low == m.minute * S + m.second
  <2>3. low \in Int /\ 0 <= low /\ low <= P + S
    <3>1. 0 * S = 0 /\ (M - 1) * S + S = M * S
      BY <1>0, TimesSuccessor
    <3>2. (M - 1) * S \in Int
      BY <1>0
    <3>3. m.minute * S \in {0, P - S, P}
      BY <1>0, <1>1, <2>2, <3>1, <3>2
    <3> HIDE DEF P
    <3> QED BY <1>0, <1>1, <2>2, <3>3
  <2>4. SecondOfDay(m) = m.hour * P + low /\ SecondOfDay(new) = new.hour * P
    <3>1. m.hour * P \in Int /\ new.hour * P \in Int /\ m.minute * S \in Int /\ 0 * S = 0
      BY <1>0, <1>1
    <3> HIDE DEF P
    <3> QED BY <1>0, <1>2, <1>5, <3>1
  <2> HIDE DEF low
  <2>5. CASE new.hour # 0
    <3>1. new.hour = old.hour + 1
      BY <1>5, <2>5, ClockAssumption DEF Clocks, Later
    <3>2. m.hour \in {new.hour - 1, new.hour}
      BY <1>0, <2>5, <3>1 DEF Halfway, Between
    <3>3. old.hour * P \in Int /\ new.hour * P = old.hour * P + P
      BY <1>0, <1>1, <3>1, TimesSuccessor
    <3> HIDE DEF P
    <3>4. m.hour * P = new.hour * P - P \/ m.hour * P = new.hour * P
      <4>1. CASE m.hour = old.hour
        BY <1>0, <1>1, <3>3, <4>1
      <4>2. CASE m.hour = new.hour
        BY <4>2
      <4> QED BY <1>0, <3>1, <3>2, <4>1, <4>2
    <3>5. SecondOfDay(m) = SecondOfDay(new) + low - P \/ SecondOfDay(m) = SecondOfDay(new) + low
      BY <1>0, <1>1, <2>3, <2>4, <3>3, <3>4
    <3>6. SecondOfDay(new) \in Int
      BY <1>1, <2>4, <3>3
    <3>7. Distance(SecondOfDay(m), SecondOfDay(new)) <= P + S
      BY <1>0, <1>1, <2>3, <3>5, <3>6 DEF Distance
    <3> QED BY <1>5, <3>7 DEF P
  <2>6. CASE new.hour = 0
    <3>1. old.hour = HoursPerDay - 1
      BY <1>5, <2>1, <2>6, ClockAssumption DEF Clocks, Later
    <3>2. m.hour \in {0, HoursPerDay - 1, HoursPerDay}
      BY <1>0, <2>6, <3>1 DEF Halfway, Between
    <3> DEFINE day == HoursPerDay * P
    <3>3. /\ day \in Int /\ (HoursPerDay - 1) * P = day - P /\ 0 * P = 0 /\ day >= P
      <4>1. (HoursPerDay - 1) * P \in Int /\ (HoursPerDay - 1 + 1) * P = (HoursPerDay - 1) * P + P
        BY <1>0, <1>1, TimesSuccessor
      <4>2. HoursPerDay - 1 + 1 = HoursPerDay
        BY <1>0
      <4>3. 1 * P <= HoursPerDay * P
        BY <1>0, <1>1, TimesMonotone
      <4> HIDE DEF P
      <4>4. day \in Int
        BY <1>0, <1>1
      <4> QED BY <1>1, <4>1, <4>2, <4>3, <4>4
    <3> HIDE DEF P
    <3>4. m.hour * P \in {0, day - P, day}
      BY <3>2, <3>3
    <3> HIDE DEF day
    <3>5. SecondOfDay(new) = 0 /\ SecondOfDay(m) \in {low, day - P + low, day + low}
      BY <1>1, <2>3, <2>4, <2>6, <3>3, <3>4
    <3>6. /\ Distance(SecondOfDay(m), SecondOfDay(new)) = SecondOfDay(m)
          /\ SecondOfDay(m) \in Int
      BY <1>1, <2>3, <3>3, <3>5 DEF Distance
    <3>7. SecondOfDay(m) <= P + S \/ Distance(SecondOfDay(m), day) <= P + S
      BY <1>0, <1>1, <2>3, <3>3, <3>5 DEF Distance
    <3> QED BY <1>5, <3>6, <3>7 DEF P, day
  <2> QED BY <2>5, <2>6
<1> QED BY <1>3, <1>4, <1>5

Timed(s, c) == \A n \in DOMAIN s : SameTime(s[n], c)

LEMMA ConcatTimed ==
  ASSUME NEW s, NEW t, NEW c, Sound(s), Sound(t), Timed(s, c), Timed(t, c)
  PROVE  Timed(s \o t, c)
<1> SUFFICES ASSUME NEW n \in DOMAIN (s \o t) PROVE SameTime((s \o t)[n], c)
  BY DEF Timed
<1>1. s \in Seq(Images) /\ t \in Seq(Images)
  BY DEF Sound
<1>2. n \in 1 .. Len(s) + Len(t)
  BY <1>1
<1>3. CASE n <= Len(s)
  BY <1>1, <1>2, <1>3 DEF Timed
<1>4. CASE ~(n <= Len(s))
  <2>1. n - Len(s) \in DOMAIN t /\ (s \o t)[n] = t[n - Len(s)]
    BY <1>1, <1>2, <1>4
  <2> QED BY <2>1 DEF Timed
<1> QED BY <1>3, <1>4

\* Every step but that of update_clock leaves the time as it is in all that it stores.
LEMMA StoresTimed ==
  ASSUME TypeOK, FlagsAgree, TypeOK', FlagsAgree',
         pc = "alarm_check_buttons" => UNCHANGED clock
  PROVE  Sound(Stores) /\ Timed(Stores, clock')
<1>1. CASE pc = "alarm_check_buttons"
  <2>0. clock \in Clocks /\ alarm \in Alarms /\ Agree(alarm) /\ clock' = clock
    BY <1>1 DEF TypeOK, Clocks, Alarms, FlagsAgree
  <2>1. AfterSnooze \in Alarms /\ Agree(AfterSnooze)
    BY <2>0, OperationsType, OperationsAgree DEF AfterSnooze
  <2>2. AfterMute \in Alarms /\ Agree(AfterMute)
    BY <2>1, OperationsType, OperationsAgree DEF AfterMute
  <2>3. AfterEnable \in Alarms /\ Agree(AfterEnable)
    BY <2>2, OperationsType, OperationsAgree DEF AfterEnable
  <2> DEFINE snoozed == Image(clock, AfterSnooze)
             muted   == Image(clock, AfterMute)
             toggled == Image(clock, AfterEnable)
  <2>4. /\ Sound(Change(mem, snoozed))
        /\ Sound(Change(snoozed, muted))
        /\ Sound(Change(muted, toggled))
    BY <2>0, <2>1, <2>2, <2>3, ImageType, ChangeSound
  <2>5. /\ Timed(Change(mem, snoozed), clock)
        /\ Timed(Change(snoozed, muted), clock)
        /\ Timed(Change(muted, toggled), clock)
    BY DEF Timed, Change, Image, SameTime
  <2>6. Stores = Change(mem, snoozed) \o Change(snoozed, muted) \o Change(muted, toggled)
    BY <1>1 DEF Stores
  <2> HIDE DEF snoozed, muted, toggled
  <2>7. /\ Sound(Change(mem, snoozed) \o Change(snoozed, muted))
        /\ Timed(Change(mem, snoozed) \o Change(snoozed, muted), clock)
    BY <2>4, <2>5, ConcatSound, ConcatTimed
  <2> QED BY <2>0, <2>4, <2>5, <2>6, <2>7, ConcatSound, ConcatTimed
<1>2. CASE pc # "alarm_check_buttons"
  <2>1. clock' \in Clocks /\ alarm' \in Alarms /\ Agree(alarm')
    BY DEF TypeOK, Clocks, Alarms, FlagsAgree, Agree
  <2>2. Sound(Change(mem, Image(clock', alarm')))
    BY <2>1, ImageType, ChangeSound
  <2>3. Timed(Change(mem, Image(clock', alarm')), clock')
    BY DEF Timed, Change, Image, SameTime
  <2> QED BY <1>2, <2>2, <2>3 DEF Stores
<1> QED BY <1>1, <1>2

\* One store of update_clock leaves memory halfway to the new time.
LEMMA StoreHalfway ==
  ASSUME NEW old \in Clocks, NEW c \in Clocks, NEW m \in Images, NEW goal \in Images,
         SameTime(goal, c), Halfway(m, old, c), NEW v \in ClockParts, m[v] # goal[v],
         NEW x, x = goal[v] \/ (goal[v] = 0 /\ m[v] # Limit(v) /\ x = Limit(v))
  PROVE  Halfway([m EXCEPT ![v] = x], old, c)
<1>1. CASE v = "hour"
  BY <1>1 DEF Images, Clocks, SameTime, Halfway, Between, Limit
<1>2. CASE v = "minute"
  BY <1>2 DEF Images, Clocks, SameTime, Halfway, Between, Limit
<1>3. CASE v = "second"
  BY <1>3 DEF Images, Clocks, SameTime, Halfway, Between, Limit
<1> QED BY <1>1, <1>2, <1>3 DEF ClockParts

LEMMA ClockAlways == SSpec => []ClockInv
<1>1. SInit => ClockInv
  BY DEF SInit, ClockInv, UpdatingClock, SameTime, Image
<1>2. (TypeOK /\ FlagsAgree /\ StoresInv /\ TypeOK' /\ FlagsAgree' /\ ClockInv /\ [SNext]_svars)
        => ClockInv'
  <2> SUFFICES ASSUME TypeOK, FlagsAgree, StoresInv, TypeOK', FlagsAgree', ClockInv, [SNext]_svars
               PROVE  ClockInv'
    OBVIOUS
  <2>0. mem \in Images /\ stored \in Images /\ Sound(goals) /\ clock \in Clocks
    BY DEF StoresInv, StoresType, Sound, TypeOK, Clocks
  <2>1. CASE UNCHANGED <<pc, clock, mem, stored, goals>>
    BY <2>1 DEF ClockInv, UpdatingClock
  <2>2. CASE Run
    <3>1. /\ goals = <<>> /\ goals' = Stores /\ UNCHANGED <<mem, stored>> /\ AlarmThread
          /\ SameTime(mem, clock) /\ mem = stored
      BY <2>2 DEF Run, HAlarmThread, ClockInv, UpdatingClock
    <3>2. CASE update_clock
      <4>1. pc = "update_clock" /\ pc' = "alarm_check_buttons" /\ clock' = Later(clock)
        BY <3>2 DEF update_clock, Goto
      <4>2. Timed(goals', clock')
        BY <3>1, <4>1, StoresTimed
      <4>3. goals' = Change(mem, Image(clock', alarm'))
        BY <3>1, <4>1 DEF Stores
      <4>4. CASE Image(clock', alarm') = mem
        <5>1. goals' = <<>> /\ SameTime(mem, clock')
          BY <4>3, <4>4 DEF Change, Image, SameTime
        <5> QED BY <3>1, <5>1 DEF ClockInv, UpdatingClock
      <4>5. CASE Image(clock', alarm') # mem
        <5>1. goals' = <<Image(clock', alarm')>>
          BY <4>3, <4>5 DEF Change
        <5>2. Len(goals') = 1 /\ goals' # <<>>
          BY <5>1
        <5>3. Halfway(mem, clock, clock')
          BY <3>1 DEF SameTime, Halfway, Between
        <5> QED BY <2>0, <3>1, <4>1, <4>2, <5>2, <5>3 DEF ClockInv, UpdatingClock, Timed
      <4> QED BY <4>4, <4>5
    <3>3. CASE ~update_clock
      <4>1. clock' = clock /\ pc' # "alarm_check_buttons"
        BY <3>1, <3>3 DEF AlarmThread, alarm_gpio_init, alarm_check_buttons, check_alarm_time,
           update_snooze, update_auto_mute, k_sleep, Goto
      <4>2. Timed(goals', clock)
        BY <3>1, <4>1, StoresTimed
      <4> QED BY <3>1, <4>1, <4>2 DEF ClockInv, UpdatingClock, Timed
    <3> QED BY <3>2, <3>3
  <2>3. ASSUME NEW v \in DOMAIN mem, Store(v) PROVE ClockInv'
    <3> DEFINE goal == Head(goals)
    <3>1. /\ goals # <<>> /\ mem[v] # goal[v]
          /\ \/ mem' = [mem EXCEPT ![v] = goal[v]]
             \/ /\ v \in ClockParts /\ goal[v] = 0 /\ mem[v] # Limit(v)
                /\ mem' = [mem EXCEPT ![v] = Limit(v)]
          /\ IF mem' = goal THEN stored' = mem' /\ goals' = Tail(goals)
                            ELSE UNCHANGED <<stored, goals>>
          /\ UNCHANGED <<pc, clock>>
      BY <2>3 DEF Store, hvars
    <3>2. goal \in Images /\ SameTime(goal, clock)
      <4>1. 1 \in DOMAIN goals /\ goal = goals[1]
        BY <2>0, <3>1 DEF Sound
      <4> QED BY <2>0, <3>1, <4>1, TailSound DEF ClockInv
    <3>3. Timed(Tail(goals), clock) /\ Sound(Tail(goals))
      <4>1. \A n \in DOMAIN Tail(goals) : n + 1 \in DOMAIN goals /\ Tail(goals)[n] = goals[n + 1]
        BY <2>0, <3>1 DEF Sound
      <4> QED BY <2>0, <3>1, <4>1, TailSound DEF ClockInv, Timed
    <3> HIDE DEF goal
    <3>4. v \in ClockParts \cup Flags
      BY <2>0 DEF Images, ClockParts, Flags
    <3>5. CASE ~UpdatingClock
      <4>1. SameTime(mem, clock) /\ SameTime(stored, clock)
        BY <3>5 DEF ClockInv
      <4>2. v \in Flags
        BY <2>0, <3>1, <3>2, <3>4, <4>1 DEF ClockParts, SameTime, Images
      <4>3. SameTime(mem', clock)
        BY <2>0, <3>1, <4>1, <4>2 DEF SameTime, Images, Flags, ClockParts
      <4>4. pc # "alarm_check_buttons"
        BY <3>1, <3>5 DEF UpdatingClock
      <4>5. CASE mem' = goal
        BY <3>1, <3>3, <4>3, <4>4, <4>5 DEF ClockInv, UpdatingClock, Timed
      <4>6. CASE mem' # goal
        <5>1. stored' = stored /\ goals' = goals
          BY <3>1, <4>6
        <5> QED BY <3>1, <4>1, <4>3, <4>4, <5>1 DEF ClockInv, UpdatingClock
      <4> QED BY <4>5, <4>6
    <3>6. CASE UpdatingClock
      <4>1. PICK old \in Clocks : clock = Later(old) /\ Halfway(mem, old, clock)
        BY <3>6 DEF ClockInv
      <4>2. Halfway(mem', old, clock)
        <5>1. CASE v \in Flags
          BY <2>0, <3>1, <4>1, <5>1 DEF Halfway, Images, Flags, ClockParts
        <5>2. CASE v \in ClockParts
          <6>1. PICK x \in {goal[v], Limit(v)} :
                   /\ mem' = [mem EXCEPT ![v] = x]
                   /\ x = goal[v] \/ (goal[v] = 0 /\ mem[v] # Limit(v) /\ x = Limit(v))
            BY <3>1
          <6>2. mem[v] # goal[v]
            BY <3>1
          <6>3. Halfway([mem EXCEPT ![v] = x], old, clock)
            BY <2>0, <3>2, <4>1, <5>2, <6>1, <6>2, StoreHalfway
          <6> QED BY <6>1, <6>3
        <5> QED BY <3>4, <5>1, <5>2
      <4>3. CASE mem' = goal
        <5>1. Len(goals) = 1
          BY <3>6 DEF ClockInv
        <5>2. goals \in Seq(Images)
          BY <2>0 DEF Sound
        <5>3. Tail(goals) \in Seq(Images) /\ Len(Tail(goals)) = 0
          BY <3>1, <5>1, <5>2, HeadTailProperties
        <5>4. Tail(goals) = <<>>
          BY <5>3, EmptySeq
        <5>5. goals' = <<>> /\ stored' = mem' /\ SameTime(mem', clock) /\ clock' = clock
          BY <3>1, <3>2, <4>3, <5>4
        <5> QED BY <5>5 DEF ClockInv, UpdatingClock
      <4>4. CASE mem' # goal
        <5>1. stored' = stored /\ goals' = goals /\ clock' = clock /\ pc' = pc
          BY <3>1, <4>4
        <5>2. UpdatingClock' /\ Len(goals') = 1 /\ Timed(goals', clock')
          BY <3>6, <5>1 DEF ClockInv, UpdatingClock, Timed
        <5>3. \E o \in Clocks : clock' = Later(o) /\ Halfway(mem', o, clock')
          BY <4>1, <4>2, <5>1
        <5> QED BY <3>6, <5>1, <5>2, <5>3 DEF ClockInv, Timed
      <4> QED BY <4>3, <4>4
    <3> QED BY <3>5, <3>6
  <2>4. ASSUME NEW b \in Buttons, SPinChange(b) PROVE ClockInv'
    BY <2>1, <2>4 DEF SPinChange, HPinChange, PinChange
  <2>5. CASE UNCHANGED svars
    BY <2>1, <2>5 DEF svars
  <2> QED BY <2>2, <2>3, <2>4, <2>5 DEF SNext, SAlarmThread
<1> QED BY <1>1, <1>2, PreemptedThread, StoresAlways, PTL DEF SSpec

\* For every length of the minute, the hour and the day: the time a preempting reader
\* sees is the thread's except while update_clock stores, and then it is off by a minute,
\* or by an hour and a minute in the second in which the hour changes, at most.
THEOREM TimeIsNearlyRight == SSpec => []ClockSeen
<1>1. TypeOK /\ StoresInv /\ ClockInv => ClockSeen
  <2> SUFFICES ASSUME TypeOK, StoresInv, ClockInv PROVE ClockSeen
    OBVIOUS
  <2> DEFINE parts == [p \in ClockParts |-> clock[p]]
             seen  == [p \in ClockParts |-> mem[p]]
             off   == Distance(SecondOfDay(seen), SecondOfDay(parts))
             hour  == MinutesPerHour * SecondsPerMinute
             far   == hour + SecondsPerMinute
  <2>0. clock \in Clocks /\ mem \in Images
    BY DEF TypeOK, Clocks, StoresInv, StoresType
  <2>1. SecondOfDay(parts) = SecondOfDay(clock) /\ SecondOfDay(seen) = SecondOfDay(mem)
    BY DEF SecondOfDay, ClockParts
  <2>2. CASE UpdatingClock
    <3>1. PICK old \in Clocks : clock = Later(old) /\ Halfway(mem, old, clock)
      BY <2>2 DEF ClockInv
    <3>2. /\ clock.minute # 0 \/ clock.second # 0 => off <= SecondsPerMinute
          /\ off <= far \/ Distance(off, HoursPerDay * hour) <= far
      BY <2>0, <2>1, <3>1, HalfwayDistance
    <3>3. pc = "alarm_check_buttons"
      BY <2>2 DEF UpdatingClock
    <3> QED BY <3>2, <3>3 DEF ClockSeen
  <2>3. CASE ~UpdatingClock
    <3>1. SameTime(mem, clock)
      BY <2>3 DEF ClockInv
    <3>2. seen = parts
      BY <3>1 DEF SameTime, ClockParts
    <3>3. off = 0
      <4>1. SecondOfDay(clock) \in Int
        BY <2>0, SecondOfDayBound
      <4> QED BY <2>1, <3>2, <4>1 DEF Distance
    <3>4. 0 <= SecondsPerMinute /\ 0 <= far
      BY ClockAssumption
    <3> QED BY <3>2, <3>3, <3>4 DEF ClockSeen
  <2> QED BY <2>2, <2>3
<1> QED BY <1>1, PreemptedThread, StoresAlways, ClockAlways, PTL
=============================================================================
