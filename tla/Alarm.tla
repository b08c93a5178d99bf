------------------------------- MODULE Alarm -------------------------------
(***************************************************************************)
(* The alarm thread of alarm.c: one pass per second over update_clock,     *)
(* alarm_check_buttons, check_alarm_time, update_snooze, update_auto_mute  *)
(* and k_sleep.  Each function of the pass is one step.  The thread is the *)
(* only writer of its variables, so a finer grain changes nothing it does  *)
(* itself; what other threads read between the steps is the subject of the *)
(* modules that compose this one with its readers.                         *)
(*                                                                         *)
(* The buttons are the environment: a pin changes whenever it likes.       *)
(***************************************************************************)
EXTENDS Integers

CONSTANTS HoursPerDay, MinutesPerHour, SecondsPerMinute,   \* 24, 60, 60
          AlarmHour, AlarmMinute, AlarmSecond,             \* DEFAULT_ALARM_*
          AlarmAutoMuteSeconds,                            \* ALARM_AUTO_MUTE_SECONDS
          SnoozeSeconds                                    \* SNOOZE_SECONDS

ASSUME ClockAssumption ==
    /\ HoursPerDay \in Nat \ {0}
    /\ MinutesPerHour \in Nat \ {0}
    /\ SecondsPerMinute \in Nat \ {0}

ASSUME AlarmTimeAssumption ==
    /\ AlarmHour \in 0 .. HoursPerDay - 1
    /\ AlarmMinute \in 0 .. MinutesPerHour - 1
    /\ AlarmSecond \in 0 .. SecondsPerMinute - 1

ASSUME PeriodAssumption ==
    /\ AlarmAutoMuteSeconds \in Nat \ {0}
    /\ SnoozeSeconds \in Nat \ {0}

VARIABLES
    pc,       \* the function the alarm thread calls next
    clock,    \* current_hour, current_minute, current_second
    alarm,    \* alarm_enabled, alarm_active, alarm_snoozed and their counters
    last,     \* last_snooze, last_mute, last_enable
    pin,      \* the level of each button's input (external)
    speaker   \* whether alarm_gpio_init created the speaker thread

vars == <<pc, clock, alarm, last, pin, speaker>>

Buttons == {"snooze", "mute", "enable"}
Levels  == {0, 1}                        \* the inputs are pulled up: 0 is pressed

Steps == {"alarm_gpio_init", "update_clock", "alarm_check_buttons",
          "check_alarm_time", "update_snooze", "update_auto_mute", "k_sleep"}

TypeOK ==
    /\ pc \in Steps
    /\ clock \in [hour : 0 .. HoursPerDay - 1,
                  minute : 0 .. MinutesPerHour - 1,
                  second : 0 .. SecondsPerMinute - 1]
    /\ alarm \in [enabled : BOOLEAN, active : BOOLEAN, snoozed : BOOLEAN,
                  active_seconds : Nat, snooze_seconds_left : Int]
    /\ last \in [Buttons -> Levels]
    /\ pin \in [Buttons -> Levels]
    /\ speaker \in BOOLEAN

Init ==
    /\ pc = "alarm_gpio_init"
    /\ clock = [hour |-> 0, minute |-> 0, second |-> 0]
    /\ alarm = [enabled |-> TRUE, active |-> FALSE, snoozed |-> FALSE,
                active_seconds |-> 0, snooze_seconds_left |-> 0]
    /\ last = [b \in Buttons |-> 1]
    /\ pin \in [Buttons -> Levels]       \* a button may be held while booting
    /\ speaker = FALSE

(***************************************************************************)
(* The operations of alarm.h, as functions of the alarm's flags.           *)
(***************************************************************************)
Silenced(a) == [enabled |-> a.enabled, active |-> FALSE, snoozed |-> FALSE,
                active_seconds |-> 0, snooze_seconds_left |-> 0]

alarm_snooze(a) ==
    IF a.active
    THEN [enabled |-> a.enabled, active |-> FALSE, snoozed |-> TRUE,
          active_seconds |-> 0, snooze_seconds_left |-> SnoozeSeconds]
    ELSE a

alarm_mute(a) == IF a.active \/ a.snoozed THEN Silenced(a) ELSE a

\* Mutant: switching off forgets to silence.
ToggleOnly(a) == [a EXCEPT !.enabled = ~@]

alarm_toggle_enabled(a) ==
    IF a.enabled THEN [Silenced(a) EXCEPT !.enabled = FALSE]
                 ELSE [a EXCEPT !.enabled = TRUE]

(***************************************************************************)
(* The pass.  Goto moves the thread on and leaves what it does not name.   *)
(***************************************************************************)
Goto(from, to) == pc = from /\ pc' = to

\* The thread that drives the speaker exists only if both ports are ready;
\* otherwise the function returns early and the pass runs all the same.
alarm_gpio_init ==
    /\ Goto("alarm_gpio_init", "update_clock")
    /\ speaker' \in BOOLEAN
    /\ UNCHANGED <<clock, alarm, last, pin>>

\* Mutant: the carry into the minutes comes a second late.
LateCarry(c) ==
    IF c.second + 1 > SecondsPerMinute
    THEN [hour |-> c.hour, minute |-> (c.minute + 1) % MinutesPerHour, second |-> 0]
    ELSE [c EXCEPT !.second = @ + 1]

\* Mutant: the three tests in the opposite order, so that a carry waits for the next pass.
LaterHourFirst(c) ==
    LET s == c.second + 1
        m == IF c.minute >= MinutesPerHour THEN 0 ELSE c.minute
        h == IF c.hour >= HoursPerDay THEN 0 ELSE c.hour
    IN  [hour   |-> IF c.minute >= MinutesPerHour THEN h + 1 ELSE h,
         minute |-> IF s >= SecondsPerMinute THEN m + 1 ELSE m,
         second |-> IF s >= SecondsPerMinute THEN 0 ELSE s]

\* The time after time c: three cascaded tests, each on the outcome of the last.
Later(c) ==
    LET s == c.second + 1
        m == IF s >= SecondsPerMinute THEN c.minute + 1 ELSE c.minute
        h == IF m >= MinutesPerHour THEN c.hour + 1 ELSE c.hour
    IN  [hour   |-> IF h >= HoursPerDay THEN 0 ELSE h,
         minute |-> IF m >= MinutesPerHour THEN 0 ELSE m,
         second |-> IF s >= SecondsPerMinute THEN 0 ELSE s]

update_clock ==
    /\ Goto("update_clock", "alarm_check_buttons")
    /\ clock' = Later(clock)
    /\ UNCHANGED <<alarm, last, pin, speaker>>

\* Mutant: a button counts whenever it is down.
Down(b) == pin[b] = 0

\* A button counts when the poll finds it down and the last poll found it up.
Pressed(b) == pin[b] = 0 /\ last[b] = 1

AfterSnooze == IF Pressed("snooze") THEN alarm_snooze(alarm) ELSE alarm
AfterMute   == IF Pressed("mute") THEN alarm_mute(AfterSnooze) ELSE AfterSnooze
AfterEnable == IF Pressed("enable") THEN alarm_toggle_enabled(AfterMute) ELSE AfterMute

alarm_check_buttons ==
    /\ Goto("alarm_check_buttons", "check_alarm_time")
    /\ alarm' = AfterEnable
    /\ last' = pin
    /\ UNCHANGED <<clock, pin, speaker>>

AtAlarmTime == clock = [hour |-> AlarmHour, minute |-> AlarmMinute, second |-> AlarmSecond]

\* Mutant: the seconds are not compared.
CheckMinute(a) ==
    IF a.enabled /\ ~a.active /\ ~a.snoozed /\ clock.hour = AlarmHour /\ clock.minute = AlarmMinute
    THEN [a EXCEPT !.active = TRUE, !.active_seconds = 0]
    ELSE a

CheckTime(a) ==
    IF a.enabled /\ ~a.active /\ ~a.snoozed /\ AtAlarmTime
    THEN [a EXCEPT !.active = TRUE, !.active_seconds = 0]
    ELSE a

check_alarm_time ==
    /\ Goto("check_alarm_time", "update_snooze")
    /\ alarm' = CheckTime(alarm)
    /\ UNCHANGED <<clock, last, pin, speaker>>

\* Mutant: a snooze that is over stays a snooze.
NeverWake(a) ==
    IF a.snoozed /\ a.snooze_seconds_left > 0 THEN [a EXCEPT !.snooze_seconds_left = @ - 1] ELSE a

\* Mutant: a snooze goes on while its counter is 0.
WakeLate(a) ==
    LET left == a.snooze_seconds_left - 1 IN
    IF ~a.snoozed THEN a
    ELSE IF left >= 0 THEN [a EXCEPT !.snooze_seconds_left = left]
    ELSE [a EXCEPT !.active = TRUE, !.snoozed = FALSE, !.active_seconds = 0]

\* Mutant: waking leaves the snoozed flag set.
WakeStillSnoozed(a) ==
    LET left == a.snooze_seconds_left - 1 IN
    IF ~a.snoozed THEN a
    ELSE IF left > 0 THEN [a EXCEPT !.snooze_seconds_left = left]
    ELSE [a EXCEPT !.active = TRUE, !.active_seconds = 0, !.snooze_seconds_left = left]

CountSnooze(a) ==
    LET left == a.snooze_seconds_left - 1 IN
    IF ~a.snoozed THEN a
    ELSE IF left > 0 THEN [a EXCEPT !.snooze_seconds_left = left]
    ELSE [enabled |-> a.enabled, active |-> TRUE, snoozed |-> FALSE,
          active_seconds |-> 0, snooze_seconds_left |-> left]

update_snooze ==
    /\ Goto("update_snooze", "update_auto_mute")
    /\ alarm' = CountSnooze(alarm)
    /\ UNCHANGED <<clock, last, pin, speaker>>

\* Mutant: the seconds of ringing are not counted.
NeverMute(a) == IF a.active /\ a.active_seconds >= AlarmAutoMuteSeconds THEN Silenced(a) ELSE a

CountRinging(a) ==
    LET rung == a.active_seconds + 1 IN
    IF ~a.active THEN a
    ELSE IF rung >= AlarmAutoMuteSeconds
         THEN [a EXCEPT !.active = FALSE, !.active_seconds = 0]
         ELSE [a EXCEPT !.active_seconds = rung]

update_auto_mute ==
    /\ Goto("update_auto_mute", "k_sleep")
    /\ alarm' = CountRinging(alarm)
    /\ UNCHANGED <<clock, last, pin, speaker>>

\* k_sleep(K_SECONDS(1)) returns
k_sleep ==
    /\ Goto("k_sleep", "update_clock")
    /\ UNCHANGED <<clock, alarm, last, pin, speaker>>

AlarmThread == \/ alarm_gpio_init \/ update_clock \/ alarm_check_buttons
               \/ check_alarm_time \/ update_snooze \/ update_auto_mute \/ k_sleep

\* External: somebody presses or releases button b.
PinChange(b) == /\ pin' = [pin EXCEPT ![b] = 1 - @]
                /\ UNCHANGED <<pc, clock, alarm, last, speaker>>

Next == AlarmThread \/ \E b \in Buttons : PinChange(b)

(***************************************************************************)
(* The alarm thread keeps running: the threads above it sleep or block in  *)
(* every round of their loops and its own sleep is bounded.  Nothing is    *)
(* assumed of the buttons.                                                 *)
(***************************************************************************)
Spec == Init /\ [][Next]_vars /\ WF_vars(AlarmThread)

-----------------------------------------------------------------------------
(***************************************************************************)
(* Safety                                                                  *)
(***************************************************************************)

\* The five variables of the alarm always agree on one mode: never ringing and
\* snoozed at once, a disabled alarm does neither, a snooze is running exactly
\* while seconds are left of it, and seconds of ringing are counted only while
\* it rings, up to the automatic mute (the flags are set and reset one by one
\* in six functions of alarm.c).
Agree(a) ==
    /\ ~(a.active /\ a.snoozed)
    /\ ~a.enabled => ~a.active /\ ~a.snoozed
    /\ a.snoozed <=> a.snooze_seconds_left > 0
    /\ a.snooze_seconds_left \in 0 .. SnoozeSeconds
    /\ a.active_seconds < AlarmAutoMuteSeconds
    /\ ~a.active => a.active_seconds = 0

FlagsAgree == Agree(alarm)

\* alarm_get_status_text: what line 2 of the display says of the alarm
Status(a) == IF ~a.enabled THEN "disabled"
             ELSE IF a.active THEN "ringing"
             ELSE IF a.snoozed THEN "snoozed"
             ELSE "armed"

\* How long the status has lasted, in the counter of that status.
Elapsed(a) == IF a.active THEN a.active_seconds
              ELSE IF a.snoozed THEN SnoozeSeconds - a.snooze_seconds_left
              ELSE 0

SecondOfDay(c) == (c.hour * MinutesPerHour + c.minute) * SecondsPerMinute + c.second

Promise == INSTANCE AlarmPromise WITH
    DayLength      <- HoursPerDay * MinutesPerHour * SecondsPerMinute,
    AlarmTime      <- SecondOfDay([hour |-> AlarmHour, minute |-> AlarmMinute,
                                   second |-> AlarmSecond]),
    AutoMutePeriod <- AlarmAutoMuteSeconds,
    SnoozePeriod   <- SnoozeSeconds,
    time           <- SecondOfDay(clock),
    due            <- AtAlarmTime /\ pc \in {"alarm_check_buttons", "check_alarm_time"},
    mode           <- Status(alarm),
    timer          <- Elapsed(alarm)

\* The thread with its flags, counters and polled buttons does what the promise
\* says of modes: each step is one step of AlarmPromise or none, two or three
\* buttons found pressed by one poll included.
ImplementsPromise == Promise!Spec

(***************************************************************************)
(* Liveness                                                                *)
(***************************************************************************)

\* A ringing alarm does not ring for ever, whatever is or is not pressed
\* (update_auto_mute).
RingingStops == alarm.active ~> ~alarm.active

\* An alarm that stays enabled keeps ringing, day after day: neither mute, nor
\* the automatic mute, nor snoozing again and again ends it.
RingsAgain == <>[]alarm.enabled => []<>alarm.active
=============================================================================
