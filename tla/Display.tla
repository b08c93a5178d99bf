------------------------------- MODULE Display -------------------------------
(***************************************************************************)
(* What the user sees and hears: the threads that main creates, second by  *)
(* second.  The screen thread shows seven views in turn and reads the      *)
(* alarm's and the sensor's variables without a lock; the speaker thread   *)
(* reads alarm_active.  The alarm thread makes one pass per second, built  *)
(* here from the operators of Alarm; which buttons its poll acts upon is   *)
(* left open.                                                              *)
(*                                                                         *)
(* A less urgent thread runs only while the more urgent ones sleep; screen *)
(* and sensor are equally urgent and interleave.  Time passes only when    *)
(* these threads sleep, in the middle of a beep too.                       *)
(***************************************************************************)
EXTENDS Integers, Sequences

CONSTANTS HoursPerDay, MinutesPerHour, SecondsPerMinute, AlarmHour, AlarmMinute,
          AlarmSecond, AlarmAutoMuteSeconds, SnoozeSeconds,   \* as in Alarm
          ViewSeconds,     \* k_sleep between two views: 2
          SensorSeconds,   \* k_sleep between two samples: 2
          MaxOverhead,     \* bound: seconds one round of views takes beyond its sleeps
          Pulses           \* pulses of one beep: 200

ASSUME ClockAssumption ==
    /\ HoursPerDay \in Nat \ {0}
    /\ MinutesPerHour \in Nat \ {0}
    /\ SecondsPerMinute \in Nat \ {0}

ASSUME PeriodAssumption ==
    /\ AlarmAutoMuteSeconds \in Nat \ {0}
    /\ SnoozeSeconds \in Nat \ {0}

ASSUME PaceAssumption ==
    /\ ViewSeconds \in Nat
    /\ SensorSeconds \in Nat \ {0}
    /\ MaxOverhead \in Nat
    /\ Pulses \in Nat \ {0}

VARIABLES
    clock, alarm,   \* as in Alarm
    asleep,         \* seconds each thread still sleeps; at 0 it runs
    view,           \* the view the screen thread shows next
    overhead,       \* seconds this round of views has taken beyond its sleeps
    shown,          \* the status that was shown last
    ready,          \* whether the sensor was found ready
    storing,        \* the words of the new sample not stored yet
    age,            \* of each word in memory: how many samples are newer
    taken,          \* of each word the screen thread has read for its view: the same
    calm,           \* history: the sensor thread slept since the first of these reads
    speaker,        \* what the speaker thread does, if alarm_gpio_init created it
    pulses,         \* pulses left of its beep
    polled,         \* it has looked at alarm_active in this second
    late,           \* history: pulses since the alarm stopped ringing
    silence,        \* history: seconds of ringing without a pulse
    unseen          \* history: seconds the present status has waited to be shown

sensor  == <<ready, storing, age>>
reading == <<taken, calm>>
beeper  == <<speaker, pulses, polled, late, silence>>
vars    == <<clock, alarm, asleep, view, overhead, shown, unseen, sensor, reading, beeper>>

Buttons == {"snooze", "mute", "enable"}

\* alarm.c at a poll that finds the buttons of pressed newly down, before and after
\* update_clock.
Before(pressed) == INSTANCE Alarm WITH
    pc <- "update_clock", speaker <- TRUE, last <- [b \in Buttons |-> 1],
    pin <- [b \in Buttons |-> IF b \in pressed THEN 0 ELSE 1]

After(pressed) == INSTANCE Alarm WITH
    pc <- "alarm_check_buttons", speaker <- TRUE, last <- [b \in Buttons |-> 1],
    pin <- [b \in Buttons |-> IF b \in pressed THEN 0 ELSE 1],
    clock <- Before({})!Later(clock)

Status(a) == Before({})!Status(a)

Views == <<"alarm", "temp_hum", "weather", "epoch", "latlon", "city", "datetime">>

Threads == {"screen", "sensor", "alarm"}

TempWords == {"temp_low", "temp_high"}   \* a double is two words of memory
Words     == TempWords \cup {"hum_low", "hum_high"}
MaxAge    == 2                           \* bound: this old or older

TypeOK ==
    /\ After({})!TypeOK
    /\ asleep \in [Threads -> 0 .. ViewSeconds + SensorSeconds + MaxOverhead]
    /\ view \in 0 .. Len(Views)
    /\ overhead \in 0 .. MaxOverhead
    /\ shown \in {"nothing", "disabled", "armed", "ringing", "snoozed"}
    /\ ready \in BOOLEAN /\ storing \in SUBSET Words /\ age \in [Words -> 0 .. MaxAge]
    /\ DOMAIN taken \in SUBSET Words /\ calm \in BOOLEAN
    /\ speaker \in {"none", "look", "beep", "sleep"} /\ pulses \in 0 .. Pulses
    /\ polled \in BOOLEAN
    /\ late \in Nat /\ silence \in Nat /\ unseen \in Nat

Init ==
    /\ clock = [hour |-> 0, minute |-> 0, second |-> 0]
    /\ alarm = [enabled |-> TRUE, active |-> FALSE, snoozed |-> FALSE,
                active_seconds |-> 0, snooze_seconds_left |-> 0]
    /\ asleep = [t \in Threads |-> 0]
    /\ view = 0 /\ overhead = 0 /\ shown = "nothing"
    /\ ready \in BOOLEAN /\ storing = {} /\ age = [w \in Words |-> 0]
    /\ taken = <<>> /\ calm = FALSE
    /\ speaker \in {"none", "look"} /\ pulses = 0 /\ polled = FALSE
    /\ late = 0 /\ silence = 0 /\ unseen = 0

-----------------------------------------------------------------------------
Sleep(t, seconds) == asleep' = [asleep EXCEPT ![t] = seconds]

(***************************************************************************)
(* The screen thread.                                                      *)
(***************************************************************************)
\* Mutant: one view too many.
NextViewPast(sleep) ==
    /\ view' = IF view > Len(Views) THEN 1 ELSE view + 1
    /\ \E extra \in 0 .. MaxOverhead - overhead :
          /\ Sleep("screen", sleep + extra)
          /\ overhead' = IF view' = 1 THEN 0 ELSE overhead + extra

\* k_sleep after a view, and what its messages and mutexes took besides.
NextView(sleep) ==
    /\ view' = IF view = Len(Views) THEN 1 ELSE view + 1
    /\ \E extra \in 0 .. MaxOverhead - overhead :
          /\ Sleep("screen", sleep + extra)
          /\ overhead' = IF view' = 1 THEN 0 ELSE overhead + extra

\* boot ends with a sleep, or at once if it does not find the bus.
boot == /\ view = 0 /\ asleep["screen"] = 0
        /\ NextView(ViewSeconds) \/ NextView(0)
        /\ UNCHANGED <<clock, alarm, shown, unseen, sensor, reading, beeper>>

Showing(name) == view # 0 /\ Views[view] = name /\ asleep["screen"] = 0

screen_show_alarm ==
    /\ Showing("alarm")
    /\ shown' = Status(alarm) /\ unseen' = 0
    /\ NextView(ViewSeconds)
    /\ UNCHANGED <<clock, alarm, sensor, reading, beeper>>

\* Mutant: a second passes after each read, as if it were shown at once.
LoadAndSleep(w) ==
    /\ Showing("temp_hum")
    /\ w \notin DOMAIN taken
    /\ w \in TempWords \/ TempWords \subseteq DOMAIN taken
    /\ taken' = [x \in DOMAIN taken \cup {w} |-> IF x = w THEN age[w] ELSE taken[x]]
    /\ calm' = (asleep["sensor"] > 0 /\ (taken = <<>> \/ calm))
    /\ Sleep("screen", 1)
    /\ UNCHANGED <<clock, alarm, view, overhead, shown, unseen, sensor, beeper>>

\* tem_hum_get_temp, then tem_hum_get_hum: a word at a time
Load(w) ==
    /\ Showing("temp_hum")
    /\ w \notin DOMAIN taken
    /\ w \in TempWords \/ TempWords \subseteq DOMAIN taken
    /\ taken' = [x \in DOMAIN taken \cup {w} |-> IF x = w THEN age[w] ELSE taken[x]]
    /\ calm' = (asleep["sensor"] > 0 /\ (taken = <<>> \/ calm))
    /\ UNCHANGED <<clock, alarm, asleep, view, overhead, shown, unseen, sensor, beeper>>

screen_show_temp_hum ==
    /\ Showing("temp_hum")
    /\ DOMAIN taken = Words
    /\ taken' = <<>> /\ calm' = FALSE
    /\ NextView(ViewSeconds)
    /\ UNCHANGED <<clock, alarm, shown, unseen, sensor, beeper>>

\* Mutant: the views of g_info sleep on their own besides.
OtherViewTwice ==
    /\ \E name \in {"weather", "epoch", "latlon", "city", "datetime"} : Showing(name)
    /\ NextView(2 * ViewSeconds)
    /\ UNCHANGED <<clock, alarm, shown, unseen, sensor, reading, beeper>>

\* The views of g_info; what they show is the subject of Fetch and EpochDate.
OtherView ==
    /\ \E name \in {"weather", "epoch", "latlon", "city", "datetime"} : Showing(name)
    /\ NextView(ViewSeconds)
    /\ UNCHANGED <<clock, alarm, shown, unseen, sensor, reading, beeper>>

Screen == \/ boot \/ screen_show_alarm \/ screen_show_temp_hum \/ OtherView
          \/ \E w \in Words : Load(w)

(***************************************************************************)
(* The sensor thread.                                                      *)
(***************************************************************************)
Older(ages) == [w \in DOMAIN ages |-> IF ages[w] < MaxAge THEN ages[w] + 1 ELSE MaxAge]

\* tem_hum_update: the results of sensor_sample_fetch and of both channels are
\* ignored, so that a failed fetch stores the last sample again.
Sample ==
    /\ asleep["sensor"] = 0 /\ ready /\ storing = {}
    /\ storing' = Words
    /\ \/ age' = Older(age) /\ taken' = Older(taken)
       \/ age' = age /\ taken' = taken
    /\ calm' = FALSE
    /\ UNCHANGED <<clock, alarm, asleep, view, overhead, shown, unseen, ready, beeper>>

\* One store of the new sample, in any order; after the last one the thread sleeps.
Store(w) ==
    /\ w \in storing
    /\ storing' = storing \ {w}
    /\ age' = [age EXCEPT ![w] = 0]
    /\ IF storing' = {} THEN Sleep("sensor", SensorSeconds) ELSE UNCHANGED asleep
    /\ UNCHANGED <<clock, alarm, view, overhead, shown, unseen, ready, reading, beeper>>

NoSample ==
    /\ asleep["sensor"] = 0 /\ ~ready
    /\ Sleep("sensor", SensorSeconds)
    /\ UNCHANGED <<clock, alarm, view, overhead, shown, unseen, sensor, reading, beeper>>

Sensor == Sample \/ NoSample \/ \E w \in Words : Store(w)

(***************************************************************************)
(* The alarm thread: one pass of alarm_thread_entry.                       *)
(***************************************************************************)
Counted(a) == After({})!CountRinging(After({})!CountSnooze(a))

Pass(pressed) ==
    /\ \A t \in {"screen", "sensor"} : asleep[t] > 0
    /\ asleep["alarm"] = 0
    /\ clock' = Before({})!Later(clock)
    /\ alarm' = Counted(After({})!CheckTime(After(pressed)!AfterEnable))
    /\ unseen' = IF Status(alarm') = Status(alarm) THEN unseen ELSE 0
    /\ silence' = IF alarm'.active THEN silence ELSE 0
    /\ late' = IF alarm'.active THEN 0 ELSE late
    /\ Sleep("alarm", 1)
    /\ UNCHANGED <<view, overhead, shown, sensor, reading, speaker, pulses, polled>>

(***************************************************************************)
(* The speaker thread.                                                     *)
(***************************************************************************)
SpeakerRuns == \A t \in Threads : asleep[t] > 0

\* Mutant: an enabled alarm beeps.
LookAtEnabled ==
    /\ SpeakerRuns /\ speaker = "look"
    /\ polled' = TRUE
    /\ IF alarm.enabled THEN speaker' = "beep" /\ pulses' = Pulses
                        ELSE speaker' = "sleep" /\ pulses' = 0
    /\ UNCHANGED <<clock, alarm, asleep, view, overhead, shown, unseen, sensor, reading, late, silence>>

\* The one look at alarm_active for a whole burst.
Look ==
    /\ SpeakerRuns /\ speaker = "look"
    /\ polled' = TRUE
    /\ IF alarm.active THEN speaker' = "beep" /\ pulses' = Pulses
                       ELSE speaker' = "sleep" /\ pulses' = 0
    /\ UNCHANGED <<clock, alarm, asleep, view, overhead, shown, unseen, sensor, reading, late, silence>>

\* One round of the loop: the pin goes up and down.
Pulse ==
    /\ SpeakerRuns /\ speaker = "beep"
    /\ pulses' = pulses - 1
    /\ speaker' = IF pulses' = 0 THEN "sleep" ELSE "beep"
    /\ late' = IF alarm.active \/ late > Pulses THEN late ELSE late + 1
    /\ silence' = 0
    /\ UNCHANGED <<clock, alarm, asleep, view, overhead, shown, unseen, sensor, reading, polled>>

\* k_msleep(50) or k_msleep(100) returns
Awake ==
    /\ SpeakerRuns /\ speaker = "sleep"
    /\ speaker' = "look"
    /\ UNCHANGED <<clock, alarm, asleep, view, overhead, shown, unseen, sensor, reading,
                   pulses, polled, late, silence>>

Speaker == Look \/ Pulse \/ Awake

-----------------------------------------------------------------------------
\* A second passes.  In each the speaker thread looks at alarm_active at least
\* once: its loop takes 150 ms, and the threads above it mostly sleep.
Second ==
    /\ \A t \in Threads : asleep[t] > 0
    /\ speaker = "none" \/ polled
    /\ asleep' = [t \in Threads |-> asleep[t] - 1]
    /\ polled' = FALSE
    /\ unseen' = IF shown = Status(alarm) THEN 0 ELSE unseen + 1
    /\ silence' = IF alarm.active /\ speaker # "none" THEN silence + 1 ELSE 0
    /\ UNCHANGED <<clock, alarm, view, overhead, shown, sensor, reading, speaker, pulses, late>>

Next == Screen \/ Sensor \/ (\E pressed \in SUBSET Buttons : Pass(pressed)) \/ Speaker \/ Second

Spec == Init /\ [][Next]_vars

-----------------------------------------------------------------------------
\* However the views, the overheads of their messages and mutexes and the buttons
\* fall, a change of the alarm's status that lasts is on the display after one
\* round of the views (screen_thread_entry).
StatusIsShown == unseen <= Len(Views) * ViewSeconds + MaxOverhead

\* The user has always been told: an alarm that rings until it is muted has been
\* shown as ringing, and a snooze that runs out as a snooze.  It takes periods
\* longer than a round of the views, as 20 and 300 seconds are.
PeriodsAreShown ==
    [][/\ alarm.active_seconds = AlarmAutoMuteSeconds - 1 /\ ~alarm'.active
             => shown = "ringing"
       /\ alarm.snoozed /\ alarm.snooze_seconds_left = 1 /\ alarm'.active => shown = "snoozed"]_vars

\* The temperature and the humidity of one view, and the two halves of each, are of
\* one sample or of two successive ones, and of one if the sensor thread slept
\* while they were read (tem_hum.c:58-59 and screen.c:92-93, without a lock).
PairShown ==
    \A v, w \in DOMAIN taken :
        /\ taken[v] <= taken[w] + 1
        /\ calm => taken[v] = taken[w]

\* The speaker follows alarm_active, which it reads once per burst (alarm.c:146-154):
\* after the alarm has stopped it goes on for one burst at most and then is silent
\* until the alarm rings again, and while the alarm rings, no burst or pause begun
\* before makes it miss more than two seconds.
SpeakerFollows == late <= Pulses /\ silence <= 2
=============================================================================
