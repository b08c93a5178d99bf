--------------------------- MODULE DisplayProofs ---------------------------
(***************************************************************************)
(* Theorems about Display for every pace of its threads, length of a beep, *)
(* length of the day and period of the alarm.                              *)
(*                                                                         *)
(* The inductive invariant DisplayInv has one part for each question: what *)
(* is left of a round of the views (ShownInv), how old the words of a      *)
(* sample can be while they are read (PairInv), what is left of a beep     *)
(* (BeepInv), and how long the alarm has rung or slept against how long    *)
(* its status has waited (FlagsInv and PeriodInv).                         *)
(***************************************************************************)
EXTENDS Display, TLAPS

Clocks == [hour : 0 .. HoursPerDay - 1, minute : 0 .. MinutesPerHour - 1,
           second : 0 .. SecondsPerMinute - 1]

Alarms == [enabled : BOOLEAN, active : BOOLEAN, snoozed : BOOLEAN,
           active_seconds : Nat, snooze_seconds_left : Int]

\* The alarm's variables after a pass that finds the buttons of pressed newly down.
Passed(pressed) == Counted(After({})!CheckTime(After(pressed)!AfterEnable))

Longest == ViewSeconds + SensorSeconds + MaxOverhead

-----------------------------------------------------------------------------
(***************************************************************************)
(* Types: of what each thread writes.                                      *)
(***************************************************************************)
AlarmTypes == clock \in Clocks /\ alarm \in Alarms

PaceTypes == /\ asleep \in [Threads -> 0 .. Longest]
             /\ view \in 0 .. 7
             /\ overhead \in 0 .. MaxOverhead

StatusTypes == /\ shown \in {"nothing", "disabled", "armed", "ringing", "snoozed"}
               /\ unseen \in Nat

SensorTypes == /\ ready \in BOOLEAN
               /\ storing \in SUBSET Words
               /\ age \in [Words -> 0 .. MaxAge]
               /\ DOMAIN taken \in SUBSET Words
               /\ calm \in BOOLEAN

\* A burst has pulses left as long as it lasts.
SpeakerTypes == /\ speaker \in {"none", "look", "beep", "sleep"}
                /\ pulses \in 0 .. Pulses
                /\ speaker = "beep" => pulses > 0
                /\ polled \in BOOLEAN
                /\ late \in Nat
                /\ silence \in Nat

LEMMA SevenViews == Len(Views) = 7
  BY DEF Views

LEMMA LaterType == ASSUME NEW c \in Clocks PROVE Before({})!Later(c) \in Clocks
  BY ClockAssumption DEF Before!Later, Clocks

LEMMA CountedType == ASSUME NEW a \in Alarms PROVE Counted(a) \in Alarms
<1> DEFINE b == After({})!CountSnooze(a)
<1>1. b \in Alarms
  <2> DEFINE left == a.snooze_seconds_left - 1
  <2>1. left \in Int /\ a.enabled \in BOOLEAN
    BY DEF Alarms
  <2>2. [a EXCEPT !.snooze_seconds_left = left] \in Alarms
    BY <2>1 DEF Alarms
  <2>3. [enabled |-> a.enabled, active |-> TRUE, snoozed |-> FALSE,
         active_seconds |-> 0, snooze_seconds_left |-> left] \in Alarms
    BY <2>1 DEF Alarms
  <2> QED BY <2>2, <2>3 DEF After!CountSnooze
<1>2. Counted(a) = After({})!CountRinging(b)
  BY DEF Counted
<1> HIDE DEF b
<1>3. [b EXCEPT !.active = FALSE, !.active_seconds = 0] \in Alarms
  BY <1>1 DEF Alarms
<1>4. [b EXCEPT !.active_seconds = b.active_seconds + 1] \in Alarms
  BY <1>1 DEF Alarms
<1> QED BY <1>1, <1>2, <1>3, <1>4 DEF After!CountRinging

LEMMA PassType ==
  ASSUME NEW pressed, alarm \in Alarms
  PROVE  Passed(pressed) \in Alarms
<1>1. After(pressed)!AfterSnooze \in Alarms
  BY PeriodAssumption DEF Alarms, After!AfterSnooze, After!alarm_snooze
<1>2. After(pressed)!AfterMute \in Alarms
  BY <1>1 DEF Alarms, After!AfterMute, After!alarm_mute, After!Silenced
<1>3. After(pressed)!AfterEnable \in Alarms
  <2> DEFINE m == After(pressed)!AfterMute
  <2>1. After(pressed)!alarm_toggle_enabled(m) \in Alarms
    <3>0. m \in Alarms
      BY <1>2
    <3> HIDE DEF m
    <3>1. [After(pressed)!Silenced(m) EXCEPT !.enabled = FALSE] \in Alarms
      <4> DEFINE n == After(pressed)!Silenced(m)
      <4>1. n \in Alarms
        BY <3>0 DEF Alarms, After!Silenced
      <4> HIDE DEF n
      <4>2. [n EXCEPT !.enabled = FALSE] \in Alarms
        BY <4>1 DEF Alarms
      <4> QED BY <4>2 DEF n
    <3>2. [m EXCEPT !.enabled = TRUE] \in Alarms
      BY <3>0 DEF Alarms
    <3> QED BY <3>1, <3>2 DEF After!alarm_toggle_enabled
  <2> QED BY <1>2, <2>1 DEF After!AfterEnable
<1>4. After({})!CheckTime(After(pressed)!AfterEnable) \in Alarms
  BY <1>3 DEF Alarms, After!CheckTime
<1> QED BY <1>4, CountedType DEF Passed

\* Whatever the day, the alarm's time and the buttons.
LEMMA AlarmTyping == AlarmTypes /\ [Next]_vars => AlarmTypes'
<1> SUFFICES ASSUME AlarmTypes, [Next]_vars PROVE AlarmTypes'
  OBVIOUS
<1>1. ASSUME NEW pressed \in SUBSET Buttons, Pass(pressed) PROVE AlarmTypes'
  <2>1. clock' = Before({})!Later(clock) /\ alarm' = Passed(pressed)
    BY <1>1 DEF Pass, Passed
  <2> QED BY <2>1, LaterType, PassType DEF AlarmTypes
<1>2. ASSUME UNCHANGED <<clock, alarm>> PROVE AlarmTypes'
  BY <1>2 DEF AlarmTypes
<1>3. CASE Screen
  BY <1>2, <1>3 DEF Screen, boot, screen_show_alarm, screen_show_temp_hum, OtherView, Load
<1>4. CASE Sensor
  BY <1>2, <1>4 DEF Sensor, Sample, NoSample, Store
<1>5. CASE Speaker
  BY <1>2, <1>5 DEF Speaker, Look, Pulse, Awake
<1>6. CASE Second \/ UNCHANGED vars
  BY <1>2, <1>6 DEF Second, vars
<1> QED BY <1>1, <1>3, <1>4, <1>5, <1>6 DEF Next

LEMMA NextViewTyping ==
  ASSUME PaceTypes, NEW s \in {0, ViewSeconds}, NextView(s)
  PROVE  PaceTypes'
<1>1. PICK extra \in 0 .. MaxOverhead - overhead :
         Sleep("screen", s + extra) /\ overhead' = IF view' = 1 THEN 0 ELSE overhead + extra
  BY DEF NextView
<1>2. s + extra \in 0 .. Longest
  BY PaceAssumption DEF Longest, PaceTypes
<1>3. asleep' \in [Threads -> 0 .. Longest]
  BY <1>1, <1>2 DEF Sleep, PaceTypes
<1>4. view' \in 0 .. 7
  BY SevenViews DEF NextView, PaceTypes
<1>5. overhead' \in 0 .. MaxOverhead
  BY <1>1, PaceAssumption DEF PaceTypes
<1> QED BY <1>3, <1>4, <1>5 DEF PaceTypes

LEMMA PaceTyping == PaceTypes /\ [Next]_vars => PaceTypes'
<1> SUFFICES ASSUME PaceTypes, [Next]_vars PROVE PaceTypes'
  OBVIOUS
<1>1. ASSUME UNCHANGED <<asleep, view, overhead>> PROVE PaceTypes'
  BY <1>1 DEF PaceTypes
<1>2. ASSUME NEW t \in Threads, NEW s \in {1, SensorSeconds}, Sleep(t, s),
             UNCHANGED <<view, overhead>>
      PROVE  PaceTypes'
  <2>1. s \in 0 .. Longest
    BY PaceAssumption DEF Longest
  <2>2. asleep' \in [Threads -> 0 .. Longest]
    BY <1>2, <2>1 DEF Sleep, PaceTypes
  <2> QED BY <1>2, <2>2 DEF PaceTypes
<1>3. CASE Screen
  BY <1>1, <1>3, NextViewTyping
     DEF Screen, boot, screen_show_alarm, screen_show_temp_hum, OtherView, Load
<1>4. CASE Sensor
  BY <1>1, <1>2, <1>4 DEF Sensor, Sample, NoSample, Store, Threads
<1>5. ASSUME NEW pressed \in SUBSET Buttons, Pass(pressed) PROVE PaceTypes'
  BY <1>2, <1>5 DEF Pass, Threads
<1>6. CASE Speaker
  BY <1>1, <1>6 DEF Speaker, Look, Pulse, Awake
<1>7. CASE Second
  <2>1. ASSUME NEW t \in Threads PROVE asleep[t] - 1 \in 0 .. Longest
    <3>1. asleep[t] > 0
      BY <1>7 DEF Second
    <3>2. asleep[t] \in 0 .. Longest /\ Longest \in Nat
      BY PaceAssumption DEF PaceTypes, Longest
    <3> QED BY <3>1, <3>2
  <2> QED BY <1>7, <2>1 DEF Second, PaceTypes
<1>8. CASE UNCHANGED vars
  BY <1>1, <1>8 DEF vars
<1> QED BY <1>3, <1>4, <1>5, <1>6, <1>7, <1>8 DEF Next

LEMMA StatusIsName ==
  ASSUME NEW a PROVE Status(a) \in {"disabled", "armed", "ringing", "snoozed"}
  BY DEF Status, Before!Status

LEMMA StatusTyping == StatusTypes /\ [Next]_vars => StatusTypes'
<1> SUFFICES ASSUME StatusTypes, [Next]_vars PROVE StatusTypes'
  OBVIOUS
<1>1. ASSUME UNCHANGED shown, unseen' \in {0, unseen, unseen + 1} PROVE StatusTypes'
  BY <1>1 DEF StatusTypes
<1>2. CASE screen_show_alarm
  BY <1>2, StatusIsName DEF screen_show_alarm, StatusTypes
<1>3. CASE Screen /\ ~screen_show_alarm
  BY <1>1, <1>3 DEF Screen, boot, screen_show_temp_hum, OtherView, Load
<1>4. CASE Sensor
  BY <1>1, <1>4 DEF Sensor, Sample, NoSample, Store
<1>5. ASSUME NEW pressed \in SUBSET Buttons, Pass(pressed) PROVE StatusTypes'
  BY <1>1, <1>5 DEF Pass
<1>6. CASE Speaker
  BY <1>1, <1>6 DEF Speaker, Look, Pulse, Awake
<1>7. CASE Second \/ UNCHANGED vars
  BY <1>1, <1>7 DEF Second, vars
<1> QED BY <1>2, <1>3, <1>4, <1>5, <1>6, <1>7 DEF Next

LEMMA OlderType ==
  ASSUME NEW f, \A w \in DOMAIN f : f[w] \in 0 .. MaxAge
  PROVE  /\ DOMAIN Older(f) = DOMAIN f
         /\ \A w \in DOMAIN f : Older(f)[w] \in 0 .. MaxAge
         /\ \A w \in DOMAIN f : f[w] = 0 => Older(f)[w] = 1
  BY DEF Older, MaxAge

LEMMA SensorTyping == SensorTypes /\ [Next]_vars => SensorTypes'
<1> SUFFICES ASSUME SensorTypes, [Next]_vars PROVE SensorTypes'
  OBVIOUS
<1>1. ASSUME UNCHANGED <<sensor, reading>> PROVE SensorTypes'
  BY <1>1 DEF SensorTypes, sensor, reading
<1>2. ASSUME UNCHANGED sensor, DOMAIN taken' \in SUBSET Words, calm' \in BOOLEAN
      PROVE  SensorTypes'
  BY <1>2 DEF SensorTypes, sensor
<1>3. CASE boot \/ screen_show_alarm \/ OtherView
  BY <1>1, <1>3 DEF boot, screen_show_alarm, OtherView, reading
<1>4. CASE screen_show_temp_hum
  <2>1. taken' = <<>> /\ calm' = FALSE /\ UNCHANGED sensor
    BY <1>4 DEF screen_show_temp_hum
  <2>2. DOMAIN <<>> = {}
    OBVIOUS
  <2>3. DOMAIN taken' \in SUBSET Words
    BY <2>1, <2>2
  <2> QED BY <1>2, <2>1, <2>3
<1>5. ASSUME NEW w \in Words, Load(w) PROVE SensorTypes'
  BY <1>2, <1>5 DEF Load, SensorTypes
<1>6. CASE Sample
  <2>1. ready' = ready /\ storing' = Words /\ calm' = FALSE
    BY <1>6 DEF Sample
  <2>2. \A w \in DOMAIN age : age[w] \in 0 .. MaxAge
    BY DEF SensorTypes
  <2>3. DOMAIN age = Words
    BY DEF SensorTypes
  <2>4. Older(age) \in [Words -> 0 .. MaxAge]
    BY <2>2, <2>3, OlderType DEF Older
  <2>5. age' \in [Words -> 0 .. MaxAge]
    BY <1>6, <2>4 DEF Sample, SensorTypes
  <2>6. DOMAIN taken' = DOMAIN taken
    BY <1>6 DEF Sample, Older
  <2> QED BY <2>1, <2>5, <2>6 DEF SensorTypes
<1>7. ASSUME NEW w \in Words, Store(w) PROVE SensorTypes'
  <2>1. age' \in [Words -> 0 .. MaxAge]
    BY <1>7 DEF Store, SensorTypes, MaxAge
  <2> QED BY <1>7, <2>1 DEF Store, SensorTypes, reading
<1>8. CASE NoSample
  BY <1>1, <1>8 DEF NoSample
<1>9. ASSUME NEW pressed \in SUBSET Buttons, Pass(pressed) PROVE SensorTypes'
  BY <1>1, <1>9 DEF Pass
<1>10. CASE Speaker
  BY <1>1, <1>10 DEF Speaker, Look, Pulse, Awake
<1>11. CASE Second \/ UNCHANGED vars
  BY <1>1, <1>11 DEF Second, vars
<1> QED BY <1>3, <1>4, <1>5, <1>6, <1>7, <1>8, <1>9, <1>10, <1>11 DEF Next, Screen, Sensor

LEMMA SpeakerTyping == SpeakerTypes /\ [Next]_vars => SpeakerTypes'
<1> SUFFICES ASSUME SpeakerTypes, [Next]_vars PROVE SpeakerTypes'
  OBVIOUS
<1>1. ASSUME UNCHANGED beeper PROVE SpeakerTypes'
  BY <1>1 DEF SpeakerTypes, beeper
<1>2. ASSUME UNCHANGED <<speaker, pulses>>, polled' \in BOOLEAN,
             late' \in Nat, silence' \in Nat
      PROVE  SpeakerTypes'
  BY <1>2 DEF SpeakerTypes
<1>3. CASE Screen
  BY <1>1, <1>3 DEF Screen, boot, screen_show_alarm, screen_show_temp_hum, OtherView, Load
<1>4. CASE Sensor
  BY <1>1, <1>4 DEF Sensor, Sample, NoSample, Store
<1>5. ASSUME NEW pressed \in SUBSET Buttons, Pass(pressed) PROVE SpeakerTypes'
  <2>1. polled' \in BOOLEAN /\ late' \in Nat /\ silence' \in Nat
    BY <1>5 DEF Pass, SpeakerTypes
  <2> QED BY <1>2, <1>5, <2>1 DEF Pass
<1>6. CASE Look
  BY <1>6, PaceAssumption DEF Look, SpeakerTypes
<1>7. CASE Pulse
  <2>1. pulses - 1 \in 0 .. Pulses
    BY <1>7, PaceAssumption DEF Pulse, SpeakerTypes
  <2>2. pulses' = pulses - 1 /\ polled' = polled /\ silence' = 0
    BY <1>7 DEF Pulse
  <2>3. late' \in Nat
    BY <1>7 DEF Pulse, SpeakerTypes
  <2>4. speaker' \in {"sleep", "beep"} /\ (speaker' = "beep" => pulses' # 0)
    BY <1>7 DEF Pulse
  <2>5. pulses - 1 # 0 => pulses - 1 > 0
    BY <2>1, PaceAssumption DEF SpeakerTypes
  <2>6. pulses' \in 0 .. Pulses /\ (pulses' # 0 => pulses' > 0)
    BY <2>1, <2>2, <2>5, Zenon
  <2> QED BY <2>2, <2>3, <2>4, <2>6 DEF SpeakerTypes
<1>8. CASE Awake
  BY <1>8 DEF Awake, SpeakerTypes
<1>9. CASE Second
  <2>1. polled' \in BOOLEAN /\ late' \in Nat
    BY <1>9 DEF Second, SpeakerTypes
  <2>2. silence + 1 \in Nat
    BY DEF SpeakerTypes
  <2>3. silence' \in {0, silence + 1}
    BY <1>9 DEF Second
  <2>4. silence' \in Nat
    BY <2>2, <2>3
  <2> QED BY <1>2, <1>9, <2>1, <2>4 DEF Second
<1>10. CASE UNCHANGED vars
  BY <1>1, <1>10 DEF vars
<1> QED BY <1>3, <1>4, <1>5, <1>6, <1>7, <1>8, <1>9, <1>10 DEF Next, Speaker

-----------------------------------------------------------------------------
\* The pulses left of the burst that goes on, if one does.
Left == IF speaker = "beep" THEN pulses ELSE 0

\* The pulses since the alarm stopped and those left are one burst at most; a second of
\* ringing without a pulse ends with a look at alarm_active, which begins a burst.
BeepInv ==
    /\ alarm.active => late = 0
    /\ late + Left <= Pulses
    /\ silence \in {0, 1, 2}
    /\ silence = 2 => speaker = "beep" /\ ~polled
    /\ silence = 1 /\ polled => speaker = "beep"
    /\ (~alarm.active \/ speaker = "none") => silence = 0

LEMMA BeepStep ==
  ASSUME AlarmTypes, SpeakerTypes, BeepInv, [Next]_vars
  PROVE  BeepInv'
<1>1. ASSUME UNCHANGED <<alarm, beeper>> PROVE BeepInv'
  BY <1>1 DEF BeepInv, Left, beeper
<1>2. late \in Nat /\ pulses \in Nat /\ pulses <= Pulses /\ Pulses \in Nat
  BY PaceAssumption DEF SpeakerTypes
<1>3. CASE Screen
  BY <1>1, <1>3 DEF Screen, boot, screen_show_alarm, screen_show_temp_hum, OtherView, Load
<1>4. CASE Sensor
  BY <1>1, <1>4 DEF Sensor, Sample, NoSample, Store
<1>5. ASSUME NEW pressed \in SUBSET Buttons, Pass(pressed) PROVE BeepInv'
  <2>1. UNCHANGED <<speaker, pulses, polled>>
    BY <1>5 DEF Pass
  <2>2. /\ alarm'.active => silence' = silence /\ late' = 0
        /\ ~alarm'.active => silence' = 0 /\ late' = late
    BY <1>5 DEF Pass
  <2>3. Left' = Left /\ Left \in Nat /\ 0 + Left <= Pulses
    BY <1>2, <2>1 DEF Left
  <2>4. late' + Left' <= Pulses
    BY <2>2, <2>3, Zenon DEF BeepInv
  <2>5. /\ silence' \in {0, 1, 2}
        /\ silence' = 1 => silence = 1
        /\ silence' = 2 => silence = 2
    BY <2>2 DEF BeepInv
  <2>6. speaker = "none" => silence' = 0
    BY <2>2 DEF BeepInv
  <2> QED BY <2>1, <2>2, <2>4, <2>5, <2>6, Zenon DEF BeepInv
<1>6. CASE Look
  <2>1. UNCHANGED <<alarm, late, silence>> /\ polled' /\ speaker = "look"
    BY <1>6 DEF Look
  <2>2. /\ alarm.active => speaker' = "beep" /\ pulses' = Pulses
        /\ ~alarm.active => speaker' = "sleep"
    BY <1>6 DEF Look
  <2>3. silence \in {0, 1} /\ (silence = 1 => speaker' = "beep")
    BY <2>1, <2>2 DEF BeepInv
  <2>4. late + Left' <= Pulses
    <3>1. CASE alarm.active
      BY <1>2, <2>2, <3>1 DEF BeepInv, Left
    <3>2. CASE ~alarm.active
      BY <1>2, <2>2, <2>1, <3>2 DEF BeepInv, Left
    <3> QED BY <3>1, <3>2
  <2>5. speaker' # "none"
    BY <2>2
  <2> QED BY <2>1, <2>3, <2>4, <2>5 DEF BeepInv
<1>7. CASE Pulse
  <2>1. UNCHANGED <<alarm, polled>> /\ speaker = "beep" /\ silence' = 0
    BY <1>7 DEF Pulse
  <2>2. /\ pulses' = pulses - 1
        /\ speaker' = IF pulses' = 0 THEN "sleep" ELSE "beep"
        /\ late' = IF alarm.active \/ late > Pulses THEN late ELSE late + 1
    BY <1>7 DEF Pulse
  <2>3. pulses > 0 /\ late + pulses <= Pulses
    BY <2>1 DEF BeepInv, Left, SpeakerTypes
  <2>4. Left' = pulses - 1
    BY <1>2, <2>2 DEF Left
  <2>5. late' \in {late, late + 1} /\ (alarm.active => late' = late)
    BY <2>2
  <2>6. late + (pulses - 1) <= Pulses /\ (late + 1) + (pulses - 1) <= Pulses
    BY <1>2, <2>3
  <2>7. late' + Left' <= Pulses
    BY <2>4, <2>5, <2>6, Zenon
  <2>8. silence' \in {0, 1, 2} /\ silence' # 1 /\ silence' # 2
    BY <2>1
  <2>9. alarm.active => late' = 0
    BY <2>5 DEF BeepInv
  <2> QED BY <2>1, <2>7, <2>8, <2>9, Zenon DEF BeepInv
<1>8. CASE Awake
  <2>1. UNCHANGED <<alarm, pulses, polled, late, silence>> /\ speaker = "sleep" /\ speaker' = "look"
    BY <1>8 DEF Awake
  <2>2. Left' = Left
    BY <2>1 DEF Left
  <2> QED BY <2>1, <2>2 DEF BeepInv
<1>9. CASE Second
  <2>1. UNCHANGED <<alarm, speaker, pulses, late>> /\ ~polled' /\ (speaker = "none" \/ polled)
    BY <1>9 DEF Second
  <2>2. silence' = IF alarm.active /\ speaker # "none" THEN silence + 1 ELSE 0
    BY <1>9 DEF Second
  <2>3. Left' = Left
    BY <2>1 DEF Left
  <2>4. CASE alarm.active /\ speaker # "none"
    <3>1. silence \in {0, 1} /\ (silence = 1 => speaker = "beep")
      BY <2>1, <2>4 DEF BeepInv
    <3>2. silence' \in {1, 2} /\ (silence' = 2 => silence = 1)
      BY <2>2, <2>4, <3>1
    <3> QED BY <2>1, <2>3, <2>4, <3>1, <3>2 DEF BeepInv
  <2>5. CASE ~(alarm.active /\ speaker # "none")
    <3>1. silence' = 0
      BY <2>2, <2>5
    <3> QED BY <2>1, <2>3, <3>1 DEF BeepInv
  <2> QED BY <2>4, <2>5
<1>10. CASE UNCHANGED vars
  BY <1>1, <1>10 DEF vars
<1> QED BY <1>3, <1>4, <1>5, <1>6, <1>7, <1>8, <1>9, <1>10 DEF Next, Speaker

\* The time the rest of this round of views takes at most.
ToGo == IF view \in {0, 1} THEN 0 ELSE (8 - view) * ViewSeconds + (MaxOverhead - overhead)

\* A status waits no longer than a round of the views, what is left of it included.
ShownInv ==
    /\ view = 0 => unseen = 0 /\ asleep["screen"] = 0
    /\ view = 1 => overhead = 0
    /\ unseen + asleep["screen"] + ToGo <= 7 * ViewSeconds + MaxOverhead

\* The view that is shown is the one at its place of the round.
LEMMA ShowingView ==
  ASSUME view \in 0 .. 7, NEW name, Showing(name)
  PROVE  /\ asleep["screen"] = 0
         /\ view \in 1 .. 7
         /\ name = "alarm" <=> view = 1
         /\ name = "temp_hum" <=> view = 2
<1>1. asleep["screen"] = 0 /\ view # 0 /\ name = Views[view]
  BY DEF Showing
<1>2. view = 1 \/ view = 2 \/ view = 3 \/ view = 4 \/ view = 5 \/ view = 6 \/ view = 7
  BY <1>1
<1>3. CASE view = 1
  BY <1>1, <1>3 DEF Views
<1>4. CASE view = 2
  BY <1>1, <1>4 DEF Views
<1>5. CASE view = 3
  BY <1>1, <1>5 DEF Views
<1>6. CASE view = 4
  BY <1>1, <1>6 DEF Views
<1>7. CASE view = 5
  BY <1>1, <1>7 DEF Views
<1>8. CASE view = 6
  BY <1>1, <1>8 DEF Views
<1>9. CASE view = 7
  BY <1>1, <1>9 DEF Views
<1> QED BY <1>2, <1>3, <1>4, <1>5, <1>6, <1>7, <1>8, <1>9

LEMMA OneViewLess ==
  ASSUME NEW v \in 2 .. 7, NEW seconds \in Nat
  PROVE  (8 - v) * seconds = seconds + (8 - (v + 1)) * seconds
<1>1. v = 2 \/ v = 3 \/ v = 4 \/ v = 5 \/ v = 6 \/ v = 7
  OBVIOUS
<1> QED BY <1>1

\* A view takes its sleep and its overhead out of what was left of the round.
LEMMA ViewTakesItsTime ==
  ASSUME PaceTypes, StatusTypes, ShownInv, asleep["screen"] = 0,
         NEW s \in {0, ViewSeconds}, NextView(s),
         \/ view \in {0, 1} /\ unseen' = 0
         \/ view \in 2 .. 7 /\ unseen' = unseen
  PROVE  ShownInv'
<1>1. PICK extra \in 0 .. MaxOverhead - overhead :
         Sleep("screen", s + extra) /\ overhead' = IF view' = 1 THEN 0 ELSE overhead + extra
  BY DEF NextView
<1>2. asleep'["screen"] = s + extra
  BY <1>1 DEF Sleep, PaceTypes, Threads
<1>3. view' = IF view = 7 THEN 1 ELSE view + 1
  BY SevenViews DEF NextView
<1>4. /\ ViewSeconds \in Nat /\ MaxOverhead \in Nat /\ extra \in Nat /\ s \in Nat
      /\ overhead \in 0 .. MaxOverhead /\ unseen \in Nat
      /\ s <= ViewSeconds /\ overhead + extra <= MaxOverhead
  BY PaceAssumption DEF PaceTypes, StatusTypes
<1>5. CASE view = 0
  <2>1. view' = 1 /\ overhead' = 0 /\ unseen' = 0
    BY <1>1, <1>3, <1>5
  <2>2. ToGo' = 0
    BY <2>1 DEF ToGo
  <2>3. 0 + (s + extra) + 0 <= 7 * ViewSeconds + MaxOverhead
    BY <1>4
  <2> QED BY <1>2, <2>1, <2>2, <2>3 DEF ShownInv
<1>6. CASE view = 1
  <2>1. view' = 2 /\ overhead' = overhead + extra /\ unseen' = 0 /\ overhead = 0
    BY <1>1, <1>3, <1>6 DEF ShownInv
  <2>2. ToGo' = (8 - 2) * ViewSeconds + (MaxOverhead - (overhead + extra))
    BY <2>1 DEF ToGo
  <2>3. 0 + (s + extra) + ((8 - 2) * ViewSeconds + (MaxOverhead - (overhead + extra)))
          <= 7 * ViewSeconds + MaxOverhead
    BY <1>4, <2>1
  <2> QED BY <1>2, <2>1, <2>2, <2>3 DEF ShownInv
<1>7. CASE view \in 2 .. 6
  <2>1. view' = view + 1 /\ overhead' = overhead + extra /\ unseen' = unseen
    BY <1>1, <1>3, <1>7
  <2>2. view + 1 \in 3 .. 7
    BY <1>7
  <2>3. ToGo' = (8 - (view + 1)) * ViewSeconds + (MaxOverhead - (overhead + extra))
    BY <2>1, <2>2 DEF ToGo
  <2>4. unseen + 0 + ((8 - view) * ViewSeconds + (MaxOverhead - overhead))
          <= 7 * ViewSeconds + MaxOverhead
    BY <1>7 DEF ShownInv, ToGo
  <2> DEFINE rest == (8 - (view + 1)) * ViewSeconds
  <2>5. rest \in Int
    BY <1>4, <1>7
  <2>6. (8 - view) * ViewSeconds = ViewSeconds + rest
    BY <1>4, <1>7, OneViewLess
  <2> HIDE DEF rest
  <2>7. unseen + (s + extra) + (rest + (MaxOverhead - (overhead + extra)))
          <= 7 * ViewSeconds + MaxOverhead
    BY <1>4, <2>4, <2>5, <2>6
  <2>8. unseen' + asleep'["screen"] + ToGo' <= 7 * ViewSeconds + MaxOverhead
    BY <1>2, <2>1, <2>3, <2>7 DEF rest
  <2> QED BY <2>1, <2>2, <2>8 DEF ShownInv
<1>8. CASE view = 7
  <2>1. view' = 1 /\ overhead' = 0 /\ unseen' = unseen
    BY <1>1, <1>3, <1>8
  <2>2. ToGo' = 0
    BY <2>1 DEF ToGo
  <2>3. unseen + 0 + ((8 - 7) * ViewSeconds + (MaxOverhead - overhead))
          <= 7 * ViewSeconds + MaxOverhead
    BY <1>8 DEF ShownInv, ToGo
  <2>4. unseen + (s + extra) + 0 <= 7 * ViewSeconds + MaxOverhead
    BY <1>4, <2>3
  <2> QED BY <1>2, <2>1, <2>2, <2>4 DEF ShownInv
<1> QED BY <1>5, <1>6, <1>7, <1>8

LEMMA ShownStep ==
  ASSUME PaceTypes, StatusTypes, ShownInv, [Next]_vars
  PROVE  ShownInv'
<1>1. ASSUME UNCHANGED <<asleep, view, overhead, unseen>> PROVE ShownInv'
  BY <1>1 DEF ShownInv, ToGo
<1>2. ASSUME NEW t \in {"sensor", "alarm"}, NEW s, Sleep(t, s),
             UNCHANGED <<view, overhead>>, unseen' \in {0, unseen}
      PROVE  ShownInv'
  <2>1. asleep'["screen"] = asleep["screen"]
    BY <1>2 DEF Sleep, PaceTypes, Threads
  <2>2. ToGo' = ToGo
    BY <1>2 DEF ToGo
  <2>3. asleep["screen"] \in Nat /\ unseen \in Nat
    BY PaceAssumption DEF PaceTypes, StatusTypes, Threads, Longest
  <2>4. ToGo \in Int /\ 7 * ViewSeconds + MaxOverhead \in Int
    BY PaceAssumption DEF PaceTypes, ToGo
  <2>5. 0 + asleep["screen"] + ToGo <= 7 * ViewSeconds + MaxOverhead
    BY <2>3, <2>4 DEF ShownInv
  <2>6. unseen' + asleep'["screen"] + ToGo' <= 7 * ViewSeconds + MaxOverhead
    BY <1>2, <2>1, <2>2, <2>5 DEF ShownInv
  <2> QED BY <1>2, <2>1, <2>6 DEF ShownInv
<1>3. CASE boot
  <2>1. unseen' = 0
    BY <1>3 DEF boot, ShownInv
  <2> QED BY <1>3, <2>1, ViewTakesItsTime DEF boot
<1>4. CASE screen_show_alarm
  <2>1. view = 1 /\ asleep["screen"] = 0
    BY <1>4, ShowingView DEF screen_show_alarm, PaceTypes
  <2> QED BY <1>4, <2>1, ViewTakesItsTime DEF screen_show_alarm
<1>5. CASE screen_show_temp_hum
  <2>1. view = 2 /\ asleep["screen"] = 0
    BY <1>5, ShowingView DEF screen_show_temp_hum, PaceTypes
  <2> QED BY <1>5, <2>1, ViewTakesItsTime DEF screen_show_temp_hum
<1>6. CASE OtherView
  <2>1. PICK name \in {"weather", "epoch", "latlon", "city", "datetime"} : Showing(name)
    BY <1>6 DEF OtherView
  <2>2. name # "alarm" /\ view \in 0 .. 7
    BY DEF PaceTypes
  <2>3. view \in 2 .. 7 /\ asleep["screen"] = 0
    BY <2>1, <2>2, ShowingView
  <2> QED BY <1>6, <2>3, ViewTakesItsTime DEF OtherView
<1>7. ASSUME NEW w \in Words, Load(w) PROVE ShownInv'
  BY <1>1, <1>7 DEF Load
<1>8. CASE Sensor
  BY <1>1, <1>2, <1>8 DEF Sensor, Sample, NoSample, Store
<1>9. ASSUME NEW pressed \in SUBSET Buttons, Pass(pressed) PROVE ShownInv'
  BY <1>2, <1>9 DEF Pass
<1>10. CASE Speaker
  BY <1>1, <1>10 DEF Speaker, Look, Pulse, Awake
<1>11. CASE Second
  <2>1. UNCHANGED <<view, overhead>> /\ unseen' \in {0, unseen + 1} /\ asleep["screen"] > 0
    BY <1>11 DEF Second, Threads
  <2>2. asleep'["screen"] = asleep["screen"] - 1
    BY <1>11 DEF Second, Threads
  <2>3. ToGo' = ToGo
    BY <2>1 DEF ToGo
  <2>4. asleep["screen"] \in Nat /\ unseen \in Nat
    BY PaceAssumption DEF PaceTypes, StatusTypes, Threads, Longest
  <2>5. ToGo \in Int /\ 7 * ViewSeconds + MaxOverhead \in Int
    BY PaceAssumption DEF PaceTypes, ToGo
  <2>6. /\ 0 + (asleep["screen"] - 1) + ToGo <= 7 * ViewSeconds + MaxOverhead
        /\ (unseen + 1) + (asleep["screen"] - 1) + ToGo <= 7 * ViewSeconds + MaxOverhead
    BY <2>4, <2>5 DEF ShownInv
  <2>7. unseen' + asleep'["screen"] + ToGo' <= 7 * ViewSeconds + MaxOverhead
    BY <2>1, <2>2, <2>3, <2>6
  <2>8. view # 0
    BY <2>1, <2>4 DEF ShownInv
  <2> QED BY <2>1, <2>7, <2>8 DEF ShownInv
<1>12. CASE UNCHANGED vars
  BY <1>1, <1>12 DEF vars
<1> QED BY <1>3, <1>4, <1>5, <1>6, <1>7, <1>8, <1>9, <1>10, <1>11, <1>12 DEF Next, Screen

-----------------------------------------------------------------------------
\* The screen thread reads while it is awake, so that no sleep of the sensor thread ends
\* before it has read everything; the sensor thread has at most one sample it has not
\* stored whole.
PairInv ==
    /\ DOMAIN taken # {} => view = 2 /\ asleep["screen"] = 0
    /\ storing # {} => ready /\ asleep["sensor"] = 0
    /\ \A w \in Words : age[w] = 0 \/ (age[w] = 1 /\ w \in storing)
    /\ \A v \in DOMAIN taken :
          taken[v] = 0 \/ (taken[v] = 1 /\ (asleep["sensor"] > 0 \/ storing # {}))
    /\ calm => /\ DOMAIN taken # {} /\ asleep["sensor"] > 0
               /\ \A v \in DOMAIN taken : taken[v] = 0

LEMMA NothingTaken == DOMAIN <<>> = {}
  OBVIOUS

\* Sleeping changes only the sleeper's time.
LEMMA OthersSleepOn ==
  ASSUME PaceTypes, NEW t \in Threads, NEW s, Sleep(t, s)
  PROVE  asleep'[t] = s /\ \A u \in Threads : u # t => asleep'[u] = asleep[u]
  BY DEF Sleep, PaceTypes

LEMMA NextViewSleeps ==
  ASSUME PaceTypes, NEW s, NextView(s)
  PROVE  asleep'["sensor"] = asleep["sensor"] /\ asleep'["alarm"] = asleep["alarm"]
  BY OthersSleepOn DEF NextView, Threads

LEMMA PairStep ==
  ASSUME PaceTypes, SensorTypes, PairInv, [Next]_vars
  PROVE  PairInv'
<1>0. asleep["sensor"] \in Nat /\ asleep["screen"] \in Nat
  BY PaceAssumption DEF PaceTypes, Threads, Longest
<1>1. ASSUME UNCHANGED <<sensor, reading, view>>, asleep'["sensor"] = asleep["sensor"],
             asleep'["screen"] = asleep["screen"]
      PROVE  PairInv'
  BY <1>1 DEF PairInv, sensor, reading
<1>2. ASSUME UNCHANGED <<sensor, reading>>, asleep'["sensor"] = asleep["sensor"],
             DOMAIN taken = {}
      PROVE  PairInv'
  BY <1>2 DEF PairInv, sensor, reading
<1>3. CASE boot
  <2>1. DOMAIN taken = {}
    BY <1>3 DEF boot, PairInv
  <2> QED BY <1>2, <1>3, <2>1, NextViewSleeps DEF boot
<1>4. CASE screen_show_alarm
  <2>1. view = 1
    BY <1>4, ShowingView DEF screen_show_alarm, PaceTypes
  <2>2. DOMAIN taken = {}
    BY <2>1 DEF PairInv
  <2> QED BY <1>2, <1>4, <2>2, NextViewSleeps DEF screen_show_alarm, reading
<1>5. CASE OtherView
  <2>1. PICK name \in {"weather", "epoch", "latlon", "city", "datetime"} : Showing(name)
    BY <1>5 DEF OtherView
  <2>2. name # "temp_hum" /\ view \in 0 .. 7
    BY DEF PaceTypes
  <2>3. view # 2
    BY <2>1, <2>2, ShowingView
  <2>4. DOMAIN taken = {}
    BY <2>3 DEF PairInv
  <2> QED BY <1>2, <1>5, <2>4, NextViewSleeps DEF OtherView
<1>6. CASE screen_show_temp_hum
  <2>1. taken' = <<>> /\ ~calm' /\ UNCHANGED sensor
    BY <1>6 DEF screen_show_temp_hum
  <2>2. asleep'["sensor"] = asleep["sensor"]
    BY <1>6, NextViewSleeps DEF screen_show_temp_hum
  <2>3. DOMAIN taken' = {}
    BY <2>1, NothingTaken
  <2> QED BY <2>1, <2>2, <2>3 DEF PairInv, sensor
<1>7. ASSUME NEW w \in Words, Load(w) PROVE PairInv'
  <2>1. view = 2 /\ asleep["screen"] = 0
    BY <1>7, ShowingView DEF Load, PaceTypes
  <2>2. UNCHANGED <<asleep, view, ready, storing, age>>
    BY <1>7 DEF Load, sensor
  <2>3. /\ DOMAIN taken' = DOMAIN taken \cup {w}
        /\ taken'[w] = age[w]
        /\ \A x \in DOMAIN taken : x # w => taken'[x] = taken[x]
    BY <1>7 DEF Load
  <2>4. age[w] = 0 \/ (age[w] = 1 /\ storing # {})
    BY DEF PairInv
  <2>5. calm' => /\ asleep["sensor"] > 0
                 /\ age[w] = 0
                 /\ \A x \in DOMAIN taken : taken[x] = 0
    <3> SUFFICES ASSUME calm'
                 PROVE  /\ asleep["sensor"] > 0
                        /\ age[w] = 0
                        /\ \A x \in DOMAIN taken : taken[x] = 0
      OBVIOUS
    <3>1. asleep["sensor"] > 0 /\ (taken = <<>> \/ calm)
      BY <1>7 DEF Load
    <3>2. storing = {}
      BY <3>1, <1>0 DEF PairInv
    <3>3. \A x \in DOMAIN taken : taken[x] = 0
      BY <3>1, NothingTaken DEF PairInv
    <3> QED BY <2>4, <3>1, <3>2, <3>3
  <2>6. \A v \in DOMAIN taken' :
          taken'[v] = 0 \/ (taken'[v] = 1 /\ (asleep["sensor"] > 0 \/ storing # {}))
    <3>1. \A v \in DOMAIN taken : v # w =>
            taken'[v] = 0 \/ (taken'[v] = 1 /\ (asleep["sensor"] > 0 \/ storing # {}))
      BY <2>3, Zenon DEF PairInv
    <3>2. taken'[w] = 0 \/ (taken'[w] = 1 /\ (asleep["sensor"] > 0 \/ storing # {}))
      BY <2>3, <2>4
    <3> QED BY <2>3, <3>1, <3>2, Zenon
  <2>7. calm' => \A v \in DOMAIN taken' : taken'[v] = 0
    BY <2>3, <2>5, Zenon
  <2> QED BY <2>1, <2>2, <2>3, <2>5, <2>6, <2>7, Zenon DEF PairInv
<1>8. CASE Sample
  <2>1. /\ ready /\ asleep["sensor"] = 0 /\ storing = {} /\ storing' = Words /\ ~calm'
        /\ UNCHANGED <<asleep, view, ready>>
    BY <1>8 DEF Sample
  <2>2. \A w \in Words : age[w] = 0
    BY <2>1 DEF PairInv
  <2>3. \A v \in DOMAIN taken : taken[v] = 0
    BY <2>1 DEF PairInv
  <2>4. DOMAIN age = Words
    BY DEF SensorTypes
  <2>5. ASSUME NEW f, \A w \in DOMAIN f : f[w] = 0
        PROVE  DOMAIN Older(f) = DOMAIN f /\ \A w \in DOMAIN f : Older(f)[w] = 1
    BY <2>5 DEF Older, MaxAge
  <2>6. \A w \in Words : age'[w] \in {0, 1}
    BY <1>8, <2>2, <2>4, <2>5 DEF Sample
  <2>7. DOMAIN taken' = DOMAIN taken /\ \A v \in DOMAIN taken : taken'[v] \in {0, 1}
    BY <1>8, <2>3, <2>5 DEF Sample
  <2>8. Words # {}
    BY DEF Words, TempWords
  <2> QED BY <2>1, <2>6, <2>7, <2>8 DEF PairInv
<1>9. ASSUME NEW w \in Words, Store(w) PROVE PairInv'
  <2>1. /\ w \in storing /\ storing' = storing \ {w} /\ age' = [age EXCEPT ![w] = 0]
        /\ UNCHANGED <<view, ready, taken, calm>>
    BY <1>9 DEF Store, reading
  <2>2. asleep["sensor"] = 0 /\ ready /\ ~calm
    BY <2>1, <1>0 DEF PairInv
  <2>3. /\ asleep'["screen"] = asleep["screen"]
        /\ storing' = {} => asleep'["sensor"] = SensorSeconds
        /\ storing' # {} => asleep'["sensor"] = 0
    BY <1>9, <2>2, OthersSleepOn DEF Store, Threads
  <2>4. storing' = {} => asleep'["sensor"] > 0
    BY <2>3, PaceAssumption
  <2>5. \A x \in Words : age'[x] = 0 \/ (age'[x] = 1 /\ x \in storing')
    BY <2>1 DEF PairInv, SensorTypes
  <2>6. \A v \in DOMAIN taken' : taken'[v] \in {0, 1}
    BY <2>1 DEF PairInv
  <2> QED BY <2>1, <2>2, <2>3, <2>4, <2>5, <2>6 DEF PairInv
<1>10. CASE NoSample
  <2>1. /\ asleep["sensor"] = 0 /\ ~ready
        /\ UNCHANGED <<view, ready, storing, age, taken, calm>>
    BY <1>10 DEF NoSample, sensor, reading
  <2>2. asleep'["screen"] = asleep["screen"] /\ asleep'["sensor"] = SensorSeconds
    BY <1>10, OthersSleepOn DEF NoSample, Threads
  <2>3. asleep'["sensor"] > 0
    BY <2>2, PaceAssumption
  <2>4. ~calm /\ storing = {}
    BY <2>1, <1>0 DEF PairInv
  <2> QED BY <2>1, <2>2, <2>3, <2>4 DEF PairInv
<1>11. ASSUME NEW pressed \in SUBSET Buttons, Pass(pressed) PROVE PairInv'
  BY <1>1, <1>11, OthersSleepOn DEF Pass, Threads
<1>12. CASE Speaker
  BY <1>1, <1>12 DEF Speaker, Look, Pulse, Awake
<1>13. CASE Second
  <2>1. /\ asleep["screen"] > 0 /\ asleep["sensor"] > 0
        /\ UNCHANGED <<view, ready, storing, age, taken, calm>>
    BY <1>13 DEF Second, Threads, sensor, reading
  <2>2. asleep["screen"] # 0 /\ asleep["sensor"] # 0
    BY <2>1, <1>0
  <2>3. DOMAIN taken = {} /\ storing = {} /\ ~calm
    BY <2>2, Zenon DEF PairInv
  <2> QED BY <2>1, <2>3 DEF PairInv
<1>14. CASE UNCHANGED vars
  BY <1>1, <1>14 DEF vars
<1> QED BY <1>3, <1>4, <1>5, <1>6, <1>7, <1>8, <1>9, <1>10, <1>11, <1>12, <1>13, <1>14
        DEF Next, Screen, Sensor

-----------------------------------------------------------------------------
\* The alarm's flags agree between two passes.
FlagsInv ==
    /\ alarm.active => alarm.enabled /\ ~alarm.snoozed
    /\ alarm.snoozed => alarm.enabled
    /\ ~alarm.active => alarm.active_seconds = 0
    /\ alarm.snoozed => alarm.snooze_seconds_left <= SnoozeSeconds

\* The alarm thread makes one pass per second, so that a status not shown yet has waited
\* as long as the alarm has rung or slept.
PeriodInv ==
    /\ asleep["alarm"] \in {0, 1}
    /\ shown # "ringing" /\ alarm.active => alarm.active_seconds <= unseen + asleep["alarm"]
    /\ shown # "snoozed" /\ alarm.snoozed =>
          SnoozeSeconds - alarm.snooze_seconds_left <= unseen + asleep["alarm"]

\* The flags of a agree, and it has rung or slept for no longer than this.
Steady(a, rung, slept) ==
    /\ a.active => a.enabled /\ ~a.snoozed
    /\ a.snoozed => a.enabled
    /\ ~a.active => a.active_seconds = 0
    /\ a.active_seconds <= rung
    /\ a.snoozed => /\ a.snooze_seconds_left <= SnoozeSeconds
                    /\ SnoozeSeconds - a.snooze_seconds_left <= slept

\* Pressing a button lets the alarm ring or sleep no longer than it has.
LEMMA ButtonsSteady ==
  ASSUME NEW pressed, NEW a \in Alarms, NEW rung \in Nat, NEW slept \in Nat,
         Steady(a, rung, slept)
  PROVE  /\ After(pressed)!alarm_snooze(a) \in Alarms
         /\ Steady(After(pressed)!alarm_snooze(a), rung, slept)
         /\ After(pressed)!alarm_mute(a) \in Alarms
         /\ Steady(After(pressed)!alarm_mute(a), rung, slept)
         /\ After(pressed)!alarm_toggle_enabled(a) \in Alarms
         /\ Steady(After(pressed)!alarm_toggle_enabled(a), rung, slept)
<1> USE PeriodAssumption DEF Alarms, Steady, After!Silenced
<1>1. /\ After(pressed)!alarm_snooze(a) \in Alarms
      /\ Steady(After(pressed)!alarm_snooze(a), rung, slept)
  BY DEF After!alarm_snooze
<1>2. /\ After(pressed)!alarm_mute(a) \in Alarms
      /\ Steady(After(pressed)!alarm_mute(a), rung, slept)
  BY DEF After!alarm_mute
<1>3. /\ After(pressed)!alarm_toggle_enabled(a) \in Alarms
      /\ Steady(After(pressed)!alarm_toggle_enabled(a), rung, slept)
  <2> DEFINE n   == After(pressed)!Silenced(a)
             off == [n EXCEPT !.enabled = FALSE]
             on  == [a EXCEPT !.enabled = TRUE]
  <2>1. n \in Alarms /\ ~n.active /\ ~n.snoozed /\ n.active_seconds = 0
    OBVIOUS
  <2>2. off \in Alarms /\ Steady(off, rung, slept)
    <3> HIDE DEF n
    <3>1. off \in Alarms
      BY <2>1
    <3>2. off.active = n.active /\ off.snoozed = n.snoozed /\ off.active_seconds = n.active_seconds
      BY <2>1
    <3> HIDE DEF off
    <3>3. Steady(off, rung, slept)
      BY <2>1, <3>1, <3>2
    <3> QED BY <3>1, <3>3
  <2>3. on \in Alarms
    OBVIOUS
  <2>4. ~a.enabled => Steady(on, rung, slept)
    OBVIOUS
  <2> QED BY <2>2, <2>3, <2>4, Zenon DEF After!alarm_toggle_enabled
<1> QED BY <1>1, <1>2, <1>3, Zenon

\* Counting adds a second at most.
LEMMA CountersSteady ==
  ASSUME NEW a \in Alarms, NEW rung \in Nat, NEW slept \in Nat, Steady(a, rung, slept)
  PROVE  /\ After({})!CheckTime(a) \in Alarms
         /\ Steady(After({})!CheckTime(a), rung, slept)
         /\ After({})!CountSnooze(a) \in Alarms
         /\ Steady(After({})!CountSnooze(a), rung, slept + 1)
         /\ After({})!CountRinging(a) \in Alarms
         /\ Steady(After({})!CountRinging(a), rung + 1, slept)
<1> USE PeriodAssumption DEF Alarms, Steady
<1>1. After({})!CheckTime(a) \in Alarms /\ Steady(After({})!CheckTime(a), rung, slept)
  BY DEF After!CheckTime
<1>2. After({})!CountSnooze(a) \in Alarms /\ Steady(After({})!CountSnooze(a), rung, slept + 1)
  BY DEF After!CountSnooze
<1>3. After({})!CountRinging(a) \in Alarms /\ Steady(After({})!CountRinging(a), rung + 1, slept)
  <2>1. [a EXCEPT !.active = FALSE, !.active_seconds = 0] \in Alarms
    OBVIOUS
  <2>2. [a EXCEPT !.active_seconds = a.active_seconds + 1] \in Alarms
    OBVIOUS
  <2>3. Steady([a EXCEPT !.active = FALSE, !.active_seconds = 0], rung + 1, slept)
    OBVIOUS
  <2>4. a.active => Steady([a EXCEPT !.active_seconds = a.active_seconds + 1], rung + 1, slept)
    OBVIOUS
  <2>5. ~a.active => Steady(a, rung + 1, slept)
    OBVIOUS
  <2> QED BY <2>1, <2>2, <2>3, <2>4, <2>5, Zenon DEF After!CountRinging
<1> QED BY <1>1, <1>2, <1>3, Zenon

\* One pass lets the alarm ring, or its snooze last, for one more second at most.
LEMMA PassSteady ==
  ASSUME NEW pressed, alarm \in Alarms, NEW rung \in Nat, NEW slept \in Nat,
         Steady(alarm, rung, slept)
  PROVE  Passed(pressed) \in Alarms /\ Steady(Passed(pressed), rung + 1, slept + 1)
<1>1. After(pressed)!AfterSnooze \in Alarms /\ Steady(After(pressed)!AfterSnooze, rung, slept)
  BY ButtonsSteady DEF After!AfterSnooze
<1>2. After(pressed)!AfterMute \in Alarms /\ Steady(After(pressed)!AfterMute, rung, slept)
  BY <1>1, ButtonsSteady DEF After!AfterMute
<1>3. After(pressed)!AfterEnable \in Alarms /\ Steady(After(pressed)!AfterEnable, rung, slept)
  BY <1>2, ButtonsSteady DEF After!AfterEnable
<1> DEFINE c == After({})!CheckTime(After(pressed)!AfterEnable)
           n == After({})!CountSnooze(c)
<1>4. c \in Alarms /\ Steady(c, rung, slept)
  BY <1>3, CountersSteady
<1> HIDE DEF c
<1>5. n \in Alarms /\ Steady(n, rung, slept + 1) /\ slept + 1 \in Nat
  BY <1>4, CountersSteady
<1>6. Passed(pressed) = After({})!CountRinging(n)
  BY DEF Passed, Counted, c
<1> HIDE DEF n
<1>7. After({})!CountRinging(n) \in Alarms /\ Steady(After({})!CountRinging(n), rung + 1, slept + 1)
  BY <1>5, CountersSteady
<1> QED BY <1>6, <1>7

\* What the alarm's variables say before a pass bounds what they say after it.
LEMMA PassBounds ==
  ASSUME alarm \in Alarms, FlagsInv, NEW pressed
  PROVE  LET a == Passed(pressed) IN
         /\ a \in Alarms
         /\ a.active => a.enabled /\ ~a.snoozed
         /\ a.snoozed => a.enabled
         /\ ~a.active => a.active_seconds = 0
         /\ a.active_seconds <= alarm.active_seconds + 1
         /\ a.snoozed => /\ a.snooze_seconds_left <= SnoozeSeconds
                         /\ SnoozeSeconds - a.snooze_seconds_left <=
                               (IF alarm.snoozed THEN SnoozeSeconds - alarm.snooze_seconds_left
                                                 ELSE 0) + 1
<1> DEFINE rung  == alarm.active_seconds
           slept == IF alarm.snoozed THEN SnoozeSeconds - alarm.snooze_seconds_left ELSE 0
<1>1. rung \in Nat /\ slept \in Nat
  BY PeriodAssumption DEF Alarms, FlagsInv
<1>2. Steady(alarm, rung, slept)
  <2>1. alarm.active_seconds <= rung
    BY <1>1
  <2>2. alarm.snoozed => slept = SnoozeSeconds - alarm.snooze_seconds_left /\ slept <= slept
    BY <1>1
  <2> HIDE DEF rung, slept
  <2> QED BY <2>1, <2>2 DEF Steady, FlagsInv
<1>3. Passed(pressed) \in Alarms /\ Steady(Passed(pressed), rung + 1, slept + 1)
  BY <1>1, <1>2, PassSteady
<1> QED BY <1>3 DEF Steady

LEMMA FlagsStep == ASSUME AlarmTypes, FlagsInv, [Next]_vars PROVE FlagsInv'
<1>1. ASSUME UNCHANGED alarm PROVE FlagsInv'
  BY <1>1 DEF FlagsInv
<1>2. ASSUME NEW pressed \in SUBSET Buttons, Pass(pressed) PROVE FlagsInv'
  <2>1. alarm' = Passed(pressed)
    BY <1>2 DEF Pass, Passed
  <2> QED BY <2>1, PassBounds DEF FlagsInv, AlarmTypes
<1>3. CASE Screen
  BY <1>1, <1>3 DEF Screen, boot, screen_show_alarm, screen_show_temp_hum, OtherView, Load
<1>4. CASE Sensor
  BY <1>1, <1>4 DEF Sensor, Sample, NoSample, Store
<1>5. CASE Speaker
  BY <1>1, <1>5 DEF Speaker, Look, Pulse, Awake
<1>6. CASE Second \/ UNCHANGED vars
  BY <1>1, <1>6 DEF Second, vars
<1> QED BY <1>2, <1>3, <1>4, <1>5, <1>6 DEF Next

LEMMA StatusNames ==
  ASSUME NEW a \in Alarms,
         a.active => a.enabled /\ ~a.snoozed,
         a.snoozed => a.enabled
  PROVE  /\ a.active => Status(a) = "ringing"
         /\ a.snoozed => Status(a) = "snoozed"
  BY DEF Status, Before!Status

LEMMA PeriodStep ==
  ASSUME AlarmTypes, PaceTypes, StatusTypes, FlagsInv, PeriodInv, [Next]_vars
  PROVE  PeriodInv'
<1>0. /\ alarm.active => Status(alarm) = "ringing"
      /\ alarm.snoozed => Status(alarm) = "snoozed"
  BY StatusNames DEF AlarmTypes, FlagsInv
<1>1. ASSUME UNCHANGED <<alarm, shown, unseen>>, asleep'["alarm"] = asleep["alarm"]
      PROVE  PeriodInv'
  BY <1>1 DEF PeriodInv
<1>2. CASE boot \/ screen_show_temp_hum \/ OtherView
  BY <1>1, <1>2, NextViewSleeps DEF boot, screen_show_temp_hum, OtherView
<1>3. CASE screen_show_alarm
  <2>1. shown' = Status(alarm) /\ alarm' = alarm /\ asleep'["alarm"] = asleep["alarm"]
    BY <1>3, NextViewSleeps DEF screen_show_alarm
  <2> QED BY <1>0, <2>1, Zenon DEF PeriodInv
<1>4. ASSUME NEW w \in Words, Load(w) PROVE PeriodInv'
  BY <1>1, <1>4 DEF Load
<1>5. CASE Sensor
  BY <1>1, <1>5, OthersSleepOn DEF Sensor, Sample, NoSample, Store, Threads
<1>6. CASE Speaker
  BY <1>1, <1>6 DEF Speaker, Look, Pulse, Awake
<1>7. ASSUME NEW pressed \in SUBSET Buttons, Pass(pressed) PROVE PeriodInv'
  <2> DEFINE a == Passed(pressed)
  <2>1. alarm' = a /\ UNCHANGED shown
    BY <1>7 DEF Pass, Passed
  <2>2. asleep["alarm"] = 0 /\ asleep'["alarm"] = 1
    BY <1>7, OthersSleepOn DEF Pass, Threads
  <2>3. unseen' = IF Status(a) = Status(alarm) THEN unseen ELSE 0
    BY <1>7, <2>1 DEF Pass
  <2>4. alarm \in Alarms /\ unseen \in Nat
    BY DEF AlarmTypes, StatusTypes
  <2>5. /\ a \in Alarms
        /\ a.active => a.enabled /\ ~a.snoozed
        /\ a.snoozed => a.enabled
        /\ a.active_seconds <= alarm.active_seconds + 1
        /\ a.snoozed => SnoozeSeconds - a.snooze_seconds_left <=
                          (IF alarm.snoozed THEN SnoozeSeconds - alarm.snooze_seconds_left
                                            ELSE 0) + 1
    BY <2>4, PassBounds
  <2> HIDE DEF a
  <2>6. /\ a.active => Status(a) = "ringing"
        /\ a.snoozed => Status(a) = "snoozed"
    BY <2>5, StatusNames
  <2>7. ASSUME shown # "ringing", a.active PROVE a.active_seconds <= unseen' + 1
    <3>0. a.active_seconds \in Nat /\ alarm.active_seconds \in Nat
      BY <2>4, <2>5 DEF Alarms
    <3>1. CASE alarm.active
      <4>1. unseen' = unseen
        BY <1>0, <2>3, <2>6, <2>7, <3>1
      <4>2. alarm.active_seconds <= unseen + 0
        BY <2>2, <2>7, <3>1 DEF PeriodInv
      <4> QED BY <2>4, <2>5, <3>0, <4>1, <4>2
    <3>2. CASE ~alarm.active
      <4>1. alarm.active_seconds = 0
        BY <3>2 DEF FlagsInv
      <4>2. unseen' \in Nat
        BY <2>3, <2>4
      <4> QED BY <2>5, <3>0, <4>1, <4>2
    <3> QED BY <3>1, <3>2
  <2>8. ASSUME shown # "snoozed", a.snoozed
        PROVE  SnoozeSeconds - a.snooze_seconds_left <= unseen' + 1
    <3>0. /\ a.snooze_seconds_left \in Int /\ alarm.snooze_seconds_left \in Int
          /\ SnoozeSeconds \in Nat
      BY <2>4, <2>5, PeriodAssumption DEF Alarms
    <3>1. CASE alarm.snoozed
      <4>1. unseen' = unseen
        BY <1>0, <2>3, <2>6, <2>8, <3>1
      <4>2. SnoozeSeconds - alarm.snooze_seconds_left <= unseen + 0
        BY <2>2, <2>8, <3>1 DEF PeriodInv
      <4>3. SnoozeSeconds - a.snooze_seconds_left <=
              (SnoozeSeconds - alarm.snooze_seconds_left) + 1
        BY <2>5, <2>8, <3>1
      <4> QED BY <2>4, <3>0, <4>1, <4>2, <4>3
    <3>2. CASE ~alarm.snoozed
      <4>1. SnoozeSeconds - a.snooze_seconds_left <= 0 + 1
        BY <2>5, <2>8, <3>2
      <4>2. unseen' \in Nat
        BY <2>3, <2>4
      <4> QED BY <3>0, <4>1, <4>2
    <3> QED BY <3>1, <3>2
  <2>9. asleep'["alarm"] \in {0, 1}
    BY <2>2
  <2> QED BY <2>1, <2>2, <2>7, <2>8, <2>9, Zenon DEF PeriodInv
<1>8. CASE Second
  <2>1. UNCHANGED <<alarm, shown>>
    BY <1>8 DEF Second
  <2>2. asleep["alarm"] = 1 /\ asleep'["alarm"] = 0
    <3>1. asleep["alarm"] > 0 /\ asleep'["alarm"] = asleep["alarm"] - 1
      BY <1>8 DEF Second, Threads
    <3> QED BY <3>1 DEF PeriodInv
  <2>3. shown # Status(alarm) => unseen' = unseen + 1
    BY <1>8 DEF Second
  <2>4. unseen \in Nat
    BY DEF StatusTypes
  <2>5. ASSUME shown # "ringing", alarm.active PROVE alarm.active_seconds <= unseen' + 0
    <3>1. unseen' = unseen + 1
      BY <1>0, <2>3, <2>5
    <3>2. alarm.active_seconds <= unseen + 1
      BY <2>2, <2>5 DEF PeriodInv
    <3> QED BY <2>4, <3>1, <3>2
  <2>6. ASSUME shown # "snoozed", alarm.snoozed
        PROVE  SnoozeSeconds - alarm.snooze_seconds_left <= unseen' + 0
    <3>1. unseen' = unseen + 1
      BY <1>0, <2>3, <2>6
    <3>2. SnoozeSeconds - alarm.snooze_seconds_left <= unseen + 1
      BY <2>2, <2>6 DEF PeriodInv
    <3> QED BY <2>4, <3>1, <3>2
  <2>7. asleep'["alarm"] \in {0, 1}
    BY <2>2
  <2> QED BY <2>1, <2>2, <2>5, <2>6, <2>7, Zenon DEF PeriodInv
<1>9. CASE UNCHANGED vars
  BY <1>1, <1>9 DEF vars
<1> QED BY <1>2, <1>3, <1>4, <1>5, <1>6, <1>7, <1>8, <1>9 DEF Next, Screen

-----------------------------------------------------------------------------
(***************************************************************************)
(* The theorems.                                                           *)
(***************************************************************************)
DisplayInv == /\ AlarmTypes /\ PaceTypes /\ StatusTypes /\ SensorTypes /\ SpeakerTypes
              /\ ShownInv /\ PairInv /\ BeepInv /\ FlagsInv /\ PeriodInv

LEMMA DisplayInitially == Init => DisplayInv
<1> SUFFICES ASSUME Init PROVE DisplayInv
  OBVIOUS
<1> USE PaceAssumption, PeriodAssumption
<1>1. AlarmTypes
  BY ClockAssumption DEF Init, AlarmTypes, Clocks, Alarms
<1>2. PaceTypes
  BY DEF Init, PaceTypes, Longest
<1>3. StatusTypes
  BY DEF Init, StatusTypes
<1>4. SensorTypes
  <2>1. age \in [Words -> 0 .. MaxAge]
    BY DEF Init, MaxAge
  <2>2. DOMAIN taken \in SUBSET Words /\ calm \in BOOLEAN
    BY NothingTaken DEF Init
  <2> QED BY <2>1, <2>2 DEF Init, SensorTypes
<1>5. SpeakerTypes
  <2>1. pulses \in 0 .. Pulses /\ late \in Nat /\ silence \in Nat
    BY DEF Init
  <2>2. speaker \in {"none", "look"} /\ polled \in BOOLEAN
    BY DEF Init
  <2> QED BY <2>1, <2>2 DEF SpeakerTypes
<1>6. ShownInv
  <2>1. ToGo = 0 /\ asleep["screen"] = 0 /\ unseen = 0
    BY DEF Init, ToGo, Threads
  <2> QED BY <2>1 DEF Init, ShownInv
<1>7. PairInv
  BY NothingTaken DEF Init, PairInv
<1>8. BeepInv
  BY DEF Init, BeepInv, Left
<1>9. FlagsInv
  BY DEF Init, FlagsInv
<1>10. PeriodInv
  BY DEF Init, PeriodInv, Threads
<1> QED BY <1>1, <1>2, <1>3, <1>4, <1>5, <1>6, <1>7, <1>8, <1>9, <1>10 DEF DisplayInv

LEMMA DisplayStep == DisplayInv /\ [Next]_vars => DisplayInv'
<1> SUFFICES ASSUME DisplayInv, [Next]_vars PROVE DisplayInv'
  OBVIOUS
<1>0. /\ AlarmTypes /\ PaceTypes /\ StatusTypes /\ SensorTypes /\ SpeakerTypes
      /\ ShownInv /\ PairInv /\ BeepInv /\ FlagsInv /\ PeriodInv
  BY DEF DisplayInv
<1>1. AlarmTypes' /\ PaceTypes' /\ StatusTypes' /\ SensorTypes' /\ SpeakerTypes'
  BY <1>0, AlarmTyping, PaceTyping, StatusTyping, SensorTyping, SpeakerTyping
<1>2. ShownInv' /\ PairInv' /\ BeepInv' /\ FlagsInv' /\ PeriodInv'
  BY <1>0, ShownStep, PairStep, BeepStep, FlagsStep, PeriodStep
<1> QED BY <1>1, <1>2 DEF DisplayInv

LEMMA DisplayAlways == Spec => []DisplayInv
  BY DisplayInitially, DisplayStep, PTL DEF Spec

\* Every variable of the four threads, and of the alarm's clock and flags, keeps its
\* type: the views and the counters of the beep stay in range (screen.c:300-345,
\* alarm.c:137-157).
THEOREM DisplayTyping == Spec => []TypeOK
<1>1. DisplayInv => TypeOK
  <2> SUFFICES ASSUME DisplayInv PROVE TypeOK
    OBVIOUS
  <2>1. After({})!TypeOK
    <3>1. Before({})!Later(clock) \in Clocks /\ alarm \in Alarms
      BY LaterType DEF DisplayInv, AlarmTypes
    <3> QED BY <3>1 DEF After!TypeOK, After!Steps, After!Buttons, After!Levels,
                        Clocks, Alarms, Buttons
  <2>2. /\ asleep \in [Threads -> 0 .. Longest]
        /\ view \in 0 .. Len(Views)
        /\ overhead \in 0 .. MaxOverhead
    BY SevenViews DEF DisplayInv, PaceTypes
  <2> QED BY <2>1, <2>2, Zenon
          DEF TypeOK, DisplayInv, StatusTypes, SensorTypes, SpeakerTypes, Longest
<1> QED BY <1>1, DisplayAlways, PTL

LEMMA WaitIsBounded == ASSUME DisplayInv PROVE StatusIsShown
<1>1. asleep["screen"] \in Nat /\ unseen \in Nat /\ ToGo \in Nat
  <2>1. asleep["screen"] \in Nat /\ unseen \in Nat
    BY PaceAssumption DEF DisplayInv, PaceTypes, StatusTypes, Threads, Longest
  <2>2. view \in 0 .. 7 /\ overhead \in 0 .. MaxOverhead
    BY DEF DisplayInv, PaceTypes
  <2>3. (8 - view) * ViewSeconds \in Nat
    BY <2>2, PaceAssumption
  <2>4. MaxOverhead - overhead \in Nat
    BY <2>2, PaceAssumption
  <2>5. ToGo \in Nat
    BY <2>3, <2>4 DEF ToGo
  <2> QED BY <2>1, <2>5
<1>2. unseen + asleep["screen"] + ToGo <= 7 * ViewSeconds + MaxOverhead
  BY DEF DisplayInv, ShownInv
<1>3. 7 * ViewSeconds + MaxOverhead \in Nat
  BY PaceAssumption
<1>4. unseen <= 7 * ViewSeconds + MaxOverhead
  BY <1>1, <1>2, <1>3
<1> QED BY <1>4, SevenViews DEF StatusIsShown

\* StatusIsShown for every pace: what is left of a round of the views bounds what a
\* status still has to wait (screen_thread_entry).
THEOREM StatusShownInTime == Spec => []StatusIsShown
<1>1. DisplayInv => StatusIsShown
  BY WaitIsBounded
<1> QED BY <1>1, DisplayAlways, PTL

\* PairShown for every pace of the two threads, and every order of the loads and
\* stores of the words (tem_hum.c:58-59, screen.c:92-93).
THEOREM PairsAreClose == Spec => []PairShown
<1>1. DisplayInv => PairShown
  <2> SUFFICES ASSUME PairInv, NEW v \in DOMAIN taken, NEW w \in DOMAIN taken
               PROVE  taken[v] <= taken[w] + 1 /\ (calm => taken[v] = taken[w])
    BY DEF DisplayInv, PairShown
  <2>1. taken[v] \in {0, 1} /\ taken[w] \in {0, 1}
    BY DEF PairInv
  <2>2. calm => taken[v] = 0 /\ taken[w] = 0
    BY DEF PairInv
  <2> QED BY <2>1, <2>2
<1> QED BY <1>1, DisplayAlways, PTL

\* SpeakerFollows for every length of a burst and of the alarm's periods
\* (alarm.c:137-157).
THEOREM SpeakerKeepsUp == Spec => []SpeakerFollows
<1>1. DisplayInv => SpeakerFollows
  <2> SUFFICES ASSUME DisplayInv PROVE SpeakerFollows
    OBVIOUS
  <2>1. late \in Nat /\ Left \in Nat /\ Pulses \in Nat
    BY PaceAssumption DEF DisplayInv, SpeakerTypes, Left
  <2>2. late + Left <= Pulses /\ silence \in {0, 1, 2}
    BY DEF DisplayInv, BeepInv
  <2> QED BY <2>1, <2>2 DEF SpeakerFollows
<1> QED BY <1>1, DisplayAlways, PTL

\* PeriodsAreShown whenever both periods are longer than a round of the views, as 20
\* and 300 seconds are longer than 14 and what its messages take.
THEOREM NoPeriodUnseen ==
  ASSUME AlarmAutoMuteSeconds - 1 > Len(Views) * ViewSeconds + MaxOverhead,
         SnoozeSeconds - 1 > Len(Views) * ViewSeconds + MaxOverhead
  PROVE  Spec => PeriodsAreShown
<1> DEFINE Told ==
      /\ alarm.active_seconds = AlarmAutoMuteSeconds - 1 /\ ~alarm'.active => shown = "ringing"
      /\ alarm.snoozed /\ alarm.snooze_seconds_left = 1 /\ alarm'.active => shown = "snoozed"
<1>1. DisplayInv /\ [Next]_vars => [Told]_vars
  <2> SUFFICES ASSUME DisplayInv, [Next]_vars PROVE Told
    OBVIOUS
  <2>1. FlagsInv /\ PeriodInv /\ alarm \in Alarms
    BY DEF DisplayInv, AlarmTypes
  <2>2. unseen \in Nat /\ unseen <= Len(Views) * ViewSeconds + MaxOverhead
    BY WaitIsBounded DEF DisplayInv, StatusTypes, StatusIsShown
  <2>3. Len(Views) * ViewSeconds + MaxOverhead \in Nat
    BY PaceAssumption, SevenViews
  <2>4. alarm' # alarm => asleep["alarm"] = 0
    BY DEF Next, Screen, boot, screen_show_alarm, screen_show_temp_hum, OtherView, Load,
           Sensor, Sample, NoSample, Store, Pass, Speaker, Look, Pulse, Awake, Second, vars
  <2>5. ASSUME alarm.active_seconds = AlarmAutoMuteSeconds - 1, ~alarm'.active
        PROVE  shown = "ringing"
    <3> SUFFICES ASSUME shown # "ringing" PROVE FALSE
      OBVIOUS
    <3>1. alarm.active_seconds > unseen
      BY <2>2, <2>3, <2>5, PeriodAssumption
    <3>2. alarm.active_seconds # 0
      BY <2>2, <3>1
    <3>3. alarm.active
      BY <2>1, <3>2 DEF FlagsInv
    <3>4. asleep["alarm"] = 0
      BY <2>4, <2>5, <3>3
    <3>5. alarm.active_seconds <= unseen + 0
      BY <2>1, <3>3, <3>4 DEF PeriodInv
    <3> QED BY <2>2, <2>5, <3>1, <3>5, PeriodAssumption
  <2>6. ASSUME alarm.snoozed, alarm.snooze_seconds_left = 1, alarm'.active
        PROVE  shown = "snoozed"
    <3> SUFFICES ASSUME shown # "snoozed" PROVE FALSE
      OBVIOUS
    <3>1. ~alarm.active
      BY <2>1, <2>6 DEF FlagsInv
    <3>2. asleep["alarm"] = 0
      BY <2>4, <2>6, <3>1
    <3>3. SnoozeSeconds - 1 <= unseen + 0
      BY <2>1, <2>6, <3>2 DEF PeriodInv
    <3> QED BY <2>2, <2>3, <3>3, PeriodAssumption
  <2> QED BY <2>5, <2>6
<1>2. Spec => [][Told]_vars
  BY <1>1, DisplayAlways, PTL DEF Spec
<1> QED BY <1>2 DEF PeriodsAreShown
=============================================================================
