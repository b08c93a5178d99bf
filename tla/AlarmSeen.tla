------------------------------ MODULE AlarmSeen ------------------------------
(***************************************************************************)
(* The alarm thread with what the threads that read its variables may see. *)
(* The screen thread is more urgent and may preempt it between two stores; *)
(* the variables are plain statics, so the stores of one function reach    *)
(* memory in any order.  They are all made before the function's next      *)
(* external call: the printk at the end of every operation, the reading of *)
(* the pins, k_sleep.                                                      *)
(*                                                                         *)
(* The alarm's own variables hold what the thread has computed, mem what   *)
(* it has stored.  A preempting reader reads mem at one moment, because    *)
(* the alarm thread does not run before the reader sleeps: a state of mem  *)
(* is a view the screen may show, and its invariants speak of every view.  *)
(***************************************************************************)
EXTENDS AlarmHistory, Sequences

VARIABLES
    mem,     \* the variables that alarm_get_clock_text and _status_text read
    stored,  \* history: mem when no store was under way
    goals    \* what mem has to become, operation by operation

svars == <<pc, clock, alarm, last, pin, speaker, fresh, since, kind, mem, stored, goals>>

ClockParts == {"hour", "minute", "second"}

Image(c, a) == [hour |-> c.hour, minute |-> c.minute, second |-> c.second,
                enabled |-> a.enabled, active |-> a.active, snoozed |-> a.snoozed]

SInit == /\ HInit
         /\ mem = Image(clock, alarm)
         /\ stored = mem
         /\ goals = <<>>

\* The one image that memory takes on after another, or none if they are the same.
Change(from, to) == IF to = from THEN <<>> ELSE <<to>>

\* What a step of the thread will have stored, operation by operation: the poll
\* calls up to three operations, each of which ends with a printk.
Stores ==
    LET snoozed == Image(clock, AfterSnooze)
        muted   == Image(clock, AfterMute)
        toggled == Image(clock, AfterEnable)
    IN  IF pc = "alarm_check_buttons"
        THEN Change(mem, snoozed) \o Change(snoozed, muted) \o Change(muted, toggled)
        ELSE Change(mem, Image(clock', alarm'))

Run == /\ goals = <<>>
       /\ HAlarmThread
       /\ goals' = Stores
       /\ UNCHANGED <<mem, stored>>

Limit(v) == CASE v = "hour" -> HoursPerDay
              [] v = "minute" -> MinutesPerHour
              [] v = "second" -> SecondsPerMinute

\* One store.  A part of the clock that returns to 0 may be seen at its limit: it
\* is incremented first and tested then.
Store(v) ==
    /\ goals # <<>> /\ mem[v] # Head(goals)[v]
    /\ \/ mem' = [mem EXCEPT ![v] = Head(goals)[v]]
       \/ /\ v \in ClockParts /\ Head(goals)[v] = 0 /\ mem[v] # Limit(v)
          /\ mem' = [mem EXCEPT ![v] = Limit(v)]
    /\ IF mem' = Head(goals) THEN stored' = mem' /\ goals' = Tail(goals)
                             ELSE UNCHANGED <<stored, goals>>
    /\ UNCHANGED hvars

SAlarmThread == Run \/ \E v \in DOMAIN mem : Store(v)

SPinChange(b) == HPinChange(b) /\ UNCHANGED <<mem, stored, goals>>

SNext == SAlarmThread \/ \E b \in Buttons : SPinChange(b)

\* As in Alarm: the thread keeps running, the buttons do as they like.
SSpec == SInit /\ [][SNext]_svars /\ WF_svars(SAlarmThread)

-----------------------------------------------------------------------------
\* A view that falls between two stores of an operation shows the status before
\* it, the status after it, or "armed": it never tells of a snooze, a ringing or
\* a switch-off that neither was nor comes (alarm.c:251, 263, 274).
StatusSeen == Status(mem) \in {Status(stored), "armed"}
                  \cup IF goals = <<>> THEN {} ELSE {Status(Head(goals))}

Distance(x, y) == IF x < y THEN y - x ELSE x - y

\* A view that falls into update_clock is off by no more than a minute, and only
\* in the second in which the hour changes by up to an hour and a minute (a part
\* may be seen at its limit); a view at any other moment shows the thread's time.
ClockSeen ==
    LET parts == [p \in ClockParts |-> clock[p]]
        seen  == [p \in ClockParts |-> mem[p]]
        off   == Distance(SecondOfDay(seen), SecondOfDay(parts))
        hour  == MinutesPerHour * SecondsPerMinute
        far   == hour + SecondsPerMinute
    IN  /\ pc # "alarm_check_buttons" => seen = parts
        /\ clock.minute # 0 \/ clock.second # 0 => off <= SecondsPerMinute
        /\ off <= far \/ Distance(off, HoursPerDay * hour) <= far
=============================================================================
