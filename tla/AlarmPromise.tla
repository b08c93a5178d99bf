---------------------------- MODULE AlarmPromise ----------------------------
(***************************************************************************)
(* What the alarm clock promises its user, without threads, polling or     *)
(* flags: the clock counts the seconds of a day; each time it reaches the  *)
(* alarm time the alarm decides exactly once whether to ring, and it rings *)
(* if and only if it is armed; a ringing alarm can be snoozed, muted or    *)
(* switched off and mutes itself after AutoMutePeriod; a snoozed one rings *)
(* again after SnoozePeriod.  Alarm.tla implements it (Alarm!Promise).     *)
(***************************************************************************)
EXTENDS Integers

CONSTANTS DayLength,       \* seconds of a day
          AlarmTime,       \* second of the day at which the alarm is due
          AutoMutePeriod,  \* seconds after which a ringing alarm mutes itself
          SnoozePeriod     \* seconds after which a snoozed alarm rings again

VARIABLES time,   \* second of the day
          due,    \* the alarm time has come and nothing was decided yet
          mode,   \* what the user is told about the alarm
          timer   \* seconds spent in the mode, while ringing or snoozed

vars == <<time, due, mode, timer>>

Modes == {"disabled", "armed", "ringing", "snoozed"}

Init == /\ time = 0
        /\ due = FALSE
        /\ mode = "armed"
        /\ timer = 0

(***************************************************************************)
(* Time and the decision to ring.  The clock does not pass the alarm time  *)
(* before the decision is made.                                            *)
(***************************************************************************)
Tick == /\ ~due
        /\ time' = IF time + 1 = DayLength THEN 0 ELSE time + 1
        /\ due' = (time' = AlarmTime)
        /\ UNCHANGED <<mode, timer>>

Ring == /\ due
        /\ mode = "armed"
        /\ due' = FALSE
        /\ mode' = "ringing"
        /\ timer' = 0
        /\ UNCHANGED time

LetPass == /\ due
           /\ mode # "armed"
           /\ due' = FALSE
           /\ UNCHANGED <<time, mode, timer>>

(***************************************************************************)
(* A mode grows older, or ends because its period is over.                 *)
(***************************************************************************)
Age(m, period) == /\ mode = m
                  /\ timer + 1 < period
                  /\ timer' = timer + 1
                  /\ UNCHANGED <<time, due, mode>>

Expire(m, period, next) == /\ mode = m
                           /\ timer + 1 = period
                           /\ mode' = next
                           /\ timer' = 0
                           /\ UNCHANGED <<time, due>>

(***************************************************************************)
(* The user's buttons.                                                     *)
(***************************************************************************)
Press(from, to) == /\ mode \in from
                   /\ mode' = to
                   /\ timer' = 0
                   /\ UNCHANGED <<time, due>>

Snooze  == Press({"ringing"}, "snoozed")
Mute    == Press({"ringing", "snoozed"}, "armed")
Disable == Press({"armed", "ringing", "snoozed"}, "disabled")
Enable  == Press({"disabled"}, "armed")

Next == \/ Tick \/ Ring \/ LetPass
        \/ Age("ringing", AutoMutePeriod) \/ Expire("ringing", AutoMutePeriod, "armed")
        \/ Age("snoozed", SnoozePeriod)   \/ Expire("snoozed", SnoozePeriod, "ringing")
        \/ Snooze \/ Mute \/ Disable \/ Enable

Spec == Init /\ [][Next]_vars
=============================================================================
