---------------------------- MODULE AlarmHistory ----------------------------
(***************************************************************************)
(* The alarm thread with two histories the code does not keep: whether     *)
(* each button was pressed since the last poll, and how many seconds       *)
(* (returns of k_sleep) the present ringing or snooze has lasted.  They    *)
(* let the properties speak of what the user sees rather than of the       *)
(* counters of alarm.c.                                                    *)
(***************************************************************************)
EXTENDS Alarm

VARIABLES
    fresh,    \* whether the button was pressed since the last poll
    since,    \* seconds since the alarm began the present ringing or snooze
    kind      \* "ringing", "snoozed", or "none"

hvars == <<pc, clock, alarm, last, pin, speaker, fresh, since, kind>>

\* A button held while the board boots counts as pressed: last_* start at 1.
HInit == /\ Init
         /\ fresh = [b \in Buttons |-> pin[b] = 0]
         /\ since = 0
         /\ kind = "none"

Kind(a) == IF a.active THEN "ringing" ELSE IF a.snoozed THEN "snoozed" ELSE "none"

\* Bound of the count.
MaxSince == AlarmAutoMuteSeconds + SnoozeSeconds

HAlarmThread ==
    /\ AlarmThread
    /\ fresh' = [b \in Buttons |-> fresh[b] /\ pc # "alarm_check_buttons"]
    /\ kind' = Kind(alarm')
    /\ since' = IF kind' # kind \/ kind' = "none" THEN 0
                ELSE IF pc = "k_sleep" /\ since < MaxSince THEN since + 1 ELSE since

\* Only the poll reads the pins: a change at another moment of the pass is as good
\* as one while the thread sleeps.
HPinChange(b) ==
    /\ pc \in {"alarm_gpio_init", "k_sleep"}
    /\ PinChange(b)
    /\ fresh' = [fresh EXCEPT ![b] = @ \/ pin[b] = 1]
    /\ UNCHANGED <<since, kind>>

-----------------------------------------------------------------------------
\* The thread acts on a button only if it was pressed since the last poll, however
\* long it is held and however its edges fall between the polls: every press acts
\* at most once (the last_* comparison).
NoPhantomPress == \A b \in Buttons : Pressed(b) => fresh[b]

\* A ringing that nobody interrupts is muted, and a snooze that nobody
\* interrupts ends, after exactly as many seconds as its period less one: the
\* pass that begins either mode also counts its first second.  No schedule of
\* presses before it makes either longer or shorter.
PeriodsAreKept ==
    [][/\ pc = "update_auto_mute" /\ kind = "ringing" /\ kind' # "ringing"
             => since = AlarmAutoMuteSeconds - 1
       /\ pc = "update_snooze" /\ kind = "snoozed" /\ kind' # "snoozed"
             => since = SnoozeSeconds - 1]_hvars
=============================================================================
