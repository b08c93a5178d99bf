\* A day of 24 seconds with all three carries; snoozing outlives ringing, and a
\* few snoozes in a row reach the next day's alarm time.
CONSTANTS
    HoursPerDay = 4
    MinutesPerHour = 2
    SecondsPerMinute = 3
    AlarmHour = 0
    AlarmMinute = 1
    AlarmSecond = 2
    AlarmAutoMuteSeconds = 3
    SnoozeSeconds = 4
SPECIFICATION SSpec
INVARIANTS TypeOK FlagsAgree NoPhantomPress StatusSeen ClockSeen
PROPERTIES ImplementsPromise PeriodsAreKept RingingStops RingsAgain
