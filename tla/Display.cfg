\* A day of 12 seconds; seven views of 1 second; periods longer than a round of them.
SPECIFICATION Spec
CONSTANTS
  HoursPerDay = 2
  MinutesPerHour = 2
  SecondsPerMinute = 3
  AlarmHour = 0
  AlarmMinute = 1
  AlarmSecond = 2
  AlarmAutoMuteSeconds = 10
  SnoozeSeconds = 11
  ViewSeconds = 1
  SensorSeconds = 1
  MaxOverhead = 1
  Pulses = 2
INVARIANTS TypeOK StatusIsShown PairShown SpeakerFollows
PROPERTY PeriodsAreShown
