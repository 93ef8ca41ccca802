\* Lines at the limits of the buffer, a chain of logs with full disks, and the days of the calendar.
SPECIFICATION Spec
CONSTANTS
  Scenarios <- MCScenarios
  MaxStr = 64
  Reserve = 18
  NSlots = 2
  Pid = 31
  Names <- LevelNames
  Errors <- ErrorTexts
  Unknown <- NoSuchText
INVARIANTS
  LineWhole
  TimesAgree
