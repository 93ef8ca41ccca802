\* Short texts over all bytes that matter, and longer ones for every kind of directive.
SPECIFICATION FairSpec
CONSTANTS
  MaxInt = 1048575
  Sources <- Inputs
  MaxFd = 3
  Faults = {"alloc", "open", "read", "user"}
INVARIANTS
  BufferInvisible
  Restored
  GivenKept
  TimesExact
  EveryLogHears
PROPERTIES
  ParseEnds
\* The parser returns.
CHECK_DEADLOCK FALSE
