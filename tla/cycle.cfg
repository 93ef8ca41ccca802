\* The start of the program in each mode, with each list of logs, failing at any step.
SPECIFICATION Spec
CONSTANTS
  Modes = {"run", "test", "signal"}
  LogLists <- Lists
  MaxFd = 8
INVARIANTS
  LogsLead
  GivesBack
  StartsClean
\* The program exits or enters its process cycle.
CHECK_DEADLOCK FALSE
