\* Both balancers over crashes, respawns, failures, additions and full queues.
SPECIFICATION Spec
CONSTANTS
  Policies = {"dynamic", "polling"}
  NSlots = 2
  Boot = 2
  QLen = 1
  InLen = 3
  Pool = 1
  Interval = 2
  Warmup = 2
  MaxCrash = 2
  MaxExtra = 1
  MaxReq = 2
INVARIANTS
  NoSlotTriedTwice
  Reachable
PROPERTIES
  GivesUpOnlyWhenAllMarked
\* The program only reacts: it waits when the environment has nothing more to do.
CHECK_DEADLOCK FALSE
