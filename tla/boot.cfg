\* Instances that start, daemonize, change their binary, end, crash, and share a pid file or not.
SPECIFICATION FairSpec
CONSTANTS
  NPid = 4
  Paths = {"a", "b"}
  Confs <- Files
  Args <- Commands
  Faults = {"fork", "write", "crash"}
INVARIANTS
  NamesLiving
  Found
PROPERTIES
  NameComesBack
\* When all instances have ended and no pid is left, nothing can be started.
CHECK_DEADLOCK FALSE
