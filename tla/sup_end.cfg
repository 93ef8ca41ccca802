\* Termination and graceful shutdown, with a failing system call.
SPECIFICATION FairSpec
CONSTANTS
  Workers = 1
  MaxSlots = 2
  AffinityN = 1
  Word = 8
  MaxFds = 2
  FirstDelay = 1
  KillDelay = 1
  SigioRounds = 1
  MaxCrash = 1
  MaxFail = 1
  MaxAdd = 1
PROPERTIES
  TermEndsProgram
  QuitEndsProgram
