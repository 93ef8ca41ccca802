\* Every interleaving of signals, crashes and reap passes, with the table at its limit.
SPECIFICATION Spec
CONSTANTS
  Workers = 2
  MaxSlots = 3
  AffinityN = 5
  Word = 8
  MaxFds = 3
  FirstDelay = 1
  KillDelay = 1
  SigioRounds = 1
  MaxCrash = 1
  MaxFail = 0
  MaxAdd = 1
INVARIANTS
  TypeOK
  ChildrenInTable
  ReapVerdict
  NewBinaryForgotten
PROPERTIES
  NoForkInShutdown
