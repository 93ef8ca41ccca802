\* Shared and own ids, colliding buckets, an exhausted pool.
SPECIFICATION FairSpec
CONSTANTS
  Size = 3
  NodeN = 2
  NConn = 3
  FrontEnds <- Clients
  ChanLen = 1
  MaxConn = 4
  MaxMsg = 1
  MaxFault = 1
INVARIANTS
  NoDangling
PROPERTIES
  NodesConserved
  CommandAnswered
\* The program only reacts: it waits when the environment has nothing more to do.
CHECK_DEADLOCK FALSE
