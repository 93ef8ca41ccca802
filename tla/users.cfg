\* Groups of users that start, follow a scene, time out and are freed in any order.
SPECIFICATION FairSpec
CONSTANTS
  Size = 1
  NodeN = 1
  UserN = 2
  NCsm = 1
  Ids = {1, 2}
  GroupIds = {0, 1}
  NGroup = 2
  Scenes = {TRUE, FALSE}
  Batch = 1
  MaxSim = 2
  MaxCtl = 1
  MaxFail = 1
INVARIANTS
  UsersConserved
  GroupsOwned
PROPERTIES
  GroupsStart
\* The program only reacts: it waits when the environment has nothing more to do.
CHECK_DEADLOCK FALSE
