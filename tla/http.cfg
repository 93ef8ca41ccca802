\* Two requests over the urls of two hosts, with every call failing at any url.
SPECIFICATION FairSpec
CONSTANTS
  NReq = 2
  Hosts = {1, 2}
  Ports = {1, 2}
  Urls <- List
  Shorter <- Prefix
  Counts <- Uneven
  MaxUrl = 3
  MaxStart = 2
  Faults = {"url", "dns", "build", "socket", "connect"}
INVARIANTS
  FdOwned
  RightServer
PROPERTIES
  LoopEnds
  RequestEnds
\* When all requests have ended, nothing is left to do.
CHECK_DEADLOCK FALSE
