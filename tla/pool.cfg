\* Blocks of three or four small regions: every branch of the allocator is a few requests away.
SPECIFICATION Spec
CONSTANTS
  Size = 12
  Align = 2
  Hdr = 4
  DataHdr = 2
  LargeHdr = 2
  CleanHdr = 2
  FileHdr = 2
  ArrHdr = 2
  ListHdr = 4
  PartHdr = 2
  PageMax = 6
  FailLimit = 0
  LargeTries = 2
  Sizes = {1, 6, 7}
  EltSize = 2
  FirstN = 1
  MaxBlocks = 4
  MaxLarge = 2
  MaxFd = 1
  MaxHeld = 6
  MaxElts = 4
INVARIANTS
  Disjoint
  ElementsInside
  LargeOwned
  ClosedOnce
